------------------------------- MODULE Release -------------------------------
(***************************************************************************)
(* The release tool: tooling/release/release.mjs with release-session.mjs. *)
(*                                                                         *)
(* A run in a clone bumps the manifests, builds, uploads the packages one  *)
(* by one, and records the release as a commit and a tag that it pushes    *)
(* atomically.  Nothing but Git and the registry remembers anything: a run *)
(* that fails, is interrupted or killed is resumed by another run.  While  *)
(* a run waits, developers work in its clone, others push, tag, publish    *)
(* and move channels, and the same release may be run in another clone.    *)
(*                                                                         *)
(* Every command may fail, time out or be interrupted: where the code      *)
(* refuses to go on, the next step is not enabled and Fails is.            *)
(***************************************************************************)
EXTENDS Integers, FiniteSets, Sequences

CONSTANTS
    Clones,      \* checkouts of the repository
    N,           \* number of packages, in the order of publishedDirectories
    MaxRuns,     \* bound on the runs of the tool
    MaxOutside   \* bound on what others do

ASSUME ReleaseAssumption ==
    N \in Nat \ {0} /\ MaxRuns \in Nat /\ MaxOutside \in Nat

Packages == 1 .. N

VARIABLES
    \* the commits there are, the origin and the registry
    commits, remoteMain, remoteTag, registry, channel,
    flying,      \* commands on their way to the origin or the registry
    runs, outside,
    \* every clone: its checkout
    branch, head, manifest, localTag,
    dirty,       \* do files outside the manifests differ from the commit?
    \* and its run: control point, and the constants of release()
    pc, run, original, source, main, tag, verifiedTag, published,
    item,        \* the package at hand
    built,       \* the tree the candidates were built from
    target,      \* releaseCommit
    owned,       \* #replacedManifests
    answered,    \* did the command that is waited for succeed?
    strayed,     \* were bumped manifests left behind, and said to be?
    \* history: has nobody worked in the clone since the last look at it before
    \* the gate?  And builds accepted although somebody has, with the tree that
    \* they were to have.
    quiet, disturbed

worldVars == <<commits, remoteMain, remoteTag, registry, channel, disturbed>>
cloneVars == <<branch, head, manifest, localTag, dirty, quiet>>
runVars   == <<run, original, source, main, tag, verifiedTag, published,
               item, built, target, owned, answered, strayed>>
vars == <<worldVars, flying, runs, outside, cloneVars, pc, runVars>>

\* A commit knows its ancestors and itself, whether it does nothing but release
\* its parent, and its manifests: with the old version, with the version to be
\* released, or edited otherwise.
Versions == {"old", "new", "edited"}
Commit(parent, past, release, version) ==
    [parent |-> parent, past |-> past, release |-> release, version |-> version]
Ids == 1 .. Len(commits)
\* A release commit has the tree of its parent, but for the version.
Tree(c) == IF commits[c].release THEN commits[c].parent ELSE c

NoTag == 0
ForeignTag == -1                \* somebody else's tag of that name
Absent == [state |-> "absent", content |-> 0]
Foreign == [state |-> "visible", content |-> 0]
Visible(t) == [state |-> "visible", content |-> t]

Working == {"source", "clean", "fetch", "refs", "registry", "again", "replace",
            "gate", "accept", "verify", "prompt", "inputs", "references",
            "uploading", "visible", "contents", "channel", "channels", "record",
            "compare",
            "committing", "committed", "tagging", "tagged", "pushing"}
Points == Working \union {"idle", "closing", "restoring"}

Upload(c, p) == [kind |-> "upload", clone |-> c, run |-> run[c],
                 package |-> p, content |-> built[c]]
Push(c, t) == [kind |-> "push", clone |-> c, run |-> run[c], commit |-> target[c],
               tag |-> t, main |-> main[c], lease |-> verifiedTag[c]]

Init ==
    /\ commits = <<Commit(0, {1}, FALSE, [p \in Packages |-> "old"])>>
    /\ remoteMain = 1 /\ remoteTag = NoTag
    /\ registry = [p \in Packages |-> Absent]
    /\ channel = [p \in Packages |-> FALSE]
    /\ flying = {} /\ runs = 0 /\ outside = 0
    /\ branch = [c \in Clones |-> "main"] /\ head = [c \in Clones |-> 1]
    /\ manifest = [c \in Clones |-> [p \in Packages |-> "old"]]
    /\ localTag = [c \in Clones |-> NoTag] /\ dirty = [c \in Clones |-> FALSE]
    /\ quiet = [c \in Clones |-> TRUE] /\ disturbed = {}
    /\ pc = [c \in Clones |-> "idle"] /\ run = [c \in Clones |-> 0]
    /\ original = manifest
    /\ source = [c \in Clones |-> 1] /\ main = [c \in Clones |-> 1]
    /\ tag = [c \in Clones |-> NoTag] /\ verifiedTag = [c \in Clones |-> NoTag]
    /\ published = [c \in Clones |-> {}] /\ item = [c \in Clones |-> 1]
    /\ built = [c \in Clones |-> 1] /\ target = [c \in Clones |-> 1]
    /\ owned = [c \in Clones |-> {}] /\ answered = [c \in Clones |-> FALSE]
    /\ strayed = [c \in Clones |-> FALSE]

Go(c, from, to) == pc[c] = from /\ pc' = [pc EXCEPT ![c] = to]

-----------------------------------------------------------------------------
(* Preflight.                                                              *)

AtSource(c) == branch[c] = "main" /\ head[c] = source[c]
Clean(c) == manifest[c] = commits[head[c]].version /\ ~dirty[c]
Bumped(c) == \A p \in Packages : manifest[c][p] = "new"

\* The manifests are read before anything is asked of Git.
Start(c) ==
    /\ Go(c, "idle", "source")
    /\ runs < MaxRuns
    /\ runs' = runs + 1
    /\ run' = [run EXCEPT ![c] = runs + 1]
    /\ original' = [original EXCEPT ![c] = manifest[c]]
    /\ UNCHANGED <<worldVars, flying, outside, cloneVars, source, main, tag, verifiedTag,
                   published, item, built, target, owned, answered, strayed>>

Source(c) ==
    /\ Go(c, "source", "clean")
    /\ branch[c] = "main"
    /\ source' = [source EXCEPT ![c] = head[c]]
    /\ UNCHANGED <<worldVars, flying, runs, outside, cloneVars, run, original, main, tag,
                   verifiedTag, published, item, built, target, owned, answered, strayed>>

CheckClean(c) ==
    /\ Go(c, "clean", "fetch")
    /\ Clean(c)
    /\ UNCHANGED <<worldVars, flying, runs, outside, cloneVars, runVars>>

\* isReleaseCommit: the commit does nothing but release its parent.
IsReleaseCommit(c, parent) == commits[c].release /\ commits[c].parent = parent

Ahead(c, m) == commits[c].past \ commits[m].past
\* main equals origin/main, or is its release commit, not pushed yet.
Pending(c) == Ahead(source[c], main[c]) # {} /\ IsReleaseCommit(source[c], main[c])

\* Mutant: a release commit that was not pushed is not expected.
FetchAcceptsPushed(c) ==
    /\ remoteMain \in commits[source[c]].past
    /\ Ahead(source[c], remoteMain) = {}
    /\ localTag[c] # NoTag => localTag[c] = source[c]

\* Local main is neither behind nor, but for the release commit, ahead; a tag
\* of that name must record this very release.
FetchAccepts(c) ==
    /\ remoteMain \in commits[source[c]].past
    /\ \/ Ahead(source[c], remoteMain) = {}
       \/ Cardinality(Ahead(source[c], remoteMain)) = 1 /\ IsReleaseCommit(source[c], remoteMain)
    /\ localTag[c] # NoTag => /\ \A p \in Packages : original[c][p] = "new"
                              /\ localTag[c] = source[c]

Fetch(c) ==
    /\ Go(c, "fetch", "refs")
    /\ FetchAccepts(c)
    /\ main' = [main EXCEPT ![c] = remoteMain]
    /\ tag' = [tag EXCEPT ![c] = localTag[c]]
    /\ UNCHANGED <<worldVars, flying, runs, outside, cloneVars, run, original, source,
                   verifiedTag, published, item, built, target, owned, answered, strayed>>

\* releaseReferences at the push destination; then the manifests once more.
References(c) ==
    /\ Go(c, "refs", "registry")
    /\ remoteMain = main[c]
    /\ remoteTag \in {NoTag, tag[c]}
    /\ manifest[c] = original[c]
    /\ verifiedTag' = [verifiedTag EXCEPT ![c] = remoteTag]
    /\ published' = [published EXCEPT ![c] = {}]
    /\ item' = [item EXCEPT ![c] = 1]
    /\ UNCHANGED <<worldVars, flying, runs, outside, cloneVars, run, original, source, main,
                   tag, built, target, owned, answered, strayed>>

\* registryHasVersion: only what is visible is published, one query each.
QueryRegistry(c) ==
    /\ pc[c] = "registry" /\ item[c] \in Packages
    /\ published' = [published EXCEPT ![c] =
                       IF registry[item[c]].state = "visible" THEN @ \union {item[c]} ELSE @]
    /\ item' = [item EXCEPT ![c] = @ + 1]
    /\ UNCHANGED <<worldVars, flying, runs, outside, cloneVars, pc, run, original, source, main,
                   tag, verifiedTag, built, target, owned, answered, strayed>>

\* A release that Git records is a release of every package.
RegistryAccepts(c) == Pending(c) \/ tag[c] # NoTag => published[c] = Packages

RegistryKnown(c) ==
    /\ Go(c, "registry", "again")
    /\ item[c] \notin Packages
    /\ RegistryAccepts(c)
    /\ UNCHANGED <<worldVars, flying, runs, outside, cloneVars, runVars>>

CheckAgain(c) ==
    /\ Go(c, "again", "replace")
    /\ AtSource(c) /\ Clean(c)
    /\ quiet' = [quiet EXCEPT ![c] = TRUE]
    /\ UNCHANGED <<worldVars, flying, runs, outside, branch, head, manifest, localTag, dirty,
                   runVars>>

\* Are the manifests of the packages up to p as they were read?
Intact(c, p) == \A q \in 1 .. p : manifest[c][q] = original[c][q]

\* Mutant: manifests are remembered only when all of them were replaced.
ReplaceAllOrNone(c) ==
    /\ Go(c, "replace", IF Intact(c, N) THEN "gate" ELSE "closing")
    /\ owned' = [owned EXCEPT ![c] = IF Intact(c, N) THEN Packages ELSE {}]
    /\ manifest' = [manifest EXCEPT ![c] =
                      [p \in Packages |-> IF Intact(c, p) THEN "new" ELSE @[p]]]
    /\ UNCHANGED <<worldVars, flying, runs, outside, branch, head, localTag, dirty, quiet, run,
                   original, source, main, tag, verifiedTag, published, item, built, target,
                   answered, strayed>>

\* replaceManifests: stops at the first that was edited meanwhile.
Replace(c) ==
    /\ Go(c, "replace", IF Intact(c, N) THEN "gate" ELSE "closing")
    /\ owned' = [owned EXCEPT ![c] = {p \in Packages : Intact(c, p)}]
    /\ manifest' = [manifest EXCEPT ![c] =
                      [p \in Packages |-> IF Intact(c, p) THEN "new" ELSE @[p]]]
    /\ UNCHANGED <<worldVars, flying, runs, outside, branch, head, localTag, dirty, quiet, run,
                   original, source, main, tag, verifiedTag, published, item, built, target,
                   answered, strayed>>

-----------------------------------------------------------------------------
(* Build and verification.                                                 *)

\* What a build reads that somebody disturbs is no commit's tree.
Mixture(c) == -run[c]

\* pnpm check builds from whatever the checkout holds while it runs.
Gate(c) ==
    /\ Go(c, "gate", "accept")
    /\ \E tree \in {Tree(head[c]), Mixture(c)} :
         /\ quiet[c] => tree = Tree(head[c])
         /\ dirty[c] => tree = Mixture(c)
         /\ built' = [built EXCEPT ![c] = tree]
    /\ UNCHANGED <<worldVars, flying, runs, outside, cloneVars, run, original, source, main,
                   tag, verifiedTag, published, item, target, owned, answered, strayed>>

AsBefore(c) == AtSource(c) /\ Bumped(c) /\ ~dirty[c]

\* Mutant: nobody looks at the checkout again after the gate.
AcceptBlindly(c) ==
    /\ Go(c, "accept", "verify")
    /\ disturbed' = IF quiet[c] \/ ~AsBefore(c) THEN disturbed
                    ELSE disturbed \union {<<built[c], Tree(source[c])>>}
    /\ item' = [item EXCEPT ![c] = 1]
    /\ UNCHANGED <<commits, remoteMain, remoteTag, registry, channel, flying, runs, outside,
                   cloneVars, run, original, source, main, tag, verifiedTag, published, built,
                   target, owned, answered, strayed>>

\* The checkout must be as it was, manifests and all other files; that it was
\* so all the time is not known.
Accept(c) ==
    /\ Go(c, "accept", "verify")
    /\ AsBefore(c)
    /\ disturbed' = IF quiet[c] THEN disturbed
                    ELSE disturbed \union {<<built[c], Tree(source[c])>>}
    /\ item' = [item EXCEPT ![c] = 1]
    /\ UNCHANGED <<commits, remoteMain, remoteTag, registry, channel, flying, runs, outside,
                   cloneVars, run, original, source, main, tag, verifiedTag, published, built,
                   target, owned, answered, strayed>>

\* assertDistributionTag: channels may move once the release is recorded.
OnChannel(c, p) == verifiedTag[c] # NoTag \/ channel[p]
\* verifyRegistryContents
SameContents(c, p) == registry[p] = Visible(built[c])

\* What is already published must be what this run would publish.
VerifyAccepts(c) ==
    item[c] \in published[c] => SameContents(c, item[c]) /\ OnChannel(c, item[c])

Verify(c) ==
    /\ pc[c] = "verify" /\ item[c] \in Packages
    /\ VerifyAccepts(c)
    /\ item' = [item EXCEPT ![c] = @ + 1]
    /\ UNCHANGED <<worldVars, flying, runs, outside, cloneVars, pc, run, original, source, main,
                   tag, verifiedTag, published, built, target, owned, answered, strayed>>

Verified(c) ==
    /\ Go(c, "verify", "prompt")
    /\ item[c] \notin Packages
    /\ UNCHANGED <<worldVars, flying, runs, outside, cloneVars, runVars>>

\* A dry run, or an answer other than yes, closes here.
Confirm(c) ==
    /\ Go(c, "prompt", "inputs")
    /\ item' = [item EXCEPT ![c] = 1]
    /\ UNCHANGED <<worldVars, flying, runs, outside, cloneVars, run, original, source, main,
                   tag, verifiedTag, published, built, target, owned, answered, strayed>>

-----------------------------------------------------------------------------
(* Publication, package by package.                                        *)

Skip(c) ==
    /\ pc[c] = "inputs" /\ item[c] \in published[c]
    /\ item' = [item EXCEPT ![c] = @ + 1]
    /\ UNCHANGED <<worldVars, flying, runs, outside, cloneVars, pc, run, original, source, main,
                   tag, verifiedTag, published, built, target, owned, answered, strayed>>

\* assertPublicationInputs
CheckInputs(c) ==
    /\ Go(c, "inputs", "references")
    /\ item[c] \in Packages \ published[c]
    /\ AtSource(c) /\ Bumped(c)
    /\ UNCHANGED <<worldVars, flying, runs, outside, cloneVars, runVars>>

\* assertRemoteReleaseReferences
SameReferences(c) == remoteMain = main[c] /\ remoteTag = verifiedTag[c]

\* The upload starts.
StartUpload(c) ==
    /\ Go(c, "references", "uploading")
    /\ SameReferences(c)
    /\ flying' = flying \union {Upload(c, item[c])}
    /\ answered' = [answered EXCEPT ![c] = FALSE]
    /\ UNCHANGED <<worldVars, runs, outside, cloneVars, run, original, source, main, tag,
                   verifiedTag, published, item, built, target, owned, strayed>>

\* Mutant: npm's word is enough, nothing is read back.
UploadedUnseen(c) ==
    /\ Go(c, "uploading", "inputs")
    /\ answered[c]
    /\ item' = [item EXCEPT ![c] = @ + 1]
    /\ UNCHANGED <<worldVars, flying, runs, outside, cloneVars, run, original, source, main,
                   tag, verifiedTag, published, built, target, owned, answered, strayed>>

Uploaded(c) ==
    /\ Go(c, "uploading", "visible")
    /\ answered[c]
    /\ UNCHANGED <<worldVars, flying, runs, outside, cloneVars, runVars>>

\* waitForRegistryVisibility: polls until it sees the version or gives up.
BecomesVisible(c) ==
    /\ Go(c, "visible", "contents")
    /\ registry[item[c]].state = "visible"
    /\ UNCHANGED <<worldVars, flying, runs, outside, cloneVars, runVars>>

CheckContents(c) ==
    /\ Go(c, "contents", "channel")
    /\ SameContents(c, item[c])
    /\ UNCHANGED <<worldVars, flying, runs, outside, cloneVars, runVars>>

CheckChannel(c) ==
    /\ Go(c, "channel", "inputs")
    /\ OnChannel(c, item[c])
    /\ item' = [item EXCEPT ![c] = @ + 1]
    /\ UNCHANGED <<worldVars, flying, runs, outside, cloneVars, run, original, source, main,
                   tag, verifiedTag, published, built, target, owned, answered, strayed>>

-----------------------------------------------------------------------------
(* The record: a commit and a tag, pushed together.                        *)

AllPublished(c) ==
    /\ Go(c, "inputs", "channels")
    /\ item[c] \notin Packages
    /\ item' = [item EXCEPT ![c] = 1]
    /\ UNCHANGED <<worldVars, flying, runs, outside, cloneVars, run, original, source, main,
                   tag, verifiedTag, published, built, target, owned, answered, strayed>>

\* The channels may have moved since each package was confirmed.
CheckChannels(c) ==
    /\ pc[c] = "channels"
    /\ IF item[c] \in Packages
       THEN OnChannel(c, item[c]) /\ item' = [item EXCEPT ![c] = @ + 1] /\ UNCHANGED pc
       ELSE pc' = [pc EXCEPT ![c] = "record"] /\ UNCHANGED item
    /\ UNCHANGED <<worldVars, flying, runs, outside, cloneVars, run, original, source, main,
                   tag, verifiedTag, published, built, target, owned, answered, strayed>>

CheckRecord(c) ==
    /\ Go(c, "record", "compare")
    /\ AtSource(c) /\ Bumped(c)
    /\ UNCHANGED <<worldVars, flying, runs, outside, cloneVars, runVars>>

\* git diff: a source that carries the new versions already is its own release
\* commit.
Record(c) ==
    LET changed == manifest[c] # commits[source[c]].version
    IN  /\ Go(c, "compare", IF changed THEN "committing" ELSE "tagging")
        /\ target' = [target EXCEPT ![c] = source[c]]
        /\ owned' = [owned EXCEPT ![c] = IF changed THEN @ ELSE {}]
        /\ UNCHANGED <<worldVars, flying, runs, outside, cloneVars, run, original, source, main,
                       tag, verifiedTag, published, item, built, answered, strayed>>

NewCommit(c, release, version) ==
    Append(commits, Commit(head[c], commits[head[c]].past \union {Len(commits) + 1},
                           release, version))

\* The commit is made of what the checkout holds by now.
CommitLands(c) ==
    LET new == Len(commits) + 1
    IN  /\ Go(c, "committing", "committed")
        /\ manifest[c] # commits[head[c]].version
        /\ commits' = NewCommit(c, Bumped(c), manifest[c])
        /\ head' = [head EXCEPT ![c] = new]
        /\ UNCHANGED <<remoteMain, remoteTag, registry, channel, disturbed, flying, runs, outside,
                       branch, manifest, localTag, dirty, quiet, runVars>>

Committed(c) ==
    /\ Go(c, "committed", "tagging")
    /\ IsReleaseCommit(head[c], source[c])
    /\ target' = [target EXCEPT ![c] = head[c]]
    /\ owned' = [owned EXCEPT ![c] = {}]
    /\ UNCHANGED <<worldVars, flying, runs, outside, cloneVars, run, original, source, main,
                   tag, verifiedTag, published, item, built, answered, strayed>>

\* git tag refuses a name that is taken.
TagLands(c) ==
    /\ Go(c, "tagging", "tagged")
    /\ IF tag[c] = NoTag
       THEN localTag[c] = NoTag /\ localTag' = [localTag EXCEPT ![c] = target[c]]
       ELSE UNCHANGED localTag
    /\ UNCHANGED <<worldVars, flying, runs, outside, branch, head, manifest, dirty, quiet,
                   runVars>>

\* The push holds leases on both references as they were verified.
StartPush(c) ==
    LET object == IF tag[c] = NoTag THEN localTag[c] ELSE tag[c]
    IN  /\ Go(c, "tagged", "pushing")
        /\ object = target[c]
        /\ flying' = flying \union {Push(c, object)}
        /\ answered' = [answered EXCEPT ![c] = FALSE]
        /\ UNCHANGED <<worldVars, runs, outside, cloneVars, run, original, source, main, tag,
                       verifiedTag, published, item, built, target, owned, strayed>>

Pushed(c) ==
    /\ Go(c, "pushing", "closing")
    /\ answered[c]
    /\ UNCHANGED <<worldVars, flying, runs, outside, cloneVars, runVars>>

-----------------------------------------------------------------------------
(* The origin and the registry.                                            *)

\* Who waits for the answer of f, if anybody still does, hears of it.
Answer(f) ==
    answered' = [c \in Clones |->
                   answered[c] \/ (c = f.clone /\ run[c] = f.run /\ pc[c] \in {"uploading", "pushing"})]

\* A version is stored once, under its channel, and becomes readable later.
UploadLands(f) ==
    /\ f \in flying /\ f.kind = "upload"
    /\ registry[f.package] = Absent
    /\ registry' = [registry EXCEPT ![f.package] = [state |-> "pending", content |-> f.content]]
    /\ channel' = [channel EXCEPT ![f.package] = TRUE]
    /\ flying' = flying \ {f}
    /\ Answer(f)
    /\ UNCHANGED <<commits, remoteMain, remoteTag, disturbed, runs, outside, cloneVars, pc, run,
                   original, source, main, tag, verifiedTag, published, item, built, target, owned, strayed>>

Processed(p) ==
    /\ registry[p].state = "pending"
    /\ registry' = [registry EXCEPT ![p].state = "visible"]
    /\ UNCHANGED <<commits, remoteMain, remoteTag, channel, disturbed, flying, runs, outside,
                   cloneVars, pc, runVars>>

\* Mutant: the tag alone is leased.
LeasesTag(f) == remoteTag = f.lease

\* Both references or none, and only from what the leases name.
LeasesHold(f) == remoteMain = f.main /\ remoteTag = f.lease

PushLands(f) ==
    /\ f \in flying /\ f.kind = "push"
    /\ LeasesHold(f)
    /\ remoteMain' = f.commit /\ remoteTag' = f.tag
    /\ flying' = flying \ {f}
    /\ Answer(f)
    /\ UNCHANGED <<commits, registry, channel, disturbed, runs, outside, cloneVars, pc, run,
                   original, source, main, tag, verifiedTag, published, item, built, target, owned, strayed>>

\* Refused, or never arrived.
Lost(f) ==
    /\ f \in flying
    /\ flying' = flying \ {f}
    /\ UNCHANGED <<worldVars, runs, outside, cloneVars, pc, runVars>>

-----------------------------------------------------------------------------
(* Failure, interruption and close().                                      *)

\* What release() has found out is gone with it.
Forgets(c) ==
    /\ published' = [published EXCEPT ![c] = {}] /\ item' = [item EXCEPT ![c] = 1]
    /\ built' = [built EXCEPT ![c] = 1] /\ target' = [target EXCEPT ![c] = 1]
    /\ answered' = [answered EXCEPT ![c] = FALSE]

\* A refusal, an error, a timeout, a signal, a declined prompt, a dry run: the
\* command under way is killed, what it has sent already may still arrive.
Fails(c) ==
    /\ pc[c] \in Working
    /\ pc' = [pc EXCEPT ![c] = "closing"]
    /\ Forgets(c)
    /\ UNCHANGED <<worldVars, flying, runs, outside, cloneVars, run, original, source, main,
                   tag, verifiedTag, owned, strayed>>

\* The process is killed: nothing is restored.
Crash(c) ==
    /\ pc[c] # "idle"
    /\ pc' = [pc EXCEPT ![c] = "idle"]
    /\ strayed' = [strayed EXCEPT ![c] = @ \/ owned[c] # {}]
    /\ owned' = [owned EXCEPT ![c] = {}]
    /\ Forgets(c)
    /\ UNCHANGED <<worldVars, flying, runs, outside, cloneVars, run, original, source, main,
                   tag, verifiedTag>>

\* restoreManifests asks Git first, and gives up on an answer or an error.
Closes(c) ==
    /\ pc[c] = "closing"
    /\ \/ owned[c] = {} /\ pc' = [pc EXCEPT ![c] = "idle"] /\ UNCHANGED <<owned, strayed>>
       \/ owned[c] # {} /\ AtSource(c) /\ pc' = [pc EXCEPT ![c] = "restoring"]
          /\ UNCHANGED <<owned, strayed>>
       \/ owned[c] # {} /\ pc' = [pc EXCEPT ![c] = "idle"]
          /\ owned' = [owned EXCEPT ![c] = {}] /\ strayed' = [strayed EXCEPT ![c] = TRUE]
    /\ UNCHANGED <<worldVars, flying, runs, outside, cloneVars, run, original, source, main,
                   tag, verifiedTag, published, item, built, target, answered>>

\* What was edited meanwhile is reported, the others are restored.
Restore(c) ==
    /\ Go(c, "restoring", "idle")
    /\ manifest' = [manifest EXCEPT ![c] =
                      [p \in Packages |-> IF p \in owned[c] /\ @[p] = "new"
                                         THEN original[c][p] ELSE @[p]]]
    /\ owned' = [owned EXCEPT ![c] = {}]
    /\ UNCHANGED <<worldVars, flying, runs, outside, branch, head, localTag, dirty, quiet, run,
                   original, source, main, tag, verifiedTag, published, item, built, target,
                   answered, strayed>>

-----------------------------------------------------------------------------
(* What others do, at any time.                                            *)

Act == outside < MaxOutside /\ outside' = outside + 1
\* Others work in the clone, where a run may be building.
Work(c) == Act /\ quiet' = [quiet EXCEPT ![c] = @ /\ pc[c] \notin {"replace", "gate"}]

Edit(c, p) ==
    /\ Work(c)
    /\ manifest' = [manifest EXCEPT ![c][p] = "edited"]
    /\ UNCHANGED <<worldVars, flying, runs, branch, head, localTag, dirty, pc, runVars>>

\* Other files are edited, or restored.
Touch(c) ==
    /\ Work(c)
    /\ dirty' = [dirty EXCEPT ![c] = ~@]
    /\ UNCHANGED <<worldVars, flying, runs, branch, head, manifest, localTag, pc, runVars>>

\* git restore, between two runs: the way back from a killed one.
Discard(c) ==
    /\ pc[c] = "idle" /\ ~Clean(c)
    /\ manifest' = [manifest EXCEPT ![c] = commits[head[c]].version]
    /\ dirty' = [dirty EXCEPT ![c] = FALSE]
    /\ strayed' = [strayed EXCEPT ![c] = FALSE]
    /\ UNCHANGED <<worldVars, flying, runs, outside, branch, head, localTag, quiet, pc, run,
                   original, source, main, tag, verifiedTag, published, item, built, target,
                   owned, answered>>

\* A checkout or a pull keeps what differs from the commit it leaves.
Checkout(c, b, id) ==
    /\ Work(c)
    /\ id \in commits[head[c]].past \union commits[remoteMain].past
    /\ <<b, id>> # <<branch[c], head[c]>>
    /\ LET here == commits[head[c]].version
           there == commits[id].version
       IN  /\ \A p \in Packages : manifest[c][p] \in {here[p], there[p]} \/ here[p] = there[p]
           /\ manifest' = [manifest EXCEPT ![c] =
                             [p \in Packages |-> IF @[p] = here[p] THEN there[p] ELSE @[p]]]
    /\ branch' = [branch EXCEPT ![c] = b]
    /\ head' = [head EXCEPT ![c] = id]
    /\ UNCHANGED <<worldVars, flying, runs, localTag, dirty, pc, runVars>>

\* A developer commits in the clone, with or without the manifests and what
\* else there is.
Develop(c) ==
    /\ Work(c)
    /\ \E version \in {manifest[c], commits[head[c]].version} :
         commits' = NewCommit(c, FALSE, version)
    /\ head' = [head EXCEPT ![c] = Len(commits) + 1]
    /\ \E left \in {dirty[c], FALSE} : dirty' = [dirty EXCEPT ![c] = left]
    /\ UNCHANGED <<remoteMain, remoteTag, registry, channel, disturbed, flying, runs, branch,
                   manifest, localTag, pc, runVars>>

\* A developer tags in the clone, or deletes the tag.
Retag(c) ==
    /\ Act
    /\ \E id \in {NoTag, head[c]} \ {localTag[c]} : localTag' = [localTag EXCEPT ![c] = id]
    /\ UNCHANGED <<worldVars, flying, runs, branch, head, manifest, dirty, quiet, pc, runVars>>

\* Somebody pushes to main from elsewhere.
OthersPush ==
    LET new == Len(commits) + 1
    IN  /\ Act
        /\ commits' = Append(commits, Commit(remoteMain, commits[remoteMain].past \union {new},
                                             FALSE, commits[remoteMain].version))
        /\ remoteMain' = new
        /\ UNCHANGED <<remoteTag, registry, channel, disturbed, flying, runs, cloneVars, pc,
                       runVars>>

OthersTag ==
    /\ Act
    /\ remoteTag = NoTag /\ remoteTag' = ForeignTag
    /\ UNCHANGED <<commits, remoteMain, registry, channel, disturbed, flying, runs, cloneVars,
                   pc, runVars>>

OthersPublish(p) ==
    /\ Act
    /\ registry[p] = Absent /\ registry' = [registry EXCEPT ![p] = Foreign]
    /\ UNCHANGED <<commits, remoteMain, remoteTag, channel, disturbed, flying, runs, cloneVars,
                   pc, runVars>>

MoveChannel(p) ==
    /\ Act
    /\ channel' = [channel EXCEPT ![p] = ~@]
    /\ UNCHANGED <<commits, remoteMain, remoteTag, registry, disturbed, flying, runs, cloneVars,
                   pc, runVars>>

Others ==
    \/ OthersPush \/ OthersTag
    \/ \E p \in Packages : OthersPublish(p) \/ MoveChannel(p)
    \/ \E c \in Clones : \/ Develop(c) \/ Touch(c) \/ Retag(c)
                         \/ \E p \in Packages : Edit(c, p)
                         \/ \E b \in {"main", "other"}, id \in Ids : Checkout(c, b, id)

Run(c) ==
    \/ Start(c) \/ Source(c) \/ CheckClean(c) \/ Fetch(c) \/ References(c)
    \/ QueryRegistry(c) \/ RegistryKnown(c) \/ CheckAgain(c) \/ Replace(c)
    \/ Gate(c) \/ Accept(c) \/ Verify(c) \/ Verified(c) \/ Confirm(c)
    \/ Skip(c) \/ CheckInputs(c) \/ StartUpload(c) \/ Uploaded(c)
    \/ BecomesVisible(c) \/ CheckContents(c) \/ CheckChannel(c)
    \/ AllPublished(c) \/ CheckChannels(c) \/ CheckRecord(c) \/ Record(c)
    \/ CommitLands(c) \/ Committed(c) \/ TagLands(c) \/ StartPush(c) \/ Pushed(c)
    \/ Fails(c) \/ Crash(c) \/ Closes(c) \/ Restore(c) \/ Discard(c)

Next ==
    \/ \E c \in Clones : Run(c)
    \/ \E f \in flying : UploadLands(f) \/ PushLands(f) \/ Lost(f)
    \/ \E p \in Packages : Processed(p)
    \/ Others

Spec == Init /\ [][Next]_vars

-----------------------------------------------------------------------------
TypeOK ==
    /\ commits \in Seq([parent : Nat, past : SUBSET Nat, release : BOOLEAN,
                        version : [Packages -> Versions]])
    /\ Ids # {} /\ remoteMain \in Ids
    /\ remoteTag \in Ids \union {NoTag, ForeignTag}
    /\ registry \in [Packages -> [state : {"absent", "pending", "visible"}, content : Int]]
    /\ channel \in [Packages -> BOOLEAN]
    /\ \A f \in flying :
         \/ f \in [kind : {"upload"}, clone : Clones, run : Nat, package : Packages, content : Int]
         \/ f \in [kind : {"push"}, clone : Clones, run : Nat, commit : Ids, tag : Ids,
                   main : Ids, lease : Ids \union {NoTag}]
    /\ runs \in Nat /\ outside \in Nat
    /\ branch \in [Clones -> {"main", "other"}] /\ head \in [Clones -> Ids]
    /\ manifest \in [Clones -> [Packages -> Versions]]
    /\ original \in [Clones -> [Packages -> Versions]]
    /\ localTag \in [Clones -> Ids \union {NoTag}]
    /\ pc \in [Clones -> Points] /\ run \in [Clones -> Nat]
    /\ source \in [Clones -> Ids] /\ main \in [Clones -> Ids] /\ target \in [Clones -> Ids]
    /\ tag \in [Clones -> Ids \union {NoTag}] /\ verifiedTag \in [Clones -> Ids \union {NoTag}]
    /\ published \in [Clones -> SUBSET Packages] /\ item \in [Clones -> 1 .. N + 1]
    /\ dirty \in [Clones -> BOOLEAN] /\ quiet \in [Clones -> BOOLEAN]
    /\ disturbed \in SUBSET (Int \X Nat)
    /\ built \in [Clones -> Int] /\ owned \in [Clones -> SUBSET Packages]
    /\ answered \in [Clones -> BOOLEAN] /\ strayed \in [Clones -> BOOLEAN]

\* Is this the tree a build was to have?  Or has somebody worked in the clone
\* while it was made, and put everything back in time?
Renders(build, tree) == build = tree \/ <<build, tree>> \in disturbed

\* Every package is readable, all from one build of that commit.
Released(id) ==
    LET build == registry[1].content
    IN  /\ \A p \in Packages : registry[p] = Visible(build)
        /\ Renders(build, Tree(id))

\* A tag this tool pushed names a commit of which every package is readable,
\* all from one build, and from the tree of that commit unless its clone was
\* changed and changed back behind the gate's back; whatever failed, was
\* interrupted or published by others (lines 381 to 398, and the record, which
\* is written last, lines 578 to 642).
TagMeansReleased == remoteTag \in Ids => Released(remoteTag)

\* Packages are stored in order: one this tool stored is preceded only by
\* packages that are readable and come from the same build, so a dependent
\* never appears before what it depends on (lines 504, 543 to 576).
DependenciesFirst ==
    \A p \in Packages : registry[p] \notin {Absent, Foreign} =>
        \A q \in 1 .. p - 1 : registry[q] = Visible(registry[p].content)

\* A release that only crashed or failed, wherever it was, is resumed: a later
\* run in that clone is refused neither by its Git record, nor by what the
\* registry holds, nor by the contents it finds there (lines 118, 351, 569).
ReleasesResume ==
    \A c \in Clones :
        outside = 0 /\ (\A d \in Clones \ {c} : run[d] = 0) =>
            /\ pc[c] = "fetch" => FetchAccepts(c)
            /\ pc[c] = "registry" /\ item[c] \notin Packages => RegistryAccepts(c)
            /\ pc[c] = "verify" => VerifyAccepts(c)

\* A run that ends in a clone takes its version bump with it, or says that it
\* could not; the bump stays only once a commit carries it (restoreManifests).
ManifestsAreReturned ==
    \A c \in Clones : pc[c] = "idle" /\ ~strayed[c] =>
        \A p \in Packages : manifest[c][p] = "new" => commits[head[c]].version[p] = "new"

\* What others did is never undone: main on the origin only grows, a tag is
\* never replaced, a published version keeps its contents, and a manifest that
\* was edited since a run read it is not overwritten by that run (leases,
\* replaceManifest, which compares it with what was read).
OthersWorkSurvives ==
    [][/\ remoteMain \in commits'[remoteMain'].past
       /\ remoteTag # NoTag => remoteTag' = remoteTag
       /\ \A p \in Packages : registry[p] # Absent => registry'[p].content = registry[p].content
       /\ \A c \in Clones, p \in Packages :
            manifest[c][p] = "edited" /\ manifest'[c][p] # "edited"
              => \/ outside' # outside \/ pc[c] = "idle"
                 \/ original[c][p] = "edited"]_vars
=============================================================================
