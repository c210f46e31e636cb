---------------------------- MODULE ReleaseProofs ----------------------------
(***************************************************************************)
(* Proofs about Release, for any number of clones, packages, runs and acts  *)
(* of others.                                                               *)
(*                                                                         *)
(* That the tag is the last record, of one build, is not inductive: it       *)
(* rests on what every run has made sure of by the point it is at           *)
(* (Progress), on what the commands carry that are still on their way when  *)
(* their run is long dead (Sent), and on a release commit being its parent  *)
(* but for the version (History).  None of this can be undone by others:    *)
(* commits and readable versions stay what they are (Later).                *)
(***************************************************************************)
EXTENDS Release, SequenceTheorems, FiniteSetTheorems, TLAPS

Bump == [p \in Packages |-> "new"]

\* A commit descends from itself, and a release commit from its parent, which it
\* only bumps, and which was not bumped.
History ==
    \A i \in Ids :
        /\ i \in commits[i].past /\ commits[i].past \subseteq Ids
        /\ commits[i].release =>
             /\ commits[i].version = Bump /\ commits[i].parent \in Ids
             /\ commits[commits[i].parent].version # Bump
             /\ commits[commits[i].parent].past \subseteq commits[i].past

Preflight == {"source", "clean", "fetch", "refs", "registry", "again", "replace"}
Publishing == {"inputs", "references", "uploading", "visible", "contents", "channel"}
Recording == {"channels", "record", "compare", "committing", "committed", "tagging", "tagged", "pushing"}
Candidates == {"verify", "prompt"} \union Publishing \union Recording
Verifying == {"registry", "again", "replace", "gate", "accept"} \union Candidates

\* What a run has made sure of by the point it is at: the references,
Referred(c) ==
    /\ pc[c] \in {"refs"} \union Verifying => main[c] \in commits[source[c]].past
    /\ pc[c] \in Verifying => verifiedTag[c] \in {NoTag, tag[c]}

\* the contents of the registry,
Compared(c) ==
    /\ pc[c] = "verify" =>
         \A q \in published[c] : q < item[c] => registry[q] = Visible(built[c])
    /\ pc[c] \in {"prompt"} \union Publishing =>
         \A q \in published[c] : registry[q] = Visible(built[c])
    /\ pc[c] \in Publishing =>
         \A q \in Packages : q < item[c] => registry[q] = Visible(built[c])
    /\ pc[c] \in Publishing \ {"inputs"} => item[c] \in Packages
    /\ pc[c] = "channel" => registry[item[c]] = Visible(built[c])
    /\ pc[c] \in Recording => \A q \in Packages : registry[q] = Visible(built[c])

\* and that what it records is what it built: while nobody disturbs it, it builds
\* from its source; else it says later only that the source was there in the end.
Recorded(c) ==
    /\ pc[c] \in {"replace", "gate"} /\ quiet[c] => head[c] = source[c]
    /\ pc[c] = "accept" /\ quiet[c] => built[c] = Tree(source[c])
    /\ pc[c] \in Candidates => Renders(built[c], Tree(source[c]))
    /\ pc[c] \in {"tagging", "tagged"} =>
         Renders(built[c], Tree(target[c])) /\ main[c] \in commits[target[c]].past

Progress(c) == Referred(c) /\ Compared(c) /\ Recorded(c)

\* A bump in a checkout is committed, or the run remembers what it replaced; and
\* it is committed wherever the source has it, once the checkout was seen there.
Bumps(c) ==
    /\ pc[c] \in Preflight \union {"idle"} => owned[c] = {}
    /\ pc[c] = "compare" => \A p \in Packages :
         manifest[c][p] = "new" /\ commits[source[c]].version[p] = "new"
           => commits[head[c]].version[p] = "new"
    /\ ~strayed[c] => \A p \in Packages : manifest[c][p] = "new" =>
         commits[head[c]].version[p] = "new" \/ (p \in owned[c] /\ original[c][p] # "new")

\* What is on its way is as sound when it arrives, whenever that is.
Sent ==
    \A f \in flying :
        /\ f.kind = "upload" =>
             \A q \in Packages : q < f.package => registry[q] = Visible(f.content)
        /\ f.kind = "push" =>
             /\ f.tag = f.commit /\ f.main \in commits[f.commit].past
             /\ f.lease # NoTag => f.tag = f.lease
             /\ Released(f.commit)

\* TypeOK, in parts.
WorldTypes ==
    /\ commits \in Seq([parent : Nat, past : SUBSET Nat, release : BOOLEAN,
                        version : [Packages -> Versions]])
    /\ Ids # {} /\ remoteMain \in Ids
    /\ remoteTag \in Ids \union {NoTag, ForeignTag}
    /\ registry \in [Packages -> [state : {"absent", "pending", "visible"}, content : Int]]
    /\ channel \in [Packages -> BOOLEAN] /\ disturbed \in SUBSET (Int \X Nat)
    /\ runs \in Nat /\ outside \in Nat
SentTypes ==
    \A f \in flying :
         \/ f \in [kind : {"upload"}, clone : Clones, run : Nat, package : Packages, content : Int]
         \/ f \in [kind : {"push"}, clone : Clones, run : Nat, commit : Ids, tag : Ids,
                   main : Ids, lease : Ids \union {NoTag}]
CheckoutTypes ==
    /\ branch \in [Clones -> {"main", "other"}] /\ head \in [Clones -> Ids]
    /\ manifest \in [Clones -> [Packages -> Versions]]
    /\ localTag \in [Clones -> Ids \union {NoTag}]
    /\ dirty \in [Clones -> BOOLEAN] /\ quiet \in [Clones -> BOOLEAN]
RunTypes ==
    /\ original \in [Clones -> [Packages -> Versions]]
    /\ pc \in [Clones -> Points] /\ run \in [Clones -> Nat]
    /\ published \in [Clones -> SUBSET Packages] /\ item \in [Clones -> 1 .. N + 1]
    /\ built \in [Clones -> Int] /\ owned \in [Clones -> SUBSET Packages]
    /\ answered \in [Clones -> BOOLEAN] /\ strayed \in [Clones -> BOOLEAN]
ReferenceTypes ==
    /\ source \in [Clones -> Ids] /\ main \in [Clones -> Ids] /\ target \in [Clones -> Ids]
    /\ tag \in [Clones -> Ids \union {NoTag}] /\ verifiedTag \in [Clones -> Ids \union {NoTag}]

IInv ==
    /\ WorldTypes /\ SentTypes /\ CheckoutTypes /\ RunTypes /\ ReferenceTypes
    /\ History /\ Sent /\ TagMeansReleased /\ DependenciesFirst
    /\ \A c \in Clones : Progress(c) /\ Bumps(c)

-----------------------------------------------------------------------------
(* What may happen meanwhile.                                              *)

\* Commits and readable versions stay what they are, and what was disturbed too.
Later ==
    /\ Ids \subseteq Ids' /\ disturbed \subseteq disturbed'
    /\ \A i \in Ids : commits'[i] = commits[i]
    /\ \A p \in Packages : registry[p].state = "visible" => registry'[p] = registry[p]

\* What Progress and Bumps say of a clone.
Own(d) == <<pc[d], original[d], source[d], main[d], tag[d], verifiedTag[d], published[d],
            item[d], built[d], target[d], owned[d], strayed[d], head[d], manifest[d], quiet[d]>>
Apart(c) == \A d \in Clones \ {c} : Own(d)' = Own(d)

LEMMA CommitType ==
    ASSUME WorldTypes, NEW i \in Ids
    PROVE  /\ i \in Nat /\ commits[i].parent \in Nat /\ Tree(i) \in Nat
           /\ commits[i].past \subseteq Nat /\ commits[i].release \in BOOLEAN
           /\ commits[i].version \in [Packages -> Versions]
<1>1. commits[i] \in [parent : Nat, past : SUBSET Nat, release : BOOLEAN,
                      version : [Packages -> Versions]]
  BY ElementOfSeq DEF WorldTypes, Ids
<1>2. /\ i \in Nat /\ commits[i].parent \in Nat
      /\ commits[i].past \subseteq Nat /\ commits[i].release \in BOOLEAN
      /\ commits[i].version \in [Packages -> Versions]
  BY <1>1 DEF Ids
<1> QED  BY <1>2 DEF Tree

\* A run keeps what it has made sure of while it waits.
LEMMA Waiting ==
    ASSUME IInv, Later, NEW d \in Clones, Own(d)' = Own(d)
    PROVE  Progress(d)' /\ Bumps(d)'
<1> DEFINE o == Own(d)
<1>1. /\ pc'[d] = pc[d] /\ original'[d] = original[d] /\ source'[d] = source[d]
      /\ main'[d] = main[d] /\ tag'[d] = tag[d] /\ verifiedTag'[d] = verifiedTag[d]
      /\ published'[d] = published[d] /\ item'[d] = item[d] /\ built'[d] = built[d]
      /\ target'[d] = target[d] /\ owned'[d] = owned[d] /\ strayed'[d] = strayed[d]
      /\ head'[d] = head[d] /\ manifest'[d] = manifest[d] /\ quiet'[d] = quiet[d]
  BY DEF Own
<1>2. /\ source[d] \in Ids /\ target[d] \in Ids /\ head[d] \in Ids
      /\ published[d] \subseteq Packages
  BY DEF IInv, RunTypes, ReferenceTypes, CheckoutTypes
<1>3. /\ commits'[source[d]] = commits[source[d]] /\ commits'[target[d]] = commits[target[d]]
      /\ commits'[head[d]] = commits[head[d]]
  BY <1>2 DEF Later
<1>4. \A q \in Packages : registry[q] = Visible(built[d]) => registry'[q] = Visible(built'[d])
  BY <1>1 DEF Later, Visible
<1>5. Tree(source[d])' = Tree(source[d]) /\ Tree(target[d])' = Tree(target[d])
  BY <1>1, <1>3 DEF Tree
<1>6. Progress(d) /\ Bumps(d)
  BY DEF IInv
<1>7. Progress(d)'
  <2>1. Referred(d)'
    BY <1>1, <1>3, <1>6 DEF Progress, Referred
  <2>2. Compared(d)'
    BY <1>1, <1>2, <1>4, <1>6 DEF Progress, Compared, Publishing
  <2>3. Recorded(d)'
    BY <1>1, <1>3, <1>5, <1>6 DEF Progress, Recorded, Renders, Later
  <2> QED  BY <2>1, <2>2, <2>3 DEF Progress
<1>8. Bumps(d)'
  BY <1>1, <1>3, <1>6 DEF Bumps
<1> QED  BY <1>7, <1>8

\* What was released stays so.
LEMMA ReleasedStays ==
    ASSUME Later, NEW i \in Ids, Released(i)
    PROVE  Released(i)'
<1>1. 1 \in Packages
  BY ReleaseAssumption DEF Packages
<1>2. Tree(i)' = Tree(i)
  BY DEF Later, Tree
<1>3. \A p \in Packages : registry'[p] = registry[p]
  BY DEF Released, Visible, Later
<1> QED  BY <1>1, <1>2, <1>3 DEF Released, Renders, Later

\* A step in a clone that leaves the world as it is, but for what it may have disturbed.
LEMMA LocalStep ==
    ASSUME IInv, NEW c \in Clones, UNCHANGED <<commits, remoteMain, remoteTag, registry, channel>>,
           disturbed \subseteq disturbed', disturbed' \in SUBSET (Int \X Nat),
           runs' \in Nat, outside' \in Nat,
           SentTypes', CheckoutTypes', RunTypes', ReferenceTypes',
           Sent', Apart(c), Progress(c)', Bumps(c)'
    PROVE  IInv'
<1>1. Later
  BY DEF Later, Ids
<1>2. \A d \in Clones : Progress(d)' /\ Bumps(d)'
  BY <1>1, Waiting DEF Apart
<1>3. WorldTypes'
  BY DEF IInv, WorldTypes, Ids
<1>4. History' /\ DependenciesFirst'
  BY DEF IInv, History, DependenciesFirst, Ids
<1>5. TagMeansReleased'
  BY <1>1, ReleasedStays DEF IInv, TagMeansReleased, Ids
<1> QED  BY <1>2, <1>3, <1>4, <1>5 DEF IInv

\* One that leaves the whole world as it is.
LEMMA CloneStep ==
    ASSUME IInv, NEW c \in Clones, UNCHANGED worldVars, runs' \in Nat, outside' \in Nat,
           SentTypes', CheckoutTypes', RunTypes', ReferenceTypes',
           Sent', Apart(c), Progress(c)', Bumps(c)'
    PROVE  IInv'
BY LocalStep DEF worldVars, IInv, WorldTypes

\* What is on its way stays sound.
LEMMA SentStays ==
    ASSUME IInv, Later, flying' \subseteq flying
    PROVE  Sent'
<1>1. \A q \in Packages, t \in Int : registry[q] = Visible(t) => registry'[q] = Visible(t)
  BY DEF Later, Visible
<1>2. \A f \in flying : f.kind = "upload" => f.content \in Int
  BY DEF IInv, SentTypes
<1>3. \A f \in flying : f.kind = "push" =>
        f.commit \in Ids /\ commits'[f.commit] = commits[f.commit]
  BY DEF IInv, SentTypes, Later
<1>4. ASSUME NEW f \in flying, f.kind = "push" PROVE Released(f.commit)'
  <2>1. f.commit \in Ids /\ Released(f.commit)
    BY <1>3, <1>4 DEF IInv, Sent
  <2> QED  BY <2>1, ReleasedStays
<1> QED  BY <1>1, <1>2, <1>3, <1>4 DEF IInv, Sent

\* One that moves nothing but the run.
LEMMA QuietStep ==
    ASSUME IInv, NEW c \in Clones, UNCHANGED <<worldVars, flying, outside, cloneVars>>,
           runs' \in Nat, RunTypes', ReferenceTypes', Apart(c), Progress(c)', Bumps(c)'
    PROVE  IInv'
<1>1. UNCHANGED <<commits, branch, head, manifest, localTag, dirty, quiet, registry>>
  BY DEF worldVars, cloneVars
<1>2. SentTypes' /\ CheckoutTypes' /\ outside' \in Nat
  BY <1>1 DEF IInv, WorldTypes, SentTypes, CheckoutTypes, Ids
<1>3. Sent'
  BY <1>1, SentStays DEF Later, Ids, worldVars
<1> QED  BY <1>2, <1>3, CloneStep

-----------------------------------------------------------------------------
(* The steps of a run.                                                     *)

LEMMA StartStep == ASSUME IInv, NEW c \in Clones, Start(c) PROVE IInv'
<1> USE DEF Start, Go, worldVars, cloneVars, runVars
<1>1. UNCHANGED <<worldVars, flying, outside, cloneVars>> /\ Ids' = Ids
  BY DEF Ids
<1>2. RunTypes' /\ runs' \in Nat
  BY ReleaseAssumption DEF IInv, WorldTypes, CheckoutTypes, RunTypes, Points, Working, Packages
<1>3. ReferenceTypes'
  BY <1>1 DEF IInv, WorldTypes, CheckoutTypes, ReferenceTypes
<1>4. Apart(c)
  BY DEF IInv, RunTypes, ReferenceTypes, Apart, Own
<1>5. Referred(c)'
  BY DEF IInv, RunTypes, ReferenceTypes, Progress, Referred, Verifying, Candidates, Publishing, Recording
<1>6. Compared(c)'
  BY DEF IInv, RunTypes, Progress, Compared, Publishing, Recording
<1>7. Recorded(c)'
  BY DEF IInv, RunTypes, ReferenceTypes, Progress, Recorded, Candidates, Publishing, Recording, Tree, Renders
<1>8. Bumps(c)'
  BY DEF IInv, RunTypes, Bumps, Preflight
<1> QED  BY <1>1, <1>2, <1>3, <1>4, <1>5, <1>6, <1>7, <1>8, QuietStep DEF Progress

LEMMA SourceStep == ASSUME IInv, NEW c \in Clones, Source(c) PROVE IInv'
<1> USE DEF Source, Go, worldVars, cloneVars, runVars
<1>1. UNCHANGED <<worldVars, flying, outside, cloneVars>> /\ Ids' = Ids
  BY DEF Ids
<1>2. RunTypes' /\ runs' \in Nat
  BY ReleaseAssumption DEF IInv, WorldTypes, CheckoutTypes, RunTypes, Points, Working, Packages
<1>3. ReferenceTypes'
  BY <1>1 DEF IInv, WorldTypes, CheckoutTypes, ReferenceTypes
<1>4. Apart(c)
  BY DEF IInv, RunTypes, ReferenceTypes, Apart, Own
<1>5. Referred(c)'
  BY DEF IInv, RunTypes, ReferenceTypes, Progress, Referred, Verifying, Candidates, Publishing, Recording
<1>6. Compared(c)'
  BY DEF IInv, RunTypes, Progress, Compared, Publishing, Recording
<1>7. Recorded(c)'
  BY DEF IInv, RunTypes, ReferenceTypes, Progress, Recorded, Candidates, Publishing, Recording, Tree, Renders
<1>8. Bumps(c)'
  BY DEF IInv, RunTypes, Bumps, Preflight
<1> QED  BY <1>1, <1>2, <1>3, <1>4, <1>5, <1>6, <1>7, <1>8, QuietStep DEF Progress

LEMMA CheckCleanStep == ASSUME IInv, NEW c \in Clones, CheckClean(c) PROVE IInv'
<1> USE DEF CheckClean, Go, worldVars, cloneVars, runVars
<1>1. UNCHANGED <<worldVars, flying, outside, cloneVars>> /\ Ids' = Ids
  BY DEF Ids
<1>2. RunTypes' /\ runs' \in Nat
  BY ReleaseAssumption DEF IInv, WorldTypes, CheckoutTypes, RunTypes, Points, Working, Packages
<1>3. ReferenceTypes'
  BY <1>1 DEF IInv, WorldTypes, CheckoutTypes, ReferenceTypes
<1>4. Apart(c)
  BY DEF IInv, RunTypes, ReferenceTypes, Apart, Own
<1>5. Referred(c)'
  BY DEF IInv, RunTypes, ReferenceTypes, Progress, Referred, Verifying, Candidates, Publishing, Recording
<1>6. Compared(c)'
  BY DEF IInv, RunTypes, Progress, Compared, Publishing, Recording
<1>7. Recorded(c)'
  BY DEF IInv, RunTypes, ReferenceTypes, Progress, Recorded, Candidates, Publishing, Recording, Tree, Renders
<1>8. Bumps(c)'
  BY DEF IInv, RunTypes, Bumps, Preflight
<1> QED  BY <1>1, <1>2, <1>3, <1>4, <1>5, <1>6, <1>7, <1>8, QuietStep DEF Progress

LEMMA FetchStep == ASSUME IInv, NEW c \in Clones, Fetch(c) PROVE IInv'
<1> USE DEF Fetch, Go, worldVars, cloneVars, runVars
<1>1. UNCHANGED <<worldVars, flying, outside, cloneVars>> /\ Ids' = Ids
  BY DEF Ids
<1>2. RunTypes' /\ runs' \in Nat
  BY ReleaseAssumption DEF IInv, WorldTypes, CheckoutTypes, RunTypes, Points, Working, Packages
<1>3. ReferenceTypes'
  BY <1>1 DEF IInv, WorldTypes, CheckoutTypes, ReferenceTypes
<1>4. Apart(c)
  BY DEF IInv, RunTypes, ReferenceTypes, Apart, Own
<1>5. Referred(c)'
  BY DEF IInv, RunTypes, ReferenceTypes, Progress, Referred, Verifying, Candidates, Publishing, Recording, FetchAccepts
<1>6. Compared(c)'
  BY DEF IInv, RunTypes, Progress, Compared, Publishing, Recording
<1>7. Recorded(c)'
  BY DEF IInv, RunTypes, ReferenceTypes, Progress, Recorded, Candidates, Publishing, Recording, Tree, Renders
<1>8. Bumps(c)'
  BY DEF IInv, RunTypes, Bumps, Preflight
<1> QED  BY <1>1, <1>2, <1>3, <1>4, <1>5, <1>6, <1>7, <1>8, QuietStep DEF Progress

LEMMA ReferencesStep == ASSUME IInv, NEW c \in Clones, References(c) PROVE IInv'
<1> USE DEF References, Go, worldVars, cloneVars, runVars
<1>1. UNCHANGED <<worldVars, flying, outside, cloneVars>> /\ Ids' = Ids
  BY DEF Ids
<1>2. RunTypes' /\ runs' \in Nat
  BY ReleaseAssumption DEF IInv, WorldTypes, CheckoutTypes, RunTypes, Points, Working, Packages
<1>3. ReferenceTypes'
  BY <1>1 DEF IInv, WorldTypes, CheckoutTypes, ReferenceTypes
<1>4. Apart(c)
  BY DEF IInv, RunTypes, ReferenceTypes, Apart, Own
<1>5. Referred(c)'
  BY DEF IInv, RunTypes, ReferenceTypes, Progress, Referred, Verifying, Candidates, Publishing, Recording
<1>6. Compared(c)'
  BY DEF IInv, RunTypes, Progress, Compared, Publishing, Recording
<1>7. Recorded(c)'
  BY DEF IInv, RunTypes, ReferenceTypes, Progress, Recorded, Candidates, Publishing, Recording, Tree, Renders
<1>8. Bumps(c)'
  BY DEF IInv, RunTypes, Bumps, Preflight
<1> QED  BY <1>1, <1>2, <1>3, <1>4, <1>5, <1>6, <1>7, <1>8, QuietStep DEF Progress

LEMMA QueryRegistryStep == ASSUME IInv, NEW c \in Clones, QueryRegistry(c) PROVE IInv'
<1> USE DEF QueryRegistry, Go, worldVars, cloneVars, runVars
<1>1. UNCHANGED <<worldVars, flying, outside, cloneVars>> /\ Ids' = Ids
  BY DEF Ids
<1>2. RunTypes' /\ runs' \in Nat
  BY ReleaseAssumption DEF IInv, WorldTypes, CheckoutTypes, RunTypes, Points, Working, Packages
<1>3. ReferenceTypes'
  BY <1>1 DEF IInv, WorldTypes, CheckoutTypes, ReferenceTypes
<1>4. Apart(c)
  BY DEF IInv, RunTypes, ReferenceTypes, Apart, Own
<1>5. Referred(c)'
  BY DEF IInv, RunTypes, ReferenceTypes, Progress, Referred, Verifying, Candidates, Publishing, Recording
<1>6. Compared(c)'
  BY DEF IInv, RunTypes, Progress, Compared, Publishing, Recording
<1>7. Recorded(c)'
  BY DEF IInv, RunTypes, ReferenceTypes, Progress, Recorded, Candidates, Publishing, Recording, Tree, Renders
<1>8. Bumps(c)'
  BY DEF IInv, RunTypes, Bumps, Preflight
<1> QED  BY <1>1, <1>2, <1>3, <1>4, <1>5, <1>6, <1>7, <1>8, QuietStep DEF Progress

LEMMA RegistryKnownStep == ASSUME IInv, NEW c \in Clones, RegistryKnown(c) PROVE IInv'
<1> USE DEF RegistryKnown, Go, worldVars, cloneVars, runVars
<1>1. UNCHANGED <<worldVars, flying, outside, cloneVars>> /\ Ids' = Ids
  BY DEF Ids
<1>2. RunTypes' /\ runs' \in Nat
  BY ReleaseAssumption DEF IInv, WorldTypes, CheckoutTypes, RunTypes, Points, Working, Packages
<1>3. ReferenceTypes'
  BY <1>1 DEF IInv, WorldTypes, CheckoutTypes, ReferenceTypes
<1>4. Apart(c)
  BY DEF IInv, RunTypes, ReferenceTypes, Apart, Own
<1>5. Referred(c)'
  BY DEF IInv, RunTypes, ReferenceTypes, Progress, Referred, Verifying, Candidates, Publishing, Recording
<1>6. Compared(c)'
  BY DEF IInv, RunTypes, Progress, Compared, Publishing, Recording
<1>7. Recorded(c)'
  BY DEF IInv, RunTypes, ReferenceTypes, Progress, Recorded, Candidates, Publishing, Recording, Tree, Renders
<1>8. Bumps(c)'
  BY DEF IInv, RunTypes, Bumps, Preflight
<1> QED  BY <1>1, <1>2, <1>3, <1>4, <1>5, <1>6, <1>7, <1>8, QuietStep DEF Progress

LEMMA CheckAgainStep == ASSUME IInv, NEW c \in Clones, CheckAgain(c) PROVE IInv'
<1> USE DEF CheckAgain, Go, worldVars, cloneVars, runVars
<1>1. /\ UNCHANGED <<worldVars, flying, outside, branch, head, manifest, localTag, dirty>>
      /\ Ids' = Ids
  BY DEF Ids
<1>2. RunTypes' /\ runs' \in Nat
  BY ReleaseAssumption DEF IInv, WorldTypes, CheckoutTypes, RunTypes, Points, Working, Packages
<1>3. ReferenceTypes'
  BY <1>1 DEF IInv, WorldTypes, CheckoutTypes, ReferenceTypes
<1>4. Apart(c)
  BY DEF IInv, RunTypes, CheckoutTypes, Apart, Own
<1>5. Referred(c)'
  BY DEF IInv, RunTypes, ReferenceTypes, Progress, Referred, Verifying, Candidates, Publishing, Recording
<1>6. Compared(c)'
  BY DEF IInv, RunTypes, Progress, Compared, Publishing, Recording
<1>7. Recorded(c)'
  BY DEF IInv, RunTypes, ReferenceTypes, Progress, Recorded, Candidates, Publishing, Recording, Tree, Renders,
     CheckoutTypes, AtSource
<1>8. Bumps(c)'
  BY DEF IInv, RunTypes, Bumps, Preflight
<1>9. SentTypes' /\ Sent' /\ CheckoutTypes' /\ outside' \in Nat
  BY <1>1, SentStays DEF IInv, WorldTypes, SentTypes, CheckoutTypes, Later
<1> QED  BY <1>1, <1>2, <1>3, <1>4, <1>5, <1>6, <1>7, <1>8, <1>9, CloneStep DEF Progress

LEMMA GateStep == ASSUME IInv, NEW c \in Clones, Gate(c) PROVE IInv'
<1> USE DEF Gate, Go, worldVars, cloneVars, runVars
<1>1. UNCHANGED <<worldVars, flying, outside, cloneVars>> /\ Ids' = Ids
  BY DEF Ids
<1>2. RunTypes' /\ runs' \in Nat
  <2>1. Tree(head[c]) \in Int /\ Mixture(c) \in Int
    BY CommitType DEF IInv, CheckoutTypes, RunTypes, Mixture
  <2>2. built' \in [Clones -> Int] /\ pc' \in [Clones -> Points]
    BY <2>1 DEF IInv, RunTypes, Points, Working
  <2> QED  BY <2>2 DEF IInv, WorldTypes, CheckoutTypes, RunTypes, Points, Working, Packages
<1>3. ReferenceTypes'
  BY <1>1 DEF IInv, WorldTypes, CheckoutTypes, ReferenceTypes
<1>4. Apart(c)
  BY DEF IInv, RunTypes, ReferenceTypes, Apart, Own
<1>5. Referred(c)'
  BY DEF IInv, RunTypes, ReferenceTypes, Progress, Referred, Verifying, Candidates, Publishing, Recording
<1>6. Compared(c)'
  BY DEF IInv, RunTypes, Progress, Compared, Publishing, Recording
<1>7. Recorded(c)'
  BY DEF IInv, RunTypes, ReferenceTypes, Progress, Recorded, Candidates, Publishing, Recording, Tree, Renders
<1>8. Bumps(c)'
  BY DEF IInv, RunTypes, Bumps, Preflight
<1> QED  BY <1>1, <1>2, <1>3, <1>4, <1>5, <1>6, <1>7, <1>8, QuietStep DEF Progress

LEMMA AcceptStep == ASSUME IInv, NEW c \in Clones, Accept(c) PROVE IInv'
<1> USE DEF Accept, Go, cloneVars
<1>1. /\ UNCHANGED <<commits, remoteMain, remoteTag, registry, channel, flying, runs, outside,
                     cloneVars>>
      /\ Ids' = Ids
  BY DEF Ids
<1>2. RunTypes' /\ runs' \in Nat /\ outside' \in Nat
  <2>1. 1 \in 1 .. N + 1
    BY ReleaseAssumption
  <2> QED  BY <2>1 DEF IInv, WorldTypes, RunTypes, Points, Working
<1>3. ReferenceTypes' /\ CheckoutTypes' /\ SentTypes'
  BY <1>1 DEF IInv, ReferenceTypes, CheckoutTypes, SentTypes
<1>4. Apart(c)
  BY DEF IInv, RunTypes, Apart, Own
<1>5. /\ disturbed \subseteq disturbed' /\ disturbed' \in SUBSET (Int \X Nat)
      /\ ~quiet[c] => <<built[c], Tree(source[c])>> \in disturbed'
  <2>1. built[c] \in Int /\ Tree(source[c]) \in Nat /\ disturbed \in SUBSET (Int \X Nat)
    BY CommitType DEF IInv, WorldTypes, RunTypes, ReferenceTypes
  <2> QED  BY <2>1
<1>6. Sent'
  BY <1>1, <1>5, SentStays DEF Later
<1>7. Referred(c)'
  BY DEF IInv, RunTypes, Progress, Referred, Verifying, Candidates, Publishing, Recording
<1>8. Compared(c)'
  BY DEF IInv, RunTypes, Progress, Compared, Publishing, Recording, Packages
<1>9. Recorded(c)'
  <2>1. pc'[c] = "verify" /\ pc[c] = "accept" /\ UNCHANGED <<built, source, commits>>
    BY DEF IInv, RunTypes
  <2>2. Renders(built[c], Tree(source[c]))'
    BY <1>5, <2>1 DEF IInv, Progress, Recorded, Renders, Tree
  <2> QED  BY <2>1, <2>2 DEF Recorded
<1>10. Bumps(c)'
  BY DEF IInv, RunTypes, Bumps, Preflight
<1> QED  BY <1>1, <1>2, <1>3, <1>4, <1>5, <1>6, <1>7, <1>8, <1>9, <1>10, LocalStep DEF Progress

LEMMA VerifyStep == ASSUME IInv, NEW c \in Clones, Verify(c) PROVE IInv'
<1> USE DEF Verify, Go, worldVars, cloneVars, runVars
<1>1. UNCHANGED <<worldVars, flying, outside, cloneVars>> /\ Ids' = Ids
  BY DEF Ids
<1>2. RunTypes' /\ runs' \in Nat
  BY ReleaseAssumption DEF IInv, WorldTypes, CheckoutTypes, RunTypes, Points, Working, Packages
<1>3. ReferenceTypes'
  BY <1>1 DEF IInv, WorldTypes, CheckoutTypes, ReferenceTypes
<1>4. Apart(c)
  BY DEF IInv, RunTypes, ReferenceTypes, Apart, Own
<1>5. Referred(c)'
  BY DEF IInv, RunTypes, ReferenceTypes, Progress, Referred, Verifying, Candidates, Publishing, Recording
<1>6. Compared(c)'
  BY DEF IInv, RunTypes, Progress, Compared, Publishing, Recording, Packages, VerifyAccepts, SameContents
<1>7. Recorded(c)'
  BY DEF IInv, RunTypes, ReferenceTypes, Progress, Recorded, Candidates, Publishing, Recording, Tree, Renders
<1>8. Bumps(c)'
  BY DEF IInv, RunTypes, Bumps, Preflight
<1> QED  BY <1>1, <1>2, <1>3, <1>4, <1>5, <1>6, <1>7, <1>8, QuietStep DEF Progress

LEMMA VerifiedStep == ASSUME IInv, NEW c \in Clones, Verified(c) PROVE IInv'
<1> USE DEF Verified, Go, worldVars, cloneVars, runVars
<1>1. UNCHANGED <<worldVars, flying, outside, cloneVars>> /\ Ids' = Ids
  BY DEF Ids
<1>2. RunTypes' /\ runs' \in Nat
  BY ReleaseAssumption DEF IInv, WorldTypes, CheckoutTypes, RunTypes, Points, Working, Packages
<1>3. ReferenceTypes'
  BY <1>1 DEF IInv, WorldTypes, CheckoutTypes, ReferenceTypes
<1>4. Apart(c)
  BY DEF IInv, RunTypes, ReferenceTypes, Apart, Own
<1>5. Referred(c)'
  BY DEF IInv, RunTypes, ReferenceTypes, Progress, Referred, Verifying, Candidates, Publishing, Recording
<1>6. Compared(c)'
  <2>1. item[c] = N + 1
    BY ReleaseAssumption DEF IInv, RunTypes, Packages
  <2> QED  BY <2>1, ReleaseAssumption DEF IInv, RunTypes, Progress, Compared, Publishing, Recording, Packages
<1>7. Recorded(c)'
  BY DEF IInv, RunTypes, ReferenceTypes, Progress, Recorded, Candidates, Publishing, Recording, Tree, Renders
<1>8. Bumps(c)'
  BY DEF IInv, RunTypes, Bumps, Preflight
<1> QED  BY <1>1, <1>2, <1>3, <1>4, <1>5, <1>6, <1>7, <1>8, QuietStep DEF Progress

LEMMA ConfirmStep == ASSUME IInv, NEW c \in Clones, Confirm(c) PROVE IInv'
<1> USE DEF Confirm, Go, worldVars, cloneVars, runVars
<1>1. UNCHANGED <<worldVars, flying, outside, cloneVars>> /\ Ids' = Ids
  BY DEF Ids
<1>2. RunTypes' /\ runs' \in Nat
  BY ReleaseAssumption DEF IInv, WorldTypes, CheckoutTypes, RunTypes, Points, Working, Packages
<1>3. ReferenceTypes'
  BY <1>1 DEF IInv, WorldTypes, CheckoutTypes, ReferenceTypes
<1>4. Apart(c)
  BY DEF IInv, RunTypes, ReferenceTypes, Apart, Own
<1>5. Referred(c)'
  BY DEF IInv, RunTypes, ReferenceTypes, Progress, Referred, Verifying, Candidates, Publishing, Recording
<1>6. Compared(c)'
  BY DEF IInv, RunTypes, Progress, Compared, Publishing, Recording, Packages
<1>7. Recorded(c)'
  BY DEF IInv, RunTypes, ReferenceTypes, Progress, Recorded, Candidates, Publishing, Recording, Tree, Renders
<1>8. Bumps(c)'
  BY DEF IInv, RunTypes, Bumps, Preflight
<1> QED  BY <1>1, <1>2, <1>3, <1>4, <1>5, <1>6, <1>7, <1>8, QuietStep DEF Progress

LEMMA SkipStep == ASSUME IInv, NEW c \in Clones, Skip(c) PROVE IInv'
<1> USE DEF Skip, Go, worldVars, cloneVars, runVars
<1>1. UNCHANGED <<worldVars, flying, outside, cloneVars>> /\ Ids' = Ids
  BY DEF Ids
<1>2. RunTypes' /\ runs' \in Nat
  BY ReleaseAssumption DEF IInv, WorldTypes, CheckoutTypes, RunTypes, Points, Working, Packages
<1>3. ReferenceTypes'
  BY <1>1 DEF IInv, WorldTypes, CheckoutTypes, ReferenceTypes
<1>4. Apart(c)
  BY DEF IInv, RunTypes, ReferenceTypes, Apart, Own
<1>5. Referred(c)'
  BY DEF IInv, RunTypes, ReferenceTypes, Progress, Referred, Verifying, Candidates, Publishing, Recording
<1>6. Compared(c)'
  BY DEF IInv, RunTypes, Progress, Compared, Publishing, Recording, Packages
<1>7. Recorded(c)'
  BY DEF IInv, RunTypes, ReferenceTypes, Progress, Recorded, Candidates, Publishing, Recording, Tree, Renders
<1>8. Bumps(c)'
  BY DEF IInv, RunTypes, Bumps, Preflight
<1> QED  BY <1>1, <1>2, <1>3, <1>4, <1>5, <1>6, <1>7, <1>8, QuietStep DEF Progress

LEMMA CheckInputsStep == ASSUME IInv, NEW c \in Clones, CheckInputs(c) PROVE IInv'
<1> USE DEF CheckInputs, Go, worldVars, cloneVars, runVars
<1>1. UNCHANGED <<worldVars, flying, outside, cloneVars>> /\ Ids' = Ids
  BY DEF Ids
<1>2. RunTypes' /\ runs' \in Nat
  BY ReleaseAssumption DEF IInv, WorldTypes, CheckoutTypes, RunTypes, Points, Working, Packages
<1>3. ReferenceTypes'
  BY <1>1 DEF IInv, WorldTypes, CheckoutTypes, ReferenceTypes
<1>4. Apart(c)
  BY DEF IInv, RunTypes, ReferenceTypes, Apart, Own
<1>5. Referred(c)'
  BY DEF IInv, RunTypes, ReferenceTypes, Progress, Referred, Verifying, Candidates, Publishing, Recording
<1>6. Compared(c)'
  BY DEF IInv, RunTypes, Progress, Compared, Publishing, Recording
<1>7. Recorded(c)'
  BY DEF IInv, RunTypes, ReferenceTypes, Progress, Recorded, Candidates, Publishing, Recording, Tree, Renders
<1>8. Bumps(c)'
  BY DEF IInv, RunTypes, Bumps, Preflight
<1> QED  BY <1>1, <1>2, <1>3, <1>4, <1>5, <1>6, <1>7, <1>8, QuietStep DEF Progress

LEMMA UploadedStep == ASSUME IInv, NEW c \in Clones, Uploaded(c) PROVE IInv'
<1> USE DEF Uploaded, Go, worldVars, cloneVars, runVars
<1>1. UNCHANGED <<worldVars, flying, outside, cloneVars>> /\ Ids' = Ids
  BY DEF Ids
<1>2. RunTypes' /\ runs' \in Nat
  BY ReleaseAssumption DEF IInv, WorldTypes, CheckoutTypes, RunTypes, Points, Working, Packages
<1>3. ReferenceTypes'
  BY <1>1 DEF IInv, WorldTypes, CheckoutTypes, ReferenceTypes
<1>4. Apart(c)
  BY DEF IInv, RunTypes, ReferenceTypes, Apart, Own
<1>5. Referred(c)'
  BY DEF IInv, RunTypes, ReferenceTypes, Progress, Referred, Verifying, Candidates, Publishing, Recording
<1>6. Compared(c)'
  BY DEF IInv, RunTypes, Progress, Compared, Publishing, Recording
<1>7. Recorded(c)'
  BY DEF IInv, RunTypes, ReferenceTypes, Progress, Recorded, Candidates, Publishing, Recording, Tree, Renders
<1>8. Bumps(c)'
  BY DEF IInv, RunTypes, Bumps, Preflight
<1> QED  BY <1>1, <1>2, <1>3, <1>4, <1>5, <1>6, <1>7, <1>8, QuietStep DEF Progress

LEMMA BecomesVisibleStep == ASSUME IInv, NEW c \in Clones, BecomesVisible(c) PROVE IInv'
<1> USE DEF BecomesVisible, Go, worldVars, cloneVars, runVars
<1>1. UNCHANGED <<worldVars, flying, outside, cloneVars>> /\ Ids' = Ids
  BY DEF Ids
<1>2. RunTypes' /\ runs' \in Nat
  BY ReleaseAssumption DEF IInv, WorldTypes, CheckoutTypes, RunTypes, Points, Working, Packages
<1>3. ReferenceTypes'
  BY <1>1 DEF IInv, WorldTypes, CheckoutTypes, ReferenceTypes
<1>4. Apart(c)
  BY DEF IInv, RunTypes, ReferenceTypes, Apart, Own
<1>5. Referred(c)'
  BY DEF IInv, RunTypes, ReferenceTypes, Progress, Referred, Verifying, Candidates, Publishing, Recording
<1>6. Compared(c)'
  BY DEF IInv, RunTypes, Progress, Compared, Publishing, Recording
<1>7. Recorded(c)'
  BY DEF IInv, RunTypes, ReferenceTypes, Progress, Recorded, Candidates, Publishing, Recording, Tree, Renders
<1>8. Bumps(c)'
  BY DEF IInv, RunTypes, Bumps, Preflight
<1> QED  BY <1>1, <1>2, <1>3, <1>4, <1>5, <1>6, <1>7, <1>8, QuietStep DEF Progress

LEMMA CheckContentsStep == ASSUME IInv, NEW c \in Clones, CheckContents(c) PROVE IInv'
<1> USE DEF CheckContents, Go, worldVars, cloneVars, runVars
<1>1. UNCHANGED <<worldVars, flying, outside, cloneVars>> /\ Ids' = Ids
  BY DEF Ids
<1>2. RunTypes' /\ runs' \in Nat
  BY ReleaseAssumption DEF IInv, WorldTypes, CheckoutTypes, RunTypes, Points, Working, Packages
<1>3. ReferenceTypes'
  BY <1>1 DEF IInv, WorldTypes, CheckoutTypes, ReferenceTypes
<1>4. Apart(c)
  BY DEF IInv, RunTypes, ReferenceTypes, Apart, Own
<1>5. Referred(c)'
  BY DEF IInv, RunTypes, ReferenceTypes, Progress, Referred, Verifying, Candidates, Publishing, Recording
<1>6. Compared(c)'
  BY DEF IInv, RunTypes, Progress, Compared, Publishing, Recording, SameContents
<1>7. Recorded(c)'
  BY DEF IInv, RunTypes, ReferenceTypes, Progress, Recorded, Candidates, Publishing, Recording, Tree, Renders
<1>8. Bumps(c)'
  BY DEF IInv, RunTypes, Bumps, Preflight
<1> QED  BY <1>1, <1>2, <1>3, <1>4, <1>5, <1>6, <1>7, <1>8, QuietStep DEF Progress

LEMMA CheckChannelStep == ASSUME IInv, NEW c \in Clones, CheckChannel(c) PROVE IInv'
<1> USE DEF CheckChannel, Go, worldVars, cloneVars, runVars
<1>1. UNCHANGED <<worldVars, flying, outside, cloneVars>> /\ Ids' = Ids
  BY DEF Ids
<1>2. RunTypes' /\ runs' \in Nat
  <2>1. item[c] + 1 \in 1 .. N + 1
    BY ReleaseAssumption DEF IInv, Progress, Compared, Publishing, Packages
  <2> QED  BY <2>1 DEF IInv, WorldTypes, CheckoutTypes, RunTypes, Points, Working, Packages
<1>3. ReferenceTypes'
  BY <1>1 DEF IInv, WorldTypes, CheckoutTypes, ReferenceTypes
<1>4. Apart(c)
  BY DEF IInv, RunTypes, ReferenceTypes, Apart, Own
<1>5. Referred(c)'
  BY DEF IInv, RunTypes, ReferenceTypes, Progress, Referred, Verifying, Candidates, Publishing, Recording
<1>6. Compared(c)'
  BY DEF IInv, RunTypes, Progress, Compared, Publishing, Recording, Packages
<1>7. Recorded(c)'
  BY DEF IInv, RunTypes, ReferenceTypes, Progress, Recorded, Candidates, Publishing, Recording, Tree, Renders
<1>8. Bumps(c)'
  BY DEF IInv, RunTypes, Bumps, Preflight
<1> QED  BY <1>1, <1>2, <1>3, <1>4, <1>5, <1>6, <1>7, <1>8, QuietStep DEF Progress

LEMMA AllPublishedStep == ASSUME IInv, NEW c \in Clones, AllPublished(c) PROVE IInv'
<1> USE DEF AllPublished, Go, worldVars, cloneVars, runVars
<1>1. UNCHANGED <<worldVars, flying, outside, cloneVars>> /\ Ids' = Ids
  BY DEF Ids
<1>2. RunTypes' /\ runs' \in Nat
  <2>1. 1 \in 1 .. N + 1
    BY ReleaseAssumption
  <2> QED  BY <2>1 DEF IInv, WorldTypes, CheckoutTypes, RunTypes, Points, Working, Packages
<1>3. ReferenceTypes'
  BY <1>1 DEF IInv, WorldTypes, CheckoutTypes, ReferenceTypes
<1>4. Apart(c)
  BY DEF IInv, RunTypes, ReferenceTypes, Apart, Own
<1>5. Referred(c)'
  BY DEF IInv, RunTypes, ReferenceTypes, Progress, Referred, Verifying, Candidates, Publishing, Recording
<1>6. Compared(c)'
  <2>1. item[c] = N + 1
    BY ReleaseAssumption DEF IInv, RunTypes, Packages
  <2> QED  BY <2>1, ReleaseAssumption DEF IInv, RunTypes, Progress, Compared, Publishing, Recording, Packages
<1>7. Recorded(c)'
  BY DEF IInv, RunTypes, ReferenceTypes, Progress, Recorded, Candidates, Publishing, Recording, Tree, Renders
<1>8. Bumps(c)'
  BY DEF IInv, RunTypes, Bumps, Preflight
<1> QED  BY <1>1, <1>2, <1>3, <1>4, <1>5, <1>6, <1>7, <1>8, QuietStep DEF Progress

LEMMA CheckChannelsStep == ASSUME IInv, NEW c \in Clones, CheckChannels(c) PROVE IInv'
<1> USE DEF CheckChannels, Go, worldVars, cloneVars, runVars
<1>1. UNCHANGED <<worldVars, flying, outside, cloneVars>> /\ Ids' = Ids
  BY DEF Ids
<1>2. RunTypes' /\ runs' \in Nat
  <2>1. item[c] \in Packages => item[c] + 1 \in 1 .. N + 1
    BY ReleaseAssumption DEF Packages
  <2>3. item' \in [Clones -> 1 .. N + 1]
    BY <2>1 DEF IInv, RunTypes
  <2>2. pc' \in [Clones -> Points]
    BY DEF IInv, RunTypes, Points, Working
  <2> QED  BY <2>2, <2>3 DEF IInv, WorldTypes, CheckoutTypes, RunTypes, Points, Working, Packages
<1>3. ReferenceTypes'
  BY <1>1 DEF IInv, WorldTypes, CheckoutTypes, ReferenceTypes
<1>4. Apart(c)
  BY DEF IInv, RunTypes, ReferenceTypes, Apart, Own
<1>5. Referred(c)'
  BY DEF IInv, RunTypes, ReferenceTypes, Progress, Referred, Verifying, Candidates, Publishing, Recording
<1>6. Compared(c)'
  BY DEF IInv, RunTypes, Progress, Compared, Publishing, Recording
<1>7. Recorded(c)'
  BY DEF IInv, RunTypes, ReferenceTypes, Progress, Recorded, Candidates, Publishing, Recording, Tree, Renders
<1>8. Bumps(c)'
  BY DEF IInv, RunTypes, Bumps, Preflight
<1> QED  BY <1>1, <1>2, <1>3, <1>4, <1>5, <1>6, <1>7, <1>8, QuietStep DEF Progress

LEMMA CheckRecordStep == ASSUME IInv, NEW c \in Clones, CheckRecord(c) PROVE IInv'
<1> USE DEF CheckRecord, Go, worldVars, cloneVars, runVars
<1>1. UNCHANGED <<worldVars, flying, outside, cloneVars>> /\ Ids' = Ids
  BY DEF Ids
<1>2. RunTypes' /\ runs' \in Nat
  BY ReleaseAssumption DEF IInv, WorldTypes, CheckoutTypes, RunTypes, Points, Working, Packages
<1>3. ReferenceTypes'
  BY <1>1 DEF IInv, WorldTypes, CheckoutTypes, ReferenceTypes
<1>4. Apart(c)
  BY DEF IInv, RunTypes, ReferenceTypes, Apart, Own
<1>5. Referred(c)'
  BY DEF IInv, RunTypes, ReferenceTypes, Progress, Referred, Verifying, Candidates, Publishing, Recording
<1>6. Compared(c)'
  BY DEF IInv, RunTypes, Progress, Compared, Publishing, Recording
<1>7. Recorded(c)'
  BY DEF IInv, RunTypes, ReferenceTypes, Progress, Recorded, Candidates, Publishing, Recording, Tree, Renders
<1>8. Bumps(c)'
  BY DEF AtSource, IInv, RunTypes, Bumps, Preflight
<1> QED  BY <1>1, <1>2, <1>3, <1>4, <1>5, <1>6, <1>7, <1>8, QuietStep DEF Progress

LEMMA RecordStep == ASSUME IInv, NEW c \in Clones, Record(c) PROVE IInv'
<1> USE DEF Record, Go, worldVars, cloneVars, runVars
<1>1. UNCHANGED <<worldVars, flying, outside, cloneVars>> /\ Ids' = Ids
  BY DEF Ids
<1>2. RunTypes' /\ runs' \in Nat
  BY ReleaseAssumption DEF IInv, WorldTypes, CheckoutTypes, RunTypes, Points, Working, Packages
<1>3. ReferenceTypes'
  BY <1>1 DEF IInv, WorldTypes, CheckoutTypes, ReferenceTypes
<1>4. Apart(c)
  BY DEF IInv, RunTypes, ReferenceTypes, Apart, Own
<1>5. Referred(c)'
  BY DEF IInv, RunTypes, ReferenceTypes, Progress, Referred, Verifying, Candidates, Publishing, Recording
<1>6. Compared(c)'
  BY DEF IInv, RunTypes, Progress, Compared, Publishing, Recording
<1>7. Recorded(c)'
  <2>1. Renders(built[c], Tree(source[c])) /\ main[c] \in commits[source[c]].past
    BY DEF IInv, Progress, Recorded, Referred, Candidates, Verifying, Recording
  <2>2. target'[c] = source[c] /\ UNCHANGED <<commits, source, built, main>>
    BY DEF IInv, ReferenceTypes
  <2> QED  BY <2>1, <2>2 DEF IInv, RunTypes, ReferenceTypes, Progress, Recorded, Candidates, Publishing, Recording, Tree, Renders
<1>8. Bumps(c)'
  <2>1. manifest[c] = commits[source[c]].version => \A p \in Packages :
          manifest[c][p] = "new" => commits[head[c]].version[p] = "new"
    BY DEF IInv, Bumps
  <2> QED  BY <2>1 DEF IInv, RunTypes, Bumps, Preflight
<1> QED  BY <1>1, <1>2, <1>3, <1>4, <1>5, <1>6, <1>7, <1>8, QuietStep DEF Progress

LEMMA CommittedStep == ASSUME IInv, NEW c \in Clones, Committed(c) PROVE IInv'
<1> USE DEF Committed, Go, worldVars, cloneVars, runVars
<1>1. UNCHANGED <<worldVars, flying, outside, cloneVars>> /\ Ids' = Ids
  BY DEF Ids
<1>2. RunTypes' /\ runs' \in Nat
  BY ReleaseAssumption DEF IInv, WorldTypes, CheckoutTypes, RunTypes, Points, Working, Packages
<1>3. ReferenceTypes'
  BY <1>1 DEF IInv, WorldTypes, CheckoutTypes, ReferenceTypes
<1>4. Apart(c)
  BY DEF IInv, RunTypes, ReferenceTypes, Apart, Own
<1>5. Referred(c)'
  BY DEF IInv, RunTypes, ReferenceTypes, Progress, Referred, Verifying, Candidates, Publishing, Recording
<1>6. Compared(c)'
  BY DEF IInv, RunTypes, Progress, Compared, Publishing, Recording
<1>7. Recorded(c)'
  <2>1. source[c] \in Ids /\ head[c] \in Ids
    BY DEF IInv, CheckoutTypes, ReferenceTypes
  <2>2. /\ Tree(head[c]) = source[c] /\ Tree(source[c]) = source[c]
        /\ commits[source[c]].past \subseteq commits[head[c]].past
    BY <2>1 DEF IInv, History, IsReleaseCommit, Tree
  <2>3. Renders(built[c], Tree(source[c])) /\ main[c] \in commits[source[c]].past
    BY DEF IInv, Progress, Recorded, Referred, Tree, Candidates, Verifying, Recording
  <2> QED  BY <2>2, <2>3 DEF IInv, RunTypes, ReferenceTypes, Progress, Recorded, Candidates, Publishing, Recording, Tree, Renders
<1>8. Bumps(c)'
  <2>1. \A p \in Packages : commits[head[c]].version[p] = "new"
    BY DEF IInv, CheckoutTypes, History, IsReleaseCommit, Bump
  <2> QED  BY <2>1 DEF IInv, RunTypes, Bumps, Preflight
<1> QED  BY <1>1, <1>2, <1>3, <1>4, <1>5, <1>6, <1>7, <1>8, QuietStep DEF Progress

LEMMA PushedStep == ASSUME IInv, NEW c \in Clones, Pushed(c) PROVE IInv'
<1> USE DEF Pushed, Go, worldVars, cloneVars, runVars
<1>1. UNCHANGED <<worldVars, flying, outside, cloneVars>> /\ Ids' = Ids
  BY DEF Ids
<1>2. RunTypes' /\ runs' \in Nat
  BY ReleaseAssumption DEF IInv, WorldTypes, CheckoutTypes, RunTypes, Points, Working, Packages
<1>3. ReferenceTypes'
  BY <1>1 DEF IInv, WorldTypes, CheckoutTypes, ReferenceTypes
<1>4. Apart(c)
  BY DEF IInv, RunTypes, ReferenceTypes, Apart, Own
<1>5. Referred(c)'
  BY DEF IInv, RunTypes, ReferenceTypes, Progress, Referred, Verifying, Candidates, Publishing, Recording
<1>6. Compared(c)'
  BY DEF IInv, RunTypes, Progress, Compared, Publishing, Recording
<1>7. Recorded(c)'
  BY DEF IInv, RunTypes, ReferenceTypes, Progress, Recorded, Candidates, Publishing, Recording, Tree, Renders
<1>8. Bumps(c)'
  BY DEF IInv, RunTypes, Bumps, Preflight
<1> QED  BY <1>1, <1>2, <1>3, <1>4, <1>5, <1>6, <1>7, <1>8, QuietStep DEF Progress

LEMMA FirstCommit == ASSUME IInv PROVE 1 \in Ids
<1>1. Len(commits) \in Nat /\ Ids # {}
  BY LenProperties DEF IInv, WorldTypes
<1> QED  BY <1>1 DEF Ids

LEMMA FailsStep == ASSUME IInv, NEW c \in Clones, Fails(c) PROVE IInv'
<1> USE DEF Fails, Go, worldVars, cloneVars, runVars, Forgets
<1>1. UNCHANGED <<worldVars, flying, outside, cloneVars>> /\ Ids' = Ids
  BY DEF Ids
<1>2. RunTypes' /\ runs' \in Nat
  <2>1. 1 \in 1 .. N + 1
    BY ReleaseAssumption
  <2> QED  BY <2>1 DEF IInv, WorldTypes, RunTypes, Points, Working
<1>3. ReferenceTypes'
  BY <1>1, FirstCommit DEF IInv, WorldTypes, CheckoutTypes, ReferenceTypes
<1>4. Apart(c)
  BY DEF IInv, RunTypes, ReferenceTypes, Apart, Own
<1>5. Referred(c)'
  BY DEF IInv, RunTypes, ReferenceTypes, Progress, Referred, Verifying, Candidates, Publishing, Recording
<1>6. Compared(c)'
  BY DEF IInv, RunTypes, Progress, Compared, Publishing, Recording
<1>7. Recorded(c)'
  BY DEF IInv, RunTypes, ReferenceTypes, Progress, Recorded, Candidates, Publishing, Recording, Tree, Renders
<1>8. Bumps(c)'
  BY DEF IInv, RunTypes, Bumps, Preflight
<1> QED  BY <1>1, <1>2, <1>3, <1>4, <1>5, <1>6, <1>7, <1>8, QuietStep DEF Progress

LEMMA CrashStep == ASSUME IInv, NEW c \in Clones, Crash(c) PROVE IInv'
<1> USE DEF Crash, Go, worldVars, cloneVars, runVars, Forgets
<1>1. UNCHANGED <<worldVars, flying, outside, cloneVars>> /\ Ids' = Ids
  BY DEF Ids
<1>2. RunTypes' /\ runs' \in Nat
  <2>1. 1 \in 1 .. N + 1
    BY ReleaseAssumption
  <2> QED  BY <2>1 DEF IInv, WorldTypes, RunTypes, Points, Working
<1>3. ReferenceTypes'
  BY <1>1, FirstCommit DEF IInv, WorldTypes, CheckoutTypes, ReferenceTypes
<1>4. Apart(c)
  BY DEF IInv, RunTypes, ReferenceTypes, Apart, Own
<1>5. Referred(c)'
  BY DEF IInv, RunTypes, ReferenceTypes, Progress, Referred, Verifying, Candidates, Publishing, Recording
<1>6. Compared(c)'
  BY DEF IInv, RunTypes, Progress, Compared, Publishing, Recording
<1>7. Recorded(c)'
  BY DEF IInv, RunTypes, ReferenceTypes, Progress, Recorded, Candidates, Publishing, Recording, Tree, Renders
<1>8. Bumps(c)'
  BY DEF IInv, RunTypes, Bumps, Preflight
<1> QED  BY <1>1, <1>2, <1>3, <1>4, <1>5, <1>6, <1>7, <1>8, QuietStep DEF Progress

LEMMA ClosesStep == ASSUME IInv, NEW c \in Clones, Closes(c) PROVE IInv'
<1> USE DEF Closes, Go, worldVars, cloneVars, runVars
<1>1. UNCHANGED <<worldVars, flying, outside, cloneVars>> /\ Ids' = Ids
  BY DEF Ids
<1>2. RunTypes' /\ runs' \in Nat
  BY ReleaseAssumption DEF IInv, WorldTypes, CheckoutTypes, RunTypes, Points, Working, Packages
<1>3. ReferenceTypes'
  BY <1>1 DEF IInv, WorldTypes, CheckoutTypes, ReferenceTypes
<1>4. Apart(c)
  BY DEF IInv, RunTypes, ReferenceTypes, Apart, Own
<1>5. Referred(c)'
  BY DEF IInv, RunTypes, ReferenceTypes, Progress, Referred, Verifying, Candidates, Publishing, Recording
<1>6. Compared(c)'
  BY DEF IInv, RunTypes, Progress, Compared, Publishing, Recording
<1>7. Recorded(c)'
  BY DEF IInv, RunTypes, ReferenceTypes, Progress, Recorded, Candidates, Publishing, Recording, Tree, Renders
<1>8. Bumps(c)'
  BY DEF IInv, RunTypes, Bumps, Preflight
<1> QED  BY <1>1, <1>2, <1>3, <1>4, <1>5, <1>6, <1>7, <1>8, QuietStep DEF Progress

LEMMA ReplaceStep == ASSUME IInv, NEW c \in Clones, Replace(c) PROVE IInv'
<1> USE DEF Replace, Go, worldVars, cloneVars, runVars
<1>1. /\ UNCHANGED <<worldVars, flying, runs, outside, branch, head, localTag>>
      /\ Ids' = Ids
  BY DEF Ids
<1>2. SentTypes' /\ Sent' /\ runs' \in Nat /\ outside' \in Nat
  BY <1>1, SentStays DEF IInv, WorldTypes, SentTypes, Later
<1>3. CheckoutTypes'
  BY <1>1 DEF IInv, CheckoutTypes, Versions
<1>4. RunTypes'
  BY DEF IInv, RunTypes, Points, Working
<1>5. ReferenceTypes'
  BY <1>1 DEF IInv, ReferenceTypes
<1>6. Apart(c)
  BY DEF IInv, RunTypes, CheckoutTypes, Apart, Own
<1>7. Progress(c)'
  BY DEF IInv, RunTypes, Progress, Referred, Compared, Recorded, Tree, Renders, Verifying,
     Candidates, Publishing, Recording
<1>8. Bumps(c)'
  <2>1. \A p \in Packages : Intact(c, p) => manifest[c][p] = original[c][p]
    BY ReleaseAssumption DEF Intact, Packages
  <2>2. owned[c] = {}
    BY DEF IInv, Bumps, Preflight
  <2>3. /\ owned'[c] = {p \in Packages : Intact(c, p)}
        /\ \A p \in Packages : manifest'[c][p] = IF Intact(c, p) THEN "new" ELSE manifest[c][p]
        /\ pc'[c] \in {"gate", "closing"} /\ UNCHANGED <<commits, head, original, strayed>>
    BY DEF IInv, RunTypes, CheckoutTypes
  <2> QED  BY <2>1, <2>2, <2>3 DEF IInv, Bumps, Preflight
<1> QED  BY <1>1, <1>2, <1>3, <1>4, <1>5, <1>6, <1>7, <1>8, CloneStep

LEMMA RestoreStep == ASSUME IInv, NEW c \in Clones, Restore(c) PROVE IInv'
<1> USE DEF Restore, Go, worldVars, cloneVars, runVars
<1>1. /\ UNCHANGED <<worldVars, flying, runs, outside, branch, head, localTag>>
      /\ Ids' = Ids
  BY DEF Ids
<1>2. SentTypes' /\ Sent' /\ runs' \in Nat /\ outside' \in Nat
  BY <1>1, SentStays DEF IInv, WorldTypes, SentTypes, Later
<1>3. CheckoutTypes'
  BY <1>1 DEF IInv, CheckoutTypes, RunTypes
<1>4. RunTypes'
  BY DEF IInv, RunTypes, Points, Working
<1>5. ReferenceTypes'
  BY <1>1 DEF IInv, ReferenceTypes
<1>6. Apart(c)
  BY DEF IInv, RunTypes, CheckoutTypes, Apart, Own
<1>7. Progress(c)'
  BY DEF IInv, RunTypes, Progress, Referred, Compared, Recorded, Tree, Renders, Verifying,
     Candidates, Publishing, Recording
<1>8. Bumps(c)'
  <2>1. /\ owned'[c] = {}
        /\ \A p \in Packages : manifest'[c][p] =
             IF p \in owned[c] /\ manifest[c][p] = "new" THEN original[c][p] ELSE manifest[c][p]
        /\ UNCHANGED <<commits, head, original, strayed>>
    BY DEF IInv, RunTypes, CheckoutTypes
  <2> QED  BY <2>1 DEF IInv, Bumps
<1> QED  BY <1>1, <1>2, <1>3, <1>4, <1>5, <1>6, <1>7, <1>8, CloneStep

LEMMA TagLandsStep == ASSUME IInv, NEW c \in Clones, TagLands(c) PROVE IInv'
<1> USE DEF TagLands, Go, worldVars, cloneVars, runVars
<1>1. /\ UNCHANGED <<worldVars, flying, runs, outside, branch, head, manifest>>
      /\ Ids' = Ids
  BY DEF Ids
<1>2. SentTypes' /\ Sent' /\ runs' \in Nat /\ outside' \in Nat
  BY <1>1, SentStays DEF IInv, WorldTypes, SentTypes, Later
<1>3. CheckoutTypes'
  BY <1>1 DEF IInv, CheckoutTypes, ReferenceTypes
<1>4. RunTypes'
  BY DEF IInv, RunTypes, Points, Working
<1>5. ReferenceTypes'
  BY <1>1 DEF IInv, ReferenceTypes
<1>6. Apart(c)
  BY DEF IInv, RunTypes, Apart, Own
<1>7. Progress(c)'
  BY DEF IInv, RunTypes, Progress, Referred, Compared, Recorded, Tree, Renders, Verifying,
     Candidates, Publishing, Recording
<1>8. Bumps(c)'
  BY DEF IInv, RunTypes, Bumps, Preflight
<1> QED  BY <1>1, <1>2, <1>3, <1>4, <1>5, <1>6, <1>7, <1>8, CloneStep

LEMMA StartUploadStep == ASSUME IInv, NEW c \in Clones, StartUpload(c) PROVE IInv'
<1> USE DEF StartUpload, Go, worldVars, cloneVars, runVars
<1>1. /\ UNCHANGED <<worldVars, runs, outside, cloneVars>> /\ Ids' = Ids
      /\ flying' = flying \union {Upload(c, item[c])}
  BY DEF Ids
<1>2. SentTypes'
  <2>1. /\ item[c] \in Packages /\ run[c] \in Nat /\ built[c] \in Int
    BY DEF IInv, RunTypes, Progress, Compared, Publishing
  <2>2. Upload(c, item[c]) \in
          [kind : {"upload"}, clone : Clones, run : Nat, package : Packages, content : Int]
    BY <2>1 DEF Upload
  <2> QED  BY <1>1, <2>2 DEF IInv, SentTypes
<1>3. Sent'
  <2> DEFINE u == Upload(c, item[c])
  <2>1. u.kind = "upload" /\ u.package = item[c] /\ u.content = built[c]
    BY DEF Upload
  <2>2. \A q \in Packages : q < item[c] => registry[q] = Visible(built[c])
    BY DEF IInv, Progress, Compared, Publishing
  <2> HIDE DEF u
  <2>3. flying' = flying \union {u} /\ UNCHANGED <<commits, registry, disturbed>>
    BY <1>1 DEF u
  <2> QED  BY <2>1, <2>2, <2>3 DEF IInv, Sent, Released, Renders, Tree
<1>4. RunTypes' /\ CheckoutTypes' /\ runs' \in Nat /\ outside' \in Nat
  BY <1>1 DEF IInv, WorldTypes, RunTypes, CheckoutTypes, Points, Working
<1>5. ReferenceTypes'
  BY <1>1 DEF IInv, ReferenceTypes
<1>6. Apart(c)
  BY DEF IInv, RunTypes, Apart, Own
<1>7. Progress(c)'
  BY DEF IInv, RunTypes, Progress, Referred, Compared, Recorded, Tree, Renders, Verifying,
     Candidates, Publishing, Recording
<1>8. Bumps(c)'
  BY DEF IInv, RunTypes, Bumps, Preflight
<1> QED  BY <1>1, <1>2, <1>3, <1>4, <1>5, <1>6, <1>7, <1>8, CloneStep

LEMMA StartPushStep == ASSUME IInv, NEW c \in Clones, StartPush(c) PROVE IInv'
<1> USE DEF StartPush, Go, worldVars, cloneVars, runVars
<1> DEFINE f == Push(c, IF tag[c] = NoTag THEN localTag[c] ELSE tag[c])
<1>1. /\ UNCHANGED <<worldVars, runs, outside, cloneVars>> /\ Ids' = Ids
      /\ flying' = flying \union {f}
  BY DEF Ids
<1>2. /\ f.kind = "push" /\ f.commit = target[c] /\ f.tag = target[c] /\ f.main = main[c]
      /\ f.lease = verifiedTag[c]
  BY DEF Push
<1>3. SentTypes'
  <2>1. /\ target[c] \in Ids /\ main[c] \in Ids /\ verifiedTag[c] \in Ids \union {NoTag}
        /\ run[c] \in Nat
    BY DEF IInv, RunTypes, ReferenceTypes
  <2>2. f \in [kind : {"push"}, clone : Clones, run : Nat, commit : Ids, tag : Ids,
               main : Ids, lease : Ids \union {NoTag}]
    BY <2>1 DEF Push
  <2> HIDE DEF f
  <2> QED  BY <1>1, <2>2 DEF IInv, SentTypes
<1>4. Sent'
  <2>1. /\ main[c] \in commits[target[c]].past /\ Renders(built[c], Tree(target[c]))
        /\ \A q \in Packages : registry[q] = Visible(built[c])
        /\ verifiedTag[c] \in {NoTag, tag[c]}
    BY DEF IInv, Progress, Referred, Compared, Recorded, Verifying, Candidates, Recording
  <2>2. /\ verifiedTag[c] # NoTag => target[c] = verifiedTag[c]
        /\ Released(target[c])
    <3>1. 1 \in Packages
      BY ReleaseAssumption DEF Packages
    <3> QED  BY <2>1, <3>1 DEF Released, Visible
  <2> HIDE DEF f
  <2>3. UNCHANGED <<commits, registry, disturbed>>
    BY <1>1
  <2> QED  BY <1>1, <1>2, <2>1, <2>2, <2>3 DEF IInv, Sent, Released, Renders, Tree
<1>5. RunTypes' /\ CheckoutTypes' /\ runs' \in Nat /\ outside' \in Nat
  BY <1>1 DEF IInv, WorldTypes, RunTypes, CheckoutTypes, Points, Working
<1>6. ReferenceTypes'
  BY <1>1 DEF IInv, ReferenceTypes
<1>7. Apart(c)
  BY DEF IInv, RunTypes, Apart, Own
<1>8. Progress(c)'
  BY DEF IInv, RunTypes, Progress, Referred, Compared, Recorded, Tree, Renders, Verifying,
     Candidates, Publishing, Recording
<1>9. Bumps(c)'
  BY DEF IInv, RunTypes, Bumps, Preflight
<1> QED  BY <1>1, <1>3, <1>4, <1>5, <1>6, <1>7, <1>8, <1>9, CloneStep

-----------------------------------------------------------------------------
(* Developers in the checkout.                                             *)

\* They touch no run but what it finds in its checkout.
LEMMA CheckoutStep ==
    ASSUME IInv, NEW c \in Clones,
           UNCHANGED <<worldVars, flying, runs, pc, run, original, source, main, tag,
                       verifiedTag, published, item, built, target, owned, answered>>,
           outside' \in Nat, CheckoutTypes', strayed' \in [Clones -> BOOLEAN],
           \A d \in Clones \ {c} : /\ head'[d] = head[d] /\ manifest'[d] = manifest[d]
                                   /\ strayed'[d] = strayed[d] /\ quiet'[d] = quiet[d],
           quiet'[c] => quiet[c],
           quiet'[c] /\ pc[c] \in {"replace", "gate"} => head'[c] = head[c],
           Bumps(c)'
    PROVE  IInv'
<1> USE DEF worldVars
<1>1. UNCHANGED commits /\ Ids' = Ids
  BY DEF Ids
<1>2. SentTypes' /\ Sent' /\ runs' \in Nat
  BY <1>1, SentStays DEF IInv, WorldTypes, SentTypes, Later
<1>3. RunTypes' /\ ReferenceTypes'
  BY <1>1 DEF IInv, RunTypes, ReferenceTypes
<1>4. Apart(c)
  BY DEF Apart, Own
<1>5. Progress(c)'
  BY DEF IInv, Progress, Referred, Compared, Recorded, Tree, Renders
<1> QED  BY <1>2, <1>3, <1>4, <1>5, CloneStep

\* The clone they work in is no longer quiet, if a run builds there.
LEMMA WorkFacts ==
    ASSUME IInv, NEW c \in Clones, Work(c)
    PROVE  /\ quiet' \in [Clones -> BOOLEAN] /\ outside' \in Nat
           /\ \A d \in Clones \ {c} : quiet'[d] = quiet[d]
           /\ quiet'[c] => quiet[c] /\ pc[c] \notin {"replace", "gate"}
<1>1. /\ quiet' = [quiet EXCEPT ![c] = quiet[c] /\ pc[c] \notin {"replace", "gate"}]
      /\ quiet \in [Clones -> BOOLEAN] /\ outside' = outside + 1 /\ outside \in Nat
  BY DEF Work, Act, IInv, WorldTypes, CheckoutTypes
<1>2. /\ quiet' \in [Clones -> BOOLEAN] /\ \A d \in Clones \ {c} : quiet'[d] = quiet[d]
      /\ quiet'[c] = (quiet[c] /\ pc[c] \notin {"replace", "gate"})
  BY <1>1, Zenon
<1>3. outside' \in Nat
  BY <1>1
<1> QED  BY <1>2, <1>3

LEMMA EditStep == ASSUME IInv, NEW c \in Clones, NEW p \in Packages, Edit(c, p) PROVE IInv'
<1> USE DEF Edit, runVars
<1>1. /\ CheckoutTypes'
      /\ \A d \in Clones \ {c} : manifest'[d] = manifest[d]
      /\ manifest'[c] = [manifest[c] EXCEPT ![p] = "edited"]
  BY WorkFacts DEF IInv, CheckoutTypes, Versions, worldVars, Ids
<1>2. Bumps(c)'
  BY <1>1 DEF IInv, CheckoutTypes, Bumps, worldVars
<1> QED  BY <1>1, <1>2, WorkFacts, CheckoutStep DEF IInv, RunTypes

LEMMA TouchStep == ASSUME IInv, NEW c \in Clones, Touch(c) PROVE IInv'
<1> USE DEF Touch, runVars
<1>1. CheckoutTypes'
  BY WorkFacts DEF IInv, CheckoutTypes, worldVars, Ids
<1>2. Bumps(c)'
  BY DEF IInv, Bumps, worldVars
<1> QED  BY <1>1, <1>2, WorkFacts, CheckoutStep DEF IInv, RunTypes

LEMMA RetagStep == ASSUME IInv, NEW c \in Clones, Retag(c) PROVE IInv'
<1> USE DEF Retag, Act, runVars
<1>1. CheckoutTypes' /\ outside' \in Nat
  BY DEF IInv, WorldTypes, CheckoutTypes, worldVars, Ids
<1>2. Bumps(c)'
  BY DEF IInv, Bumps, worldVars
<1> QED  BY <1>1, <1>2, CheckoutStep DEF IInv, RunTypes

LEMMA DiscardStep == ASSUME IInv, NEW c \in Clones, Discard(c) PROVE IInv'
<1> USE DEF Discard, runVars
<1>1. commits[head[c]].version \in [Packages -> Versions]
  BY CommitType DEF IInv, CheckoutTypes
<1>2. /\ CheckoutTypes' /\ outside' \in Nat
      /\ strayed' \in [Clones -> BOOLEAN]
      /\ \A d \in Clones \ {c} : manifest'[d] = manifest[d] /\ strayed'[d] = strayed[d]
      /\ manifest'[c] = commits[head[c]].version
  BY <1>1 DEF IInv, WorldTypes, CheckoutTypes, RunTypes, worldVars, Ids
<1>3. Bumps(c)'
  BY <1>2 DEF IInv, Bumps, worldVars
<1> QED  BY <1>2, <1>3, CheckoutStep DEF IInv, RunTypes

\* A checkout changes only manifests that are those of the commit it leaves.
LEMMA CheckoutsStep ==
    ASSUME IInv, NEW c \in Clones, NEW b \in {"main", "other"}, NEW id \in Ids,
           Checkout(c, b, id)
    PROVE  IInv'
<1> USE DEF Checkout, runVars
<1> DEFINE here == commits[head[c]].version
           there == commits[id].version
<1>1. here \in [Packages -> Versions] /\ there \in [Packages -> Versions]
  BY CommitType DEF IInv, CheckoutTypes
<1>2. /\ \A p \in Packages : manifest[c][p] \in {here[p], there[p]} \/ here[p] = there[p]
      /\ manifest' = [manifest EXCEPT ![c] =
                        [p \in Packages |-> IF @[p] = here[p] THEN there[p] ELSE @[p]]]
      /\ head' = [head EXCEPT ![c] = id] /\ branch' = [branch EXCEPT ![c] = b]
      /\ UNCHANGED <<commits, pc, owned, strayed, original>>
  BY DEF worldVars
<1> HIDE DEF here, there
<1>3. /\ CheckoutTypes'
      /\ \A d \in Clones \ {c} : manifest'[d] = manifest[d] /\ head'[d] = head[d]
      /\ \A p \in Packages : manifest'[c][p] =
           IF manifest[c][p] = here[p] THEN there[p] ELSE manifest[c][p]
  <2> DEFINE next == [p \in Packages |-> IF manifest[c][p] = here[p] THEN there[p]
                                        ELSE manifest[c][p]]
  <2>1. next \in [Packages -> Versions]
    BY <1>1 DEF IInv, CheckoutTypes
  <2>2. manifest' = [manifest EXCEPT ![c] = next]
    BY <1>2
  <2>3. \A p \in Packages : next[p] =
           IF manifest[c][p] = here[p] THEN there[p] ELSE manifest[c][p]
    OBVIOUS
  <2> HIDE DEF next
  <2> QED  BY <1>2, <2>1, <2>2, <2>3, WorkFacts DEF IInv, CheckoutTypes, Ids
<1>4. head'[c] = id /\ UNCHANGED <<commits, pc, owned, strayed, original>>
  BY <1>2 DEF IInv, CheckoutTypes
<1>5. \A p \in Packages : manifest'[c][p] = "new" =>
         there[p] = "new" \/ (manifest[c][p] = "new" /\ here[p] = there[p])
  BY <1>2, <1>3
<1>6. ~strayed[c] => \A p \in Packages : manifest[c][p] = "new" =>
        here[p] = "new" \/ (p \in owned[c] /\ original[c][p] # "new")
  BY DEF IInv, Bumps, here
<1>7. Bumps(c)'
  <2>1. pc[c] \in Preflight \union {"idle"} => owned[c] = {}
    BY DEF IInv, Bumps
  <2>2. commits'[head'[c]].version = there
    BY <1>4 DEF there
  <2>3. pc[c] = "compare" => \A p \in Packages :
          manifest[c][p] = "new" /\ commits[source[c]].version[p] = "new" => here[p] = "new"
    BY DEF IInv, Bumps, here
  <2>4. UNCHANGED source
    OBVIOUS
  <2> QED  BY <1>3, <1>4, <1>5, <1>6, <2>1, <2>2, <2>3, <2>4 DEF Bumps
<1>8. /\ UNCHANGED <<worldVars, flying, runs, pc, runVars>>
      /\ strayed' \in [Clones -> BOOLEAN]
  BY DEF IInv, RunTypes
<1> QED  BY <1>3, <1>7, <1>8, WorkFacts, CheckoutStep

-----------------------------------------------------------------------------
(* The origin and the registry.                                            *)

\* A step of the world, of which a run may only hear the answer to its command.
LEMMA WorldStep ==
    ASSUME IInv, UNCHANGED <<commits, runs, cloneVars, pc, run, original, source, main, tag,
                             verifiedTag, published, item, built, target, owned, strayed>>,
           flying' \subseteq flying, answered' \in [Clones -> BOOLEAN], Later, WorldTypes',
           TagMeansReleased', DependenciesFirst'
    PROVE  IInv'
<1> USE DEF cloneVars
<1>1. Ids' = Ids
  BY DEF Ids
<1>2. CheckoutTypes' /\ RunTypes' /\ ReferenceTypes' /\ SentTypes'
  BY <1>1 DEF IInv, CheckoutTypes, RunTypes, ReferenceTypes, SentTypes
<1>3. Sent'
  BY SentStays
<1>4. History'
  BY <1>1 DEF IInv, History
<1>5. \A d \in Clones : Progress(d)' /\ Bumps(d)'
  BY Waiting DEF Own
<1> QED  BY <1>2, <1>3, <1>4, <1>5 DEF IInv

\* What is readable stays, so what follows from it does.
LEMMA StaysReleased ==
    ASSUME IInv, Later, UNCHANGED <<commits, remoteTag>>
    PROVE  TagMeansReleased'
BY ReleasedStays DEF IInv, TagMeansReleased, Ids

LEMMA LostStep == ASSUME IInv, NEW f \in flying, Lost(f) PROVE IInv'
<1>1. UNCHANGED <<worldVars, runs, outside, cloneVars, pc, runVars>> /\ flying' \subseteq flying
  BY DEF Lost
<1>2. Later /\ WorldTypes' /\ DependenciesFirst'
  BY <1>1 DEF IInv, Later, WorldTypes, DependenciesFirst, worldVars, Ids
<1> QED  BY <1>1, <1>2, StaysReleased, WorldStep DEF worldVars, runVars, IInv, RunTypes

LEMMA UploadLandsStep == ASSUME IInv, NEW f \in flying, UploadLands(f) PROVE IInv'
<1> USE DEF UploadLands
<1> DEFINE stored == [state |-> "pending", content |-> f.content]
<1>1. f.package \in Packages /\ f.content \in Int
  BY DEF IInv, SentTypes
<1>2. /\ registry' = [registry EXCEPT ![f.package] = stored] /\ registry[f.package] = Absent
      /\ stored \in [state : {"absent", "pending", "visible"}, content : Int]
      /\ stored.state = "pending" /\ stored.content = f.content
  BY <1>1
<1> HIDE DEF stored
<1>3. WorldTypes'
  BY <1>1, <1>2 DEF IInv, WorldTypes, Ids
<1>4. Later
  BY <1>1, <1>2 DEF IInv, WorldTypes, Later, Ids, Absent
<1>5. DependenciesFirst'
  <2>1. \A q \in Packages : q < f.package => registry[q] = Visible(f.content)
    BY DEF IInv, Sent
  <2>2. /\ \A q \in Packages \ {f.package} : registry'[q] = registry[q]
        /\ registry'[f.package] = stored
    BY <1>1, <1>2 DEF IInv, WorldTypes
  <2>3. \A t \in Int : Visible(t) # Absent
    BY DEF Visible, Absent
  <2>4. ASSUME NEW p \in Packages, registry'[p] \notin {Absent, Foreign}, NEW q \in 1 .. p - 1
        PROVE  registry'[q] = Visible(registry'[p].content)
    <3>1. q \in Packages /\ q < p /\ q # p
      BY ReleaseAssumption DEF Packages
    <3>2. CASE p = f.package
      BY <1>2, <2>1, <2>2, <3>1, <3>2
    <3>3. CASE p # f.package
      <4>1. registry[q] = Visible(registry[p].content) /\ registry[p].content \in Int
        BY <2>2, <2>4, <3>3 DEF IInv, DependenciesFirst, WorldTypes
      <4>2. q # f.package
        BY <1>2, <2>3, <4>1
      <4> QED  BY <2>2, <3>1, <3>3, <4>1, <4>2
    <3> QED  BY <3>2, <3>3
  <2> QED  BY <2>4 DEF DependenciesFirst
<1>6. TagMeansReleased'
  BY <1>4, StaysReleased
<1>7. answered' \in [Clones -> BOOLEAN]
  BY DEF IInv, RunTypes, Answer
<1> QED  BY <1>3, <1>4, <1>5, <1>6, <1>7, WorldStep

LEMMA ProcessedStep == ASSUME IInv, NEW p \in Packages, Processed(p) PROVE IInv'
<1> USE DEF Processed
<1>1. /\ registry' \in [Packages -> [state : {"absent", "pending", "visible"}, content : Int]]
      /\ \A q \in Packages \ {p} : registry'[q] = registry[q]
      /\ registry'[p].content = registry[p].content /\ registry[p].state = "pending"
  BY DEF IInv, WorldTypes
<1>2. WorldTypes'
  BY <1>1 DEF IInv, WorldTypes, Ids
<1>3. Later
  BY <1>1 DEF Later, Ids
<1>4. DependenciesFirst'
  <2>1. registry[p] \notin {Absent, Foreign}
    BY <1>1 DEF Absent, Foreign
  <2>2. \A q \in Packages, t \in Int : registry[q] = Visible(t) => registry'[q] = Visible(t)
    BY <1>3 DEF Later, Visible
  <2>3. \A q \in Packages : \A r \in 1 .. q - 1 : r \in Packages
    BY ReleaseAssumption DEF Packages
  <2>4. \A q \in Packages : registry[q].content \in Int
    BY DEF IInv, WorldTypes
  <2> QED  BY <1>1, <2>1, <2>2, <2>3, <2>4 DEF IInv, DependenciesFirst
<1>5. TagMeansReleased'
  BY <1>3, StaysReleased
<1> QED  BY <1>2, <1>3, <1>4, <1>5, WorldStep DEF runVars, IInv, RunTypes

LEMMA PushLandsStep == ASSUME IInv, NEW f \in flying, PushLands(f) PROVE IInv'
<1> USE DEF PushLands
<1>1. f.commit \in Ids /\ f.tag \in Ids
  BY DEF IInv, SentTypes
<1>2. WorldTypes' /\ Later
  BY <1>1 DEF IInv, WorldTypes, Later, Ids
<1>3. TagMeansReleased'
  <2>1. Released(f.commit)' /\ remoteTag' = f.commit
    BY <1>1, <1>2, ReleasedStays DEF IInv, Sent
  <2> QED  BY <2>1 DEF TagMeansReleased
<1>4. DependenciesFirst'
  BY DEF IInv, DependenciesFirst
<1>5. answered' \in [Clones -> BOOLEAN]
  BY DEF IInv, RunTypes, Answer
<1> QED  BY <1>2, <1>3, <1>4, <1>5, WorldStep

LEMMA OthersTagStep == ASSUME IInv, OthersTag PROVE IInv'
<1> USE DEF OthersTag, Act
<1>1. WorldTypes' /\ Later /\ DependenciesFirst'
  BY DEF IInv, WorldTypes, Later, DependenciesFirst, Ids
<1>2. TagMeansReleased'
  BY DEF IInv, WorldTypes, TagMeansReleased, ForeignTag, Ids
<1> QED  BY <1>1, <1>2, WorldStep DEF runVars, IInv, RunTypes

LEMMA OthersPublishStep == ASSUME IInv, NEW p \in Packages, OthersPublish(p) PROVE IInv'
<1> USE DEF OthersPublish, Act
<1>1. /\ registry' \in [Packages -> [state : {"absent", "pending", "visible"}, content : Int]]
      /\ \A q \in Packages \ {p} : registry'[q] = registry[q]
      /\ registry'[p] = Foreign /\ registry[p] = Absent
  BY DEF IInv, WorldTypes, Foreign
<1>2. WorldTypes'
  BY <1>1 DEF IInv, WorldTypes, Ids
<1>3. Later
  BY <1>1 DEF Later, Ids, Absent
<1>4. DependenciesFirst'
  <2>1. \A q \in Packages, t \in Int : registry[q] = Visible(t) => registry'[q] = Visible(t)
    BY <1>3 DEF Later, Visible
  <2>2. \A q \in Packages : \A r \in 1 .. q - 1 : r \in Packages
    BY ReleaseAssumption DEF Packages
  <2>3. \A q \in Packages : registry[q].content \in Int
    BY DEF IInv, WorldTypes
  <2> QED  BY <1>1, <2>1, <2>2, <2>3 DEF IInv, DependenciesFirst
<1>5. TagMeansReleased'
  BY <1>3, StaysReleased
<1> QED  BY <1>2, <1>3, <1>4, <1>5, WorldStep DEF runVars, IInv, RunTypes

LEMMA MoveChannelStep == ASSUME IInv, NEW p \in Packages, MoveChannel(p) PROVE IInv'
<1> USE DEF MoveChannel, Act
<1>1. WorldTypes' /\ Later
  BY DEF IInv, WorldTypes, Later, Ids
<1>2. TagMeansReleased' /\ DependenciesFirst'
  BY <1>1, StaysReleased DEF IInv, DependenciesFirst
<1> QED  BY <1>1, <1>2, WorldStep DEF runVars, IInv, RunTypes

-----------------------------------------------------------------------------
(* New commits.                                                            *)

\* A commit is added to those there are, and descends from one of them.
Grows(parent, release, version) ==
    commits' = Append(commits, Commit(parent, commits[parent].past \union {Len(commits) + 1},
                                      release, version))

LEMMA NewId ==
    ASSUME IInv, NEW parent \in Ids, NEW release \in BOOLEAN,
           NEW version \in [Packages -> Versions], Grows(parent, release, version)
    PROVE  /\ Len(commits) + 1 \notin Ids /\ Ids' = Ids \union {Len(commits) + 1}
           /\ \A i \in Ids : commits'[i] = commits[i]
           /\ commits'[Len(commits) + 1].past = commits[parent].past \union {Len(commits) + 1}
           /\ commits'[Len(commits) + 1].parent = parent
           /\ commits'[Len(commits) + 1].release = release
           /\ commits'[Len(commits) + 1].version = version
           /\ commits' \in Seq([parent : Nat, past : SUBSET Nat, release : BOOLEAN,
                                version : [Packages -> Versions]])
<1> DEFINE S == [parent : Nat, past : SUBSET Nat, release : BOOLEAN,
                 version : [Packages -> Versions]]
           new == Commit(parent, commits[parent].past \union {Len(commits) + 1}, release, version)
<1>1. Len(commits) \in Nat /\ commits \in Seq(S)
  BY LenProperties DEF IInv, WorldTypes
<1>2. new \in S /\ new.parent = parent /\ new.release = release /\ new.version = version
      /\ new.past = commits[parent].past \union {Len(commits) + 1}
  BY <1>1, CommitType DEF IInv, Commit
<1>3. commits' = Append(commits, new)
  BY DEF Grows
<1> HIDE DEF S, new
<1>4. /\ commits' \in Seq(S) /\ Len(commits') = Len(commits) + 1
      /\ \A i \in 1 .. Len(commits) : commits'[i] = commits[i]
      /\ commits'[Len(commits) + 1] = new
  BY <1>1, <1>2, <1>3, AppendProperties
<1>5. Len(commits) + 1 \notin Ids /\ Ids' = Ids \union {Len(commits) + 1}
  BY <1>1, <1>4 DEF Ids
<1>6. \A i \in Ids : commits'[i] = commits[i]
  BY <1>4 DEF Ids
<1> QED  BY <1>2, <1>4, <1>5, <1>6 DEF S

\* A step of a clone or of others that adds a commit, and may move what refers to one.
LEMMA CommitStep ==
    ASSUME IInv, NEW parent \in Ids, NEW release \in BOOLEAN,
           NEW version \in [Packages -> Versions], Grows(parent, release, version),
           release => version = Bump /\ commits[parent].version # Bump,
           UNCHANGED <<remoteTag, registry, channel, disturbed, flying, runs, branch, manifest,
                       localTag, runVars>>,
           outside' \in Nat, remoteMain' \in Ids', pc' \in [Clones -> Points],
           head' \in [Clones -> Ids'], dirty' \in [Clones -> BOOLEAN],
           quiet' \in [Clones -> BOOLEAN],
           \A d \in Clones : Own(d)' = Own(d) \/ (Progress(d)' /\ Bumps(d)')
    PROVE  IInv'
<1> USE DEF runVars
<1> DEFINE new == Len(commits) + 1
<1>1. /\ Ids' = Ids \union {new} /\ new \notin Ids
      /\ \A i \in Ids : commits'[i] = commits[i]
      /\ commits'[new].past = commits[parent].past \union {new}
      /\ commits'[new].parent = parent /\ commits'[new].release = release
      /\ commits'[new].version = version
  BY NewId
<1>2. commits' \in Seq([parent : Nat, past : SUBSET Nat, release : BOOLEAN,
                        version : [Packages -> Versions]])
  BY NewId
<1> HIDE DEF new
<1>3. Later
  BY <1>1 DEF Later
<1>4. WorldTypes'
  BY <1>1, <1>2 DEF IInv, WorldTypes
<1>5. SentTypes' /\ CheckoutTypes' /\ RunTypes' /\ ReferenceTypes'
  <2>1. SentTypes'
    <3>1. ASSUME NEW f, f \in [kind : {"push"}, clone : Clones, run : Nat, commit : Ids, tag : Ids,
                               main : Ids, lease : Ids \union {NoTag}]
          PROVE  f \in [kind : {"push"}, clone : Clones, run : Nat, commit : Ids', tag : Ids',
                        main : Ids', lease : Ids' \union {NoTag}]
      BY <1>1, <3>1
    <3> QED  BY <3>1 DEF IInv, SentTypes
  <2>2. CheckoutTypes' /\ RunTypes'
    BY <1>1 DEF IInv, CheckoutTypes, RunTypes
  <2>3. ReferenceTypes'
    BY <1>1 DEF IInv, ReferenceTypes
  <2> QED  BY <2>1, <2>2, <2>3
<1>6. History'
  <2>1. \A i \in Ids : commits[i].past \subseteq Ids /\ i \in commits[i].past
    BY DEF IInv, History
  <2>2. ASSUME NEW i \in Ids
        PROVE  commits[i].release => /\ commits[i].version = Bump /\ commits[i].parent \in Ids
                                     /\ commits[commits[i].parent].version # Bump
                                     /\ commits[commits[i].parent].past \subseteq commits[i].past
    BY DEF IInv, History
  <2> QED  BY <1>1, <2>1, <2>2 DEF History, Bump
<1>7. Sent'
  BY <1>3, SentStays
<1>8. TagMeansReleased'
  <2>1. NoTag \notin Ids' /\ ForeignTag \notin Ids'
    BY DEF ForeignTag, NoTag, Ids
  <2>2. remoteTag \in Ids' => remoteTag \in Ids
    BY <2>1 DEF IInv, WorldTypes
  <2> QED  BY <1>3, <2>2, ReleasedStays DEF IInv, TagMeansReleased
<1>9. DependenciesFirst'
  BY DEF IInv, DependenciesFirst
<1>10. \A d \in Clones : Progress(d)' /\ Bumps(d)'
  BY <1>3, Waiting
<1> QED  BY <1>4, <1>5, <1>6, <1>7, <1>8, <1>9, <1>10 DEF IInv

LEMMA OthersPushStep == ASSUME IInv, OthersPush PROVE IInv'
<1> USE DEF OthersPush, Act, cloneVars, runVars
<1>1. remoteMain \in Ids /\ commits[remoteMain].version \in [Packages -> Versions]
  BY CommitType DEF IInv, WorldTypes
<1>2. Grows(remoteMain, FALSE, commits[remoteMain].version)
  BY DEF Grows
<1>3. Ids' = Ids \union {Len(commits) + 1}
  BY <1>1, <1>2, NewId
<1>4. /\ remoteMain' \in Ids' /\ head' \in [Clones -> Ids'] /\ outside' \in Nat
      /\ dirty' \in [Clones -> BOOLEAN] /\ quiet' \in [Clones -> BOOLEAN]
  BY <1>3 DEF IInv, WorldTypes, CheckoutTypes
<1>5. \A d \in Clones : Own(d)' = Own(d)
  BY DEF Own
<1> QED  BY <1>1, <1>2, <1>4, <1>5, CommitStep DEF IInv, RunTypes

LEMMA DevelopStep == ASSUME IInv, NEW c \in Clones, Develop(c) PROVE IInv'
<1> USE DEF Develop, cloneVars, runVars
<1>1. head[c] \in Ids /\ manifest[c] \in [Packages -> Versions]
      /\ commits[head[c]].version \in [Packages -> Versions]
  BY CommitType DEF IInv, CheckoutTypes
<1>2. PICK version \in {manifest[c], commits[head[c]].version} : Grows(head[c], FALSE, version)
  BY DEF NewCommit, Grows
<1>3. /\ Ids' = Ids \union {Len(commits) + 1} /\ commits'[Len(commits) + 1].version = version
  <2>1. version \in [Packages -> Versions] /\ FALSE \in BOOLEAN
    BY <1>1
  <2> QED  BY <1>1, <1>2, <2>1, NewId
<1>4. /\ head' \in [Clones -> Ids'] /\ remoteMain' \in Ids' /\ outside' \in Nat
      /\ dirty' \in [Clones -> BOOLEAN] /\ quiet' \in [Clones -> BOOLEAN]
      /\ head'[c] = Len(commits) + 1 /\ \A d \in Clones \ {c} : head'[d] = head[d]
  BY <1>3, WorkFacts DEF IInv, WorldTypes, CheckoutTypes
<1>5. \A d \in Clones \ {c} : Own(d)' = Own(d)
  BY <1>4, WorkFacts DEF Own
<1>6. Progress(c)'
  <2>1. Later
    BY <1>1, <1>2, NewId DEF Later
  <2>2. /\ source[c] \in Ids /\ target[c] \in Ids
    BY DEF IInv, ReferenceTypes
  <2>3. /\ commits'[source[c]] = commits[source[c]] /\ commits'[target[c]] = commits[target[c]]
    BY <2>1, <2>2 DEF Later
  <2>4. quiet'[c] => quiet[c] /\ pc[c] \notin {"replace", "gate"}
    BY WorkFacts
  <2> QED  BY <2>3, <2>4 DEF IInv, Progress, Referred, Compared, Recorded, Tree, Renders
<1>7. Bumps(c)'
  <2>1. commits'[source[c]] = commits[source[c]]
    BY <1>1, <1>2, NewId DEF IInv, ReferenceTypes
  <2>2. /\ commits'[head'[c]].version \in {manifest[c], commits[head[c]].version}
        /\ UNCHANGED <<pc, owned, strayed, manifest, original, source>>
    BY <1>2, <1>3, <1>4
  <2>3. Bumps(c)
    BY DEF IInv
  <2> QED  BY <2>1, <2>2, <2>3 DEF Bumps
<1>8. /\ UNCHANGED <<remoteTag, registry, channel, disturbed, flying, runs, branch, manifest,
                     localTag, pc, runVars>>
      /\ pc' \in [Clones -> Points] /\ version \in [Packages -> Versions] /\ FALSE \in BOOLEAN
  BY <1>1, <1>2 DEF IInv, RunTypes
<1>9. \A d \in Clones : Own(d)' = Own(d) \/ (Progress(d)' /\ Bumps(d)')
  BY <1>5, <1>6, <1>7
<1> HIDE DEF Develop
<1> QED  BY <1>1, <1>2, <1>4, <1>8, <1>9, CommitStep

LEMMA CommitLandsStep == ASSUME IInv, NEW c \in Clones, CommitLands(c) PROVE IInv'
<1> USE DEF CommitLands, Go, cloneVars, runVars
<1>1. head[c] \in Ids /\ manifest[c] \in [Packages -> Versions]
  BY DEF IInv, CheckoutTypes
<1>2. Grows(head[c], Bumped(c), manifest[c]) /\ Bumped(c) \in BOOLEAN
  BY DEF NewCommit, Grows, Bumped
<1>3. Bumped(c) => manifest[c] = Bump /\ commits[head[c]].version # Bump
  BY <1>1 DEF Bumped, Bump
<1>4. /\ Ids' = Ids \union {Len(commits) + 1} /\ commits'[Len(commits) + 1].version = manifest[c]
  BY <1>1, <1>2, NewId
<1>5. /\ head' \in [Clones -> Ids'] /\ remoteMain' \in Ids' /\ outside' \in Nat
      /\ dirty' \in [Clones -> BOOLEAN] /\ quiet' \in [Clones -> BOOLEAN]
      /\ head'[c] = Len(commits) + 1 /\ \A d \in Clones \ {c} : head'[d] = head[d]
  BY <1>4 DEF IInv, WorldTypes, CheckoutTypes
<1>6. /\ pc' \in [Clones -> Points] /\ pc'[c] = "committed" /\ pc[c] = "committing"
      /\ \A d \in Clones \ {c} : pc'[d] = pc[d]
  BY DEF IInv, RunTypes, Points, Working
<1>7. \A d \in Clones \ {c} : Own(d)' = Own(d)
  BY <1>5, <1>6 DEF Own
<1>8. Progress(c)'
  <2>1. Later
    BY <1>1, <1>2, NewId DEF Later
  <2>2. source[c] \in Ids
    BY DEF IInv, ReferenceTypes
  <2>3. commits'[source[c]] = commits[source[c]]
    BY <2>1, <2>2 DEF Later
  <2> QED  BY <1>6, <2>3 DEF IInv, Progress, Referred, Compared, Recorded, Tree, Renders, Verifying,
              Candidates, Publishing, Recording
<1>9. Bumps(c)'
  BY <1>4, <1>5, <1>6 DEF IInv, Bumps, Preflight
<1> QED  BY <1>1, <1>2, <1>3, <1>5, <1>6, <1>7, <1>8, <1>9, CommitStep

-----------------------------------------------------------------------------
(* The inductive invariant.                                                *)

LEMMA InitInvariant == Init => IInv
<1> SUFFICES ASSUME Init PROVE IInv
  OBVIOUS
<1> DEFINE first == Commit(0, {1}, FALSE, [p \in Packages |-> "old"])
<1>1. first \in [parent : Nat, past : SUBSET Nat, release : BOOLEAN,
                 version : [Packages -> Versions]]
      /\ first.past = {1} /\ first.release = FALSE
      /\ first.version = [p \in Packages |-> "old"]
  BY DEF Commit, Versions
<1> HIDE DEF first
<1>2. commits = <<first>>
  BY DEF Init, first
<1>3. Ids = {1} /\ commits[1] = first
  <2>1. Len(commits) = 1 /\ commits[1] = first
    BY <1>2
  <2> QED  BY <2>1 DEF Ids
<1>4. WorldTypes
  <2>1. commits \in Seq([parent : Nat, past : SUBSET Nat, release : BOOLEAN,
                         version : [Packages -> Versions]])
    BY <1>1, <1>2
  <2>2. /\ registry \in [Packages -> [state : {"absent", "pending", "visible"}, content : Int]]
        /\ channel \in [Packages -> BOOLEAN] /\ runs \in Nat /\ outside \in Nat /\ disturbed = {}
    BY DEF Init, Absent
  <2> QED  BY <1>3, <2>1, <2>2 DEF Init, WorldTypes
<1>5. SentTypes /\ CheckoutTypes /\ ReferenceTypes
  BY <1>3 DEF Init, SentTypes, CheckoutTypes, ReferenceTypes, Versions
<1>6. RunTypes
  BY ReleaseAssumption DEF Init, RunTypes, Points, Versions
<1>7. History /\ Sent
  BY <1>1, <1>3 DEF Init, History, Sent
<1>8. TagMeansReleased /\ DependenciesFirst
  BY <1>3 DEF Init, TagMeansReleased, DependenciesFirst, NoTag
<1>9. \A c \in Clones : Progress(c)
  BY DEF Init, Progress, Referred, Compared, Recorded, Verifying, Candidates, Publishing, Recording
<1>10. \A c \in Clones : Bumps(c)
  BY DEF Init, Bumps
<1> QED  BY <1>4, <1>5, <1>6, <1>7, <1>8, <1>9, <1>10 DEF IInv

LEMMA InductiveInvariant == IInv /\ [Next]_vars => IInv'
<1> SUFFICES ASSUME IInv, [Next]_vars PROVE IInv'
  OBVIOUS
<1>1. ASSUME NEW c \in Clones, Run(c) PROVE IInv'
  BY <1>1, StartStep, SourceStep, CheckCleanStep, FetchStep, ReferencesStep, QueryRegistryStep,
     RegistryKnownStep, CheckAgainStep, ReplaceStep, GateStep, AcceptStep, VerifyStep,
     VerifiedStep, ConfirmStep, SkipStep, CheckInputsStep, StartUploadStep, UploadedStep,
     BecomesVisibleStep, CheckContentsStep, CheckChannelStep, AllPublishedStep,
     CheckChannelsStep, CheckRecordStep, RecordStep, CommitLandsStep, CommittedStep, TagLandsStep,
     StartPushStep, PushedStep, FailsStep, CrashStep, ClosesStep, RestoreStep, DiscardStep
     DEF Run
<1>2. ASSUME NEW f \in flying, UploadLands(f) \/ PushLands(f) \/ Lost(f) PROVE IInv'
  BY <1>2, UploadLandsStep, PushLandsStep, LostStep
<1>3. ASSUME NEW p \in Packages, Processed(p) PROVE IInv'
  BY <1>3, ProcessedStep
<1>4. CASE Others
  BY <1>4, OthersPushStep, OthersTagStep, OthersPublishStep, MoveChannelStep, DevelopStep,
     EditStep, TouchStep, RetagStep, CheckoutsStep DEF Others
<1>5. CASE UNCHANGED vars
  <2>1. UNCHANGED <<worldVars, flying, runs, outside, cloneVars, pc, runVars>>
    BY <1>5 DEF vars
  <2>2. Later /\ WorldTypes' /\ DependenciesFirst'
    BY <2>1 DEF IInv, Later, WorldTypes, DependenciesFirst, worldVars, Ids
  <2> QED  BY <2>1, <2>2, StaysReleased, WorldStep DEF worldVars, runVars, IInv, RunTypes
<1> QED  BY <1>1, <1>2, <1>3, <1>4, <1>5 DEF Next

\* In every reachable state a run has made sure of what the point it is at says, and
\* what is on its way is sound (release.mjs, release-session.mjs).
THEOREM Invariance == Spec => []IInv
<1> QED  BY InitInvariant, InductiveInvariant, PTL DEF Spec

\* Every variable keeps its type, references to commits included.
THEOREM TypeCorrect == Spec => []TypeOK
<1>1. IInv => TypeOK
  BY DEF IInv, WorldTypes, SentTypes, CheckoutTypes, RunTypes, ReferenceTypes, TypeOK
<1> QED  BY Invariance, <1>1, PTL

\* The tag is the last record: behind it every package is readable, all from one build,
\* and that of the tagged tree unless somebody changed the clone while it was built and
\* put everything back before it was looked at again; whatever fails and whoever else
\* publishes, tags or pushes (release.mjs 378-398, 578-642).
THEOREM TheTagIsTrue == Spec => []TagMeansReleased
<1> QED  BY Invariance, PTL DEF IInv

\* A dependent is never stored before what it depends on, even by an upload that
\* arrives when its run is dead (504, 543-576).
THEOREM DependentsComeLater == Spec => []DependenciesFirst
<1> QED  BY Invariance, PTL DEF IInv

\* No run leaves its bump behind without saying so (release-session.mjs 186-262).
THEOREM BumpsAreReturned == Spec => []ManifestsAreReturned
<1>1. IInv => ManifestsAreReturned
  BY DEF IInv, Bumps, ManifestsAreReturned
<1> QED  BY Invariance, <1>1, PTL

-----------------------------------------------------------------------------
(* What others did.                                                        *)

\* The world, but for what its builds may have disturbed.
Shared == <<commits, remoteMain, remoteTag, registry, channel>>

\* Of all its steps only four of a run change it or a checkout's manifests.
LEMMA RunsTouch ==
    ASSUME NEW c \in Clones, Run(c)
    PROVE  /\ UNCHANGED Shared \/ CommitLands(c)
           /\ UNCHANGED manifest \/ Replace(c) \/ Restore(c) \/ Discard(c)
<1> USE DEF cloneVars, worldVars, Shared
<1>1. CASE \/ Start(c) \/ Source(c) \/ CheckClean(c) \/ Fetch(c) \/ References(c)
           \/ QueryRegistry(c) \/ RegistryKnown(c) \/ CheckAgain(c) \/ Replace(c)
           \/ Gate(c) \/ Accept(c) \/ Verify(c) \/ Verified(c) \/ Confirm(c)
  BY <1>1 DEF Start, Source, CheckClean, Fetch, References, QueryRegistry, RegistryKnown,
     CheckAgain, Replace, Gate, Accept, Verify, Verified, Confirm
<1>2. CASE \/ Skip(c) \/ CheckInputs(c) \/ StartUpload(c) \/ Uploaded(c)
           \/ BecomesVisible(c) \/ CheckContents(c) \/ CheckChannel(c)
           \/ AllPublished(c) \/ CheckChannels(c) \/ CheckRecord(c) \/ Record(c)
           \/ CommitLands(c)
  BY <1>2 DEF Skip, CheckInputs, StartUpload, Uploaded, BecomesVisible, CheckContents,
     CheckChannel, AllPublished, CheckChannels, CheckRecord, Record, CommitLands
<1>3. CASE \/ Committed(c) \/ TagLands(c) \/ StartPush(c) \/ Pushed(c)
           \/ Fails(c) \/ Crash(c) \/ Closes(c) \/ Restore(c) \/ Discard(c)
  BY <1>3 DEF Committed, TagLands, StartPush, Pushed, Fails, Crash, Closes, Restore, Discard
<1> QED  BY <1>1, <1>2, <1>3 DEF Run

\* References and contents of others are replaced by nobody, and what is readable stays.
LEMMA WorldSurvives ==
    ASSUME IInv, Next
    PROVE  /\ remoteMain \in commits'[remoteMain'].past
           /\ remoteTag # NoTag => remoteTag' = remoteTag
           /\ \A p \in Packages : registry[p] # Absent =>
                registry'[p].content = registry[p].content
           /\ \A p \in Packages : registry[p].state = "visible" => registry'[p] = registry[p]
<1>1. remoteMain \in Ids /\ remoteMain \in commits[remoteMain].past
  BY DEF IInv, WorldTypes, History
<1>2. CASE UNCHANGED Shared
  BY <1>1, <1>2 DEF Shared
<1>3. ASSUME NEW c \in Clones, CommitLands(c) \/ Develop(c)
      PROVE  /\ commits'[remoteMain] = commits[remoteMain]
             /\ UNCHANGED <<remoteMain, remoteTag, registry>>
  <2>1. PICK release \in BOOLEAN, version \in [Packages -> Versions] :
          Grows(head[c], release, version)
    <3>1. /\ manifest[c] \in [Packages -> Versions] /\ Bumped(c) \in BOOLEAN
          /\ commits[head[c]].version \in [Packages -> Versions]
      BY CommitType DEF IInv, CheckoutTypes, Bumped
    <3> QED  BY <1>3, <3>1 DEF CommitLands, Develop, NewCommit, Grows
  <2>2. commits'[remoteMain] = commits[remoteMain]
    BY <1>1, <2>1, NewId DEF IInv, CheckoutTypes
  <2> QED  BY <1>3, <2>2 DEF CommitLands, Develop
<1>4. CASE OthersPush
  <2>1. Grows(remoteMain, FALSE, commits[remoteMain].version)
    BY <1>4 DEF OthersPush, Grows
  <2>2. commits'[Len(commits) + 1].past = commits[remoteMain].past \union {Len(commits) + 1}
    BY <1>1, <2>1, NewId, CommitType DEF IInv
  <2> QED  BY <1>1, <1>4, <2>2 DEF OthersPush
<1>5. ASSUME NEW f \in flying, PushLands(f)
      PROVE  /\ remoteMain \in commits'[remoteMain'].past
             /\ remoteTag # NoTag => remoteTag' = remoteTag
             /\ UNCHANGED registry
  BY <1>5 DEF IInv, Sent, PushLands, LeasesHold
<1>6. ASSUME NEW f \in flying, UploadLands(f)
      PROVE  /\ UNCHANGED <<commits, remoteMain, remoteTag>>
             /\ \A p \in Packages : registry[p] # Absent =>
                  registry'[p].content = registry[p].content
             /\ \A p \in Packages : registry[p].state = "visible" => registry'[p] = registry[p]
  BY <1>6 DEF IInv, WorldTypes, UploadLands, Absent
<1>7. ASSUME NEW q \in Packages, Processed(q) \/ OthersPublish(q) \/ MoveChannel(q)
      PROVE  /\ UNCHANGED <<commits, remoteMain, remoteTag>>
             /\ \A p \in Packages : registry[p] # Absent =>
                  registry'[p].content = registry[p].content
             /\ \A p \in Packages : registry[p].state = "visible" => registry'[p] = registry[p]
  <2>1. CASE Processed(q) \/ MoveChannel(q)
    BY <2>1 DEF IInv, WorldTypes, Processed, MoveChannel
  <2>2. CASE OthersPublish(q)
    BY <2>2 DEF IInv, WorldTypes, OthersPublish, Absent
  <2> QED  BY <1>7, <2>1, <2>2
<1>8. CASE OthersTag
  BY <1>1, <1>8 DEF OthersTag
<1>9. ASSUME NEW c \in Clones, Run(c) PROVE UNCHANGED Shared \/ CommitLands(c)
  BY <1>9, RunsTouch
<1>10. \A c \in Clones :
         Touch(c) \/ Retag(c) \/ (\E p \in Packages : Edit(c, p)) => UNCHANGED Shared
  BY DEF Edit, Touch, Retag, worldVars, Shared
<1>11. \A c \in Clones, b \in {"main", "other"}, id \in Ids :
         Checkout(c, b, id) => UNCHANGED Shared
  BY DEF Checkout, worldVars, Shared
<1>12. \A f \in flying : Lost(f) => UNCHANGED Shared
  BY DEF Lost, worldVars, Shared
<1> QED  BY <1>1, <1>2, <1>3, <1>4, <1>5, <1>6, <1>7, <1>8, <1>9, <1>10, <1>11, <1>12
         DEF Next, Others

\* Edits are overwritten by those who edit, and by a run only as it read them.
LEMMA EditsSurvive ==
    ASSUME IInv, Next, NEW c \in Clones, NEW p \in Packages,
           manifest[c][p] = "edited", manifest'[c][p] # "edited"
    PROVE  outside' # outside \/ pc[c] = "idle" \/ original[c][p] = "edited"
<1>1. ASSUME NEW d \in Clones, Replace(d)
      PROVE  original[c][p] = "edited"
  <2>1. Intact(d, p) => manifest[d][p] = original[d][p]
    BY ReleaseAssumption DEF Intact, Packages
  <2> QED  BY <1>1, <2>1 DEF IInv, CheckoutTypes, Replace
<1>2. ASSUME NEW d \in Clones, Restore(d)
      PROVE  FALSE
  BY <1>2 DEF IInv, CheckoutTypes, Restore
<1>3. ASSUME NEW d \in Clones, Discard(d)
      PROVE  pc[c] = "idle"
  BY <1>3 DEF IInv, CheckoutTypes, Discard
<1>4. ASSUME NEW d \in Clones, Run(d)
      PROVE  pc[c] = "idle" \/ original[c][p] = "edited"
  BY <1>1, <1>2, <1>3, <1>4, RunsTouch
<1>5. CASE Others
  <2>1. outside' = outside + 1 /\ outside \in Nat
    BY <1>5 DEF Others, OthersPush, OthersTag, OthersPublish, MoveChannel, Develop, Edit,
       Touch, Retag, Checkout, Work, Act, IInv, WorldTypes
  <2> QED  BY <2>1
<1>6. ASSUME NEW f \in flying, UploadLands(f) \/ PushLands(f) \/ Lost(f) PROVE FALSE
  BY <1>6 DEF UploadLands, PushLands, Lost, cloneVars
<1>7. ASSUME NEW q \in Packages, Processed(q) PROVE FALSE
  BY <1>7 DEF Processed, cloneVars
<1> QED  BY <1>4, <1>5, <1>6, <1>7 DEF Next

\* The origin's main only grows, tags and published contents stay, and a manifest that was
\* edited since a run read it is not overwritten by it (release.mjs 630-645,
\* release-session.mjs 290-307).
THEOREM OthersAreRespected == Spec => OthersWorkSurvives
<1>1. IInv /\ [Next]_vars =>
        [/\ remoteMain \in commits'[remoteMain'].past
         /\ remoteTag # NoTag => remoteTag' = remoteTag
         /\ \A p \in Packages : registry[p] # Absent => registry'[p].content = registry[p].content
         /\ \A c \in Clones, p \in Packages :
              manifest[c][p] = "edited" /\ manifest'[c][p] # "edited"
                => \/ outside' # outside \/ pc[c] = "idle"
                   \/ original[c][p] = "edited"]_vars
  BY WorldSurvives, EditsSurvive
<1> QED  BY <1>1, Invariance, PTL DEF Spec, OthersWorkSurvives

-----------------------------------------------------------------------------
(* A release that nobody interferes with.                                  *)

Alone(c) == outside = 0 /\ \A d \in Clones \ {c} : run[d] = 0

\* A run that never began does nothing, and what is on its way was sent by one that did.
Owners ==
    /\ \A d \in Clones : run[d] = 0 => pc[d] = "idle"
    /\ \A f \in flying : run[f.clone] # 0
    /\ \A d \in Clones : \A p \in published[d] : registry[p].state = "visible"

\* There is the commit at the beginning and at most the one that releases it, which is
\* made when every package is readable.
AloneInTheWorld(c) ==
    /\ Ids \in {{1}, {1, 2}}
    /\ commits[1].past = {1} /\ ~commits[1].release
    /\ commits[1].version = [p \in Packages |-> "old"]
    /\ 2 \in Ids => /\ commits[2].parent = 1 /\ commits[2].past = {1, 2} /\ commits[2].release
                    /\ \A p \in Packages : registry[p] = Visible(1)
    /\ remoteTag \in {NoTag, 2}
    /\ \A p \in Packages : registry[p] # Absent => registry[p].content = 1 /\ channel[p]
    /\ \A f \in flying : /\ f.clone = c
                         /\ f.kind = "upload" => f.content = 1
                         /\ f.kind = "push" => f.tag = 2

\* The checkout holds one of them, bumped or not.
AloneInTheClone(c) ==
    /\ branch[c] = "main" /\ (2 \in Ids => head[c] = 2)
    /\ manifest[c] \in {Bump, [p \in Packages |-> "old"]}
    /\ head[c] = 2 => manifest[c] = Bump
    /\ localTag[c] \in {NoTag, 2}
    /\ quiet[c] /\ ~dirty[c]

\* What the run remembers of it is true.
Remembered(c) ==
    /\ pc[c] \in {"clean", "fetch"} /\ 2 \in Ids => source[c] = 2
    /\ original[c] \in {Bump, [p \in Packages |-> "old"]}
    /\ pc[c] \in Preflight => manifest[c] = original[c]
    /\ source[c] = 2 => original[c] = Bump
    /\ owned[c] \in {{}, Packages}
    /\ pc[c] \in {"restoring", "compare", "committing"} => head[c] = source[c]
    /\ pc[c] \in {"compare", "committing"} => manifest[c] = Bump
    /\ pc[c] \in {"tagging", "tagged"} => target[c] = 2
    /\ tag[c] \in {NoTag, 2} /\ built[c] = 1
    /\ pc[c] = "registry" /\ 2 \in Ids => \A p \in Packages : p < item[c] => p \in published[c]

Undisturbed(c) == AloneInTheWorld(c) /\ AloneInTheClone(c) /\ Remembered(c)
LInv == Owners /\ \A c \in Clones : Alone(c) => Undisturbed(c)

\* Most steps of a run only move it on, or forget what it replaced.
LEMMA MovesAlone ==
    ASSUME IInv, NEW c \in Clones, Undisturbed(c),
           \/ CheckClean(c) \/ RegistryKnown(c) \/ CheckAgain(c) \/ Accept(c) \/ Verify(c)
           \/ Verified(c) \/ Confirm(c) \/ Skip(c) \/ CheckInputs(c) \/ Uploaded(c)
           \/ BecomesVisible(c) \/ CheckContents(c) \/ CheckChannel(c) \/ AllPublished(c)
           \/ CheckChannels(c) \/ Pushed(c)
    PROVE  Undisturbed(c)'
<1>1. /\ UNCHANGED <<commits, remoteTag, registry, channel, flying, branch, head, manifest,
                     localTag, dirty, original, source, tag, built, target, owned>>
      /\ quiet'[c]
  BY DEF CheckClean, RegistryKnown, CheckAgain, Accept, Verify, Verified, Confirm, Skip,
     CheckInputs, Uploaded, BecomesVisible, CheckContents, CheckChannel, AllPublished,
     CheckChannels, Pushed, worldVars, cloneVars, runVars, Undisturbed, AloneInTheClone,
     IInv, CheckoutTypes
<1>2. /\ pc'[c] \notin {"registry", "compare", "committing", "tagging", "tagged", "restoring"}
      /\ pc'[c] \in {"clean", "fetch"} => pc[c] = "clean"
      /\ pc'[c] \in Preflight => pc[c] \in Preflight
  BY DEF CheckClean, RegistryKnown, CheckAgain, Accept, Verify, Verified, Confirm, Skip,
     CheckInputs, Uploaded, BecomesVisible, CheckContents, CheckChannel, AllPublished,
     CheckChannels, Pushed, Go, Preflight, IInv, RunTypes
<1>3. AloneInTheWorld(c)' /\ AloneInTheClone(c)'
  BY <1>1 DEF Undisturbed, AloneInTheWorld, AloneInTheClone, Ids
<1>4. Remembered(c)'
  BY <1>1, <1>2 DEF Undisturbed, Remembered, Ids
<1> QED  BY <1>3, <1>4 DEF Undisturbed

LEMMA EndsAlone ==
    ASSUME IInv, NEW c \in Clones, Undisturbed(c), Fails(c) \/ Crash(c)
    PROVE  Undisturbed(c)'
<1>1. /\ UNCHANGED <<commits, remoteTag, registry, channel, flying, branch, head, manifest,
                     localTag, dirty, quiet, original, source, tag>>
      /\ owned' = owned \/ owned' = [owned EXCEPT ![c] = {}]
      /\ built' = [built EXCEPT ![c] = 1]
  BY DEF Fails, Crash, Forgets, worldVars, cloneVars
<1>2. pc'[c] \in {"closing", "idle"}
  BY DEF Fails, Crash, IInv, RunTypes
<1>3. AloneInTheWorld(c)' /\ AloneInTheClone(c)'
  BY <1>1 DEF Undisturbed, AloneInTheWorld, AloneInTheClone, Ids
<1>4. owned'[c] \in {{}, Packages} /\ built'[c] = 1
  BY <1>1 DEF Undisturbed, Remembered, IInv, RunTypes
<1>5. Remembered(c)'
  BY <1>1, <1>2, <1>4 DEF Undisturbed, Remembered, Preflight
<1> QED  BY <1>3, <1>5 DEF Undisturbed

LEMMA StartAlone == ASSUME IInv, NEW c \in Clones, Undisturbed(c), Start(c) PROVE Undisturbed(c)'
<1> USE DEF Start, Go, worldVars, cloneVars
<1>1. AloneInTheWorld(c)' /\ AloneInTheClone(c)'
  BY DEF Undisturbed, AloneInTheWorld, AloneInTheClone, Ids
<1>2. source[c] = 2 => manifest[c] = Bump
  BY DEF Undisturbed, AloneInTheClone, IInv, ReferenceTypes
<1>3. Remembered(c)'
  BY <1>2 DEF Undisturbed, Remembered, AloneInTheClone, IInv, RunTypes, Ids
<1> QED  BY <1>1, <1>3 DEF Undisturbed

LEMMA SourceAlone == ASSUME IInv, NEW c \in Clones, Undisturbed(c), Source(c) PROVE Undisturbed(c)'
<1> USE DEF Source, Go, worldVars, cloneVars
<1>1. AloneInTheWorld(c)' /\ AloneInTheClone(c)'
  BY DEF Undisturbed, AloneInTheWorld, AloneInTheClone, Ids
<1>2. (2 \in Ids => head[c] = 2) /\ (head[c] = 2 => original[c] = Bump)
  BY DEF Undisturbed, Remembered, AloneInTheClone, Preflight
<1>3. Remembered(c)'
  BY <1>2 DEF Undisturbed, Remembered, IInv, RunTypes, ReferenceTypes, Preflight, Ids
<1> QED  BY <1>1, <1>3 DEF Undisturbed

LEMMA FetchAlone == ASSUME IInv, NEW c \in Clones, Undisturbed(c), Fetch(c) PROVE Undisturbed(c)'
<1> USE DEF Fetch, Go, worldVars, cloneVars
<1>1. AloneInTheWorld(c)' /\ AloneInTheClone(c)'
  BY DEF Undisturbed, AloneInTheWorld, AloneInTheClone, Ids
<1>2. Remembered(c)'
  BY DEF Undisturbed, Remembered, AloneInTheClone, IInv, RunTypes, ReferenceTypes, Preflight, Ids
<1> QED  BY <1>1, <1>2 DEF Undisturbed

LEMMA ReferencesAlone ==
    ASSUME IInv, NEW c \in Clones, Undisturbed(c), References(c)
    PROVE  Undisturbed(c)'
<1> USE DEF References, Go, worldVars, cloneVars
<1>1. AloneInTheWorld(c)' /\ AloneInTheClone(c)'
  BY DEF Undisturbed, AloneInTheWorld, AloneInTheClone, Ids
<1>2. \A p \in Packages : ~(p < 1)
  BY DEF Packages
<1>3. Remembered(c)'
  BY <1>2 DEF Undisturbed, Remembered, IInv, RunTypes, ReferenceTypes, Preflight, Ids
<1> QED  BY <1>1, <1>3 DEF Undisturbed

LEMMA QueryRegistryAlone ==
    ASSUME IInv, NEW c \in Clones, Undisturbed(c), QueryRegistry(c)
    PROVE  Undisturbed(c)'
<1> USE DEF QueryRegistry, worldVars, cloneVars
<1>1. AloneInTheWorld(c)' /\ AloneInTheClone(c)'
  BY DEF Undisturbed, AloneInTheWorld, AloneInTheClone, Ids
<1>2. 2 \in Ids => \A p \in Packages : p < item[c] + 1 => p \in published'[c]
  <2>1. 2 \in Ids => registry[item[c]].state = "visible"
    BY DEF Undisturbed, AloneInTheWorld, Visible
  <2>2. \A p \in Packages : p < item[c] + 1 => p < item[c] \/ p = item[c]
    BY DEF Packages
  <2> QED  BY <2>1, <2>2 DEF Undisturbed, Remembered, IInv, RunTypes
<1>3. Remembered(c)'
  BY <1>2 DEF Undisturbed, Remembered, IInv, RunTypes, Ids
<1> QED  BY <1>1, <1>3 DEF Undisturbed

LEMMA ReplaceAlone ==
    ASSUME IInv, NEW c \in Clones, Undisturbed(c), Replace(c)
    PROVE  Undisturbed(c)'
<1> USE DEF Replace, Go, worldVars, cloneVars
<1>1. AloneInTheWorld(c)'
  BY DEF Undisturbed, AloneInTheWorld, Ids
<1>2. \A p \in Packages \union {N} : Intact(c, p)
  BY ReleaseAssumption DEF Undisturbed, Remembered, Preflight, Intact, Packages
<1>3. pc'[c] = "gate" /\ owned'[c] = Packages /\ manifest'[c] = Bump
  BY <1>2 DEF IInv, RunTypes, CheckoutTypes, Bump
<1>4. AloneInTheClone(c)'
  BY <1>3 DEF Undisturbed, AloneInTheClone, Ids
<1>5. Remembered(c)'
  BY <1>3 DEF Undisturbed, Remembered, Preflight, Ids
<1> QED  BY <1>1, <1>4, <1>5 DEF Undisturbed

\* Both commits have the same tree.
LEMMA OneTree ==
    ASSUME IInv, NEW c \in Clones, Undisturbed(c), NEW i \in Ids
    PROVE  Tree(i) = 1 /\ i \in {1, 2}
BY DEF Undisturbed, AloneInTheWorld, Tree

LEMMA GateAlone == ASSUME IInv, NEW c \in Clones, Undisturbed(c), Gate(c) PROVE Undisturbed(c)'
<1> USE DEF Gate, Go, worldVars, cloneVars
<1>1. AloneInTheWorld(c)' /\ AloneInTheClone(c)'
  BY DEF Undisturbed, AloneInTheWorld, AloneInTheClone, Ids
<1>2. Tree(head[c]) = 1 /\ quiet[c]
  BY OneTree DEF IInv, CheckoutTypes, Undisturbed, AloneInTheClone
<1>3. Remembered(c)'
  BY <1>2 DEF Undisturbed, Remembered, IInv, RunTypes, Preflight, Ids
<1> QED  BY <1>1, <1>3 DEF Undisturbed

LEMMA StartUploadAlone ==
    ASSUME IInv, NEW c \in Clones, Undisturbed(c), StartUpload(c)
    PROVE  Undisturbed(c)'
<1> USE DEF StartUpload, Go, worldVars, cloneVars
<1> DEFINE u == Upload(c, item[c])
<1>1. u.kind = "upload" /\ u.clone = c /\ u.content = 1
  BY DEF Undisturbed, Remembered, Upload
<1>2. flying' = flying \union {u}
  OBVIOUS
<1> HIDE DEF u
<1>3. AloneInTheWorld(c)'
  BY <1>1, <1>2 DEF Undisturbed, AloneInTheWorld, Ids
<1>4. AloneInTheClone(c)'
  BY DEF Undisturbed, AloneInTheClone, Ids
<1>5. Remembered(c)'
  BY DEF Undisturbed, Remembered, IInv, RunTypes, Preflight, Ids
<1> QED  BY <1>3, <1>4, <1>5 DEF Undisturbed

LEMMA CheckRecordAlone ==
    ASSUME IInv, NEW c \in Clones, Undisturbed(c), CheckRecord(c)
    PROVE  Undisturbed(c)'
<1> USE DEF CheckRecord, Go, worldVars, cloneVars, runVars
<1>1. AloneInTheWorld(c)' /\ AloneInTheClone(c)'
  BY DEF Undisturbed, AloneInTheWorld, AloneInTheClone, Ids
<1>2. manifest[c] = Bump /\ head[c] = source[c]
  BY DEF IInv, CheckoutTypes, Bumped, Bump, AtSource
<1>3. Remembered(c)'
  BY <1>2 DEF Undisturbed, Remembered, IInv, RunTypes, Preflight, Ids
<1> QED  BY <1>1, <1>3 DEF Undisturbed

LEMMA RecordAlone == ASSUME IInv, NEW c \in Clones, Undisturbed(c), Record(c) PROVE Undisturbed(c)'
<1> USE DEF Record, Go, worldVars, cloneVars
<1>1. AloneInTheWorld(c)' /\ AloneInTheClone(c)'
  BY DEF Undisturbed, AloneInTheWorld, AloneInTheClone, Ids
<1>2. manifest[c] = Bump /\ head[c] = source[c]
  BY DEF Undisturbed, Remembered
<1>3. manifest[c] = commits[source[c]].version => source[c] = 2
  <2>1. [p \in Packages |-> "old"] # Bump
    BY ReleaseAssumption DEF Bump, Packages
  <2>2. source[c] \in {1, 2}
    BY OneTree DEF IInv, ReferenceTypes
  <2> QED  BY <1>2, <2>1, <2>2 DEF Undisturbed, AloneInTheWorld
<1>4. Remembered(c)'
  BY <1>2, <1>3 DEF Undisturbed, Remembered, IInv, RunTypes, ReferenceTypes, Preflight, Ids
<1> QED  BY <1>1, <1>4 DEF Undisturbed

\* The commit is the release of the first one: a run from the second has nothing to commit.
LEMMA CommitLandsAlone ==
    ASSUME IInv, NEW c \in Clones, Undisturbed(c), CommitLands(c)
    PROVE  Undisturbed(c)'
<1> USE DEF CommitLands, Go, cloneVars
<1>1. head[c] = source[c] /\ manifest[c] = Bump /\ Bumped(c)
  BY DEF Undisturbed, Remembered, Bumped, Bump
<1>2. head[c] = 1 /\ Ids = {1}
  <2>1. head[c] # 2
    BY <1>1 DEF IInv, CheckoutTypes, History, Undisturbed, AloneInTheWorld
  <2> QED  BY <2>1 DEF IInv, CheckoutTypes, Undisturbed, AloneInTheWorld, AloneInTheClone
<1>3. Len(commits) = 1
  <2>1. Len(commits) \in Nat
    BY LenProperties DEF IInv, WorldTypes
  <2>2. Len(commits) \in Ids
    BY <1>2, <2>1 DEF Ids
  <2> QED  BY <1>2, <2>2
<1>4. /\ Ids' = {1, 2} /\ commits'[1] = commits[1] /\ commits'[2].past = {1, 2}
      /\ commits'[2].parent = 1 /\ commits'[2].release
  <2>1. Grows(head[c], TRUE, Bump)
    BY <1>1 DEF Grows, NewCommit
  <2>2. TRUE \in BOOLEAN /\ Bump \in [Packages -> Versions]
    BY DEF Bump, Versions
  <2>3. commits[1].past = {1}
    BY DEF Undisturbed, AloneInTheWorld
  <2>4. head[c] \in Ids
    BY DEF IInv, CheckoutTypes
  <2>5. /\ Ids' = Ids \union {Len(commits) + 1} /\ commits'[1] = commits[1]
        /\ commits'[Len(commits) + 1].past = commits[head[c]].past \union {Len(commits) + 1}
        /\ commits'[Len(commits) + 1].parent = head[c]
        /\ commits'[Len(commits) + 1].release = TRUE
    BY <1>2, <2>1, <2>2, <2>4, NewId
  <2> QED  BY <1>2, <1>3, <2>3, <2>5
<1>5. \A p \in Packages : registry[p] = Visible(1)
  BY DEF IInv, Progress, Compared, Recording, Undisturbed, Remembered
<1>6. AloneInTheWorld(c)'
  BY <1>4, <1>5 DEF Undisturbed, AloneInTheWorld
<1>7. head'[c] = 2 /\ pc'[c] = "committed"
  BY <1>3 DEF IInv, CheckoutTypes, RunTypes
<1>8. AloneInTheClone(c)'
  BY <1>1, <1>4, <1>7 DEF Undisturbed, AloneInTheClone
<1>9. Remembered(c)'
  BY <1>7 DEF Undisturbed, Remembered, Preflight, runVars
<1> QED  BY <1>6, <1>8, <1>9 DEF Undisturbed

LEMMA CommittedAlone ==
    ASSUME IInv, NEW c \in Clones, Undisturbed(c), Committed(c)
    PROVE  Undisturbed(c)'
<1> USE DEF Committed, Go, worldVars, cloneVars
<1>1. AloneInTheWorld(c)' /\ AloneInTheClone(c)'
  BY DEF Undisturbed, AloneInTheWorld, AloneInTheClone, Ids
<1>2. head[c] = 2
  BY OneTree DEF IInv, CheckoutTypes, Undisturbed, AloneInTheWorld, IsReleaseCommit
<1>3. Remembered(c)'
  BY <1>2 DEF Undisturbed, Remembered, IInv, RunTypes, ReferenceTypes, Preflight, Ids
<1> QED  BY <1>1, <1>3 DEF Undisturbed

LEMMA TagLandsAlone ==
    ASSUME IInv, NEW c \in Clones, Undisturbed(c), TagLands(c)
    PROVE  Undisturbed(c)'
<1> USE DEF TagLands, Go, worldVars
<1>1. AloneInTheWorld(c)'
  BY DEF Undisturbed, AloneInTheWorld, Ids
<1>2. AloneInTheClone(c)'
  <2>1. target[c] = 2
    BY DEF Undisturbed, Remembered
  <2> QED  BY <2>1 DEF Undisturbed, AloneInTheClone, IInv, CheckoutTypes, Ids
<1>3. Remembered(c)'
  BY DEF Undisturbed, Remembered, IInv, RunTypes, Preflight, runVars, Ids
<1> QED  BY <1>1, <1>2, <1>3 DEF Undisturbed

LEMMA StartPushAlone ==
    ASSUME IInv, NEW c \in Clones, Undisturbed(c), StartPush(c)
    PROVE  Undisturbed(c)'
<1> USE DEF StartPush, Go, worldVars, cloneVars
<1> DEFINE f == Push(c, IF tag[c] = NoTag THEN localTag[c] ELSE tag[c])
<1>1. f.kind = "push" /\ f.clone = c /\ f.tag = 2
  BY DEF Undisturbed, Remembered, Push
<1>2. flying' = flying \union {f}
  OBVIOUS
<1> HIDE DEF f
<1>3. AloneInTheWorld(c)'
  BY <1>1, <1>2 DEF Undisturbed, AloneInTheWorld, Ids
<1>4. AloneInTheClone(c)'
  BY DEF Undisturbed, AloneInTheClone, Ids
<1>5. Remembered(c)'
  BY DEF Undisturbed, Remembered, IInv, RunTypes, Preflight, Ids
<1> QED  BY <1>3, <1>4, <1>5 DEF Undisturbed

LEMMA ClosesAlone == ASSUME IInv, NEW c \in Clones, Undisturbed(c), Closes(c) PROVE Undisturbed(c)'
<1> USE DEF Closes, worldVars, cloneVars
<1>1. AloneInTheWorld(c)' /\ AloneInTheClone(c)'
  BY DEF Undisturbed, AloneInTheWorld, AloneInTheClone, Ids
<1>2. Remembered(c)'
  BY DEF Undisturbed, Remembered, AtSource, IInv, RunTypes, Preflight, Ids
<1> QED  BY <1>1, <1>2 DEF Undisturbed

\* In the second commit, what was replaced were bumps.
LEMMA RestoreAlone == ASSUME IInv, NEW c \in Clones, Undisturbed(c), Restore(c) PROVE Undisturbed(c)'
<1> USE DEF Restore, Go, worldVars
<1>1. AloneInTheWorld(c)'
  BY DEF Undisturbed, AloneInTheWorld, Ids
<1>2. manifest'[c] \in {manifest[c], original[c]}
  <2>1. manifest'[c] = [p \in Packages |-> IF p \in owned[c] /\ manifest[c][p] = "new"
                                          THEN original[c][p] ELSE manifest[c][p]]
    BY DEF IInv, CheckoutTypes
  <2>2. manifest[c] \in [Packages -> Versions] /\ original[c] \in [Packages -> Versions]
    BY DEF IInv, CheckoutTypes, RunTypes
  <2>3. owned[c] \in {{}, Packages}
    BY DEF Undisturbed, Remembered
  <2>4. CASE owned[c] = {} \/ manifest[c] = [p \in Packages |-> "old"]
    BY <2>1, <2>2, <2>4
  <2>5. CASE owned[c] = Packages /\ manifest[c] = Bump
    BY <2>1, <2>2, <2>5 DEF Bump
  <2> QED  BY <2>3, <2>4, <2>5 DEF Undisturbed, AloneInTheClone
<1>3. AloneInTheClone(c)'
  BY <1>2 DEF Undisturbed, AloneInTheClone, Remembered, Ids
<1>4. Remembered(c)'
  BY DEF Undisturbed, Remembered, IInv, RunTypes, Preflight, Ids
<1> QED  BY <1>1, <1>3, <1>4 DEF Undisturbed

LEMMA DiscardAlone == ASSUME IInv, NEW c \in Clones, Undisturbed(c), Discard(c) PROVE Undisturbed(c)'
<1> USE DEF Discard, worldVars, runVars
<1>1. AloneInTheWorld(c)'
  BY DEF Undisturbed, AloneInTheWorld, Ids
<1>2. manifest'[c] = commits[head[c]].version /\ head[c] \in {1, 2} /\ head[c] \in Ids
  BY OneTree DEF IInv, CheckoutTypes
<1>3. 2 \in Ids => commits[2].version = Bump
  BY DEF Undisturbed, AloneInTheWorld, IInv, History
<1>4. AloneInTheClone(c)'
  BY <1>2, <1>3 DEF Undisturbed, AloneInTheClone, AloneInTheWorld, Ids
<1>5. Remembered(c)'
  BY DEF Undisturbed, Remembered, Preflight, Ids
<1> QED  BY <1>1, <1>4, <1>5 DEF Undisturbed

\* Nothing is on its way but what the run sent, and it arrives as it was sent.
LEMMA ArrivesAlone ==
    ASSUME IInv, NEW c \in Clones, Undisturbed(c), NEW f \in flying,
           UploadLands(f) \/ PushLands(f) \/ Lost(f)
    PROVE  Undisturbed(c)'
<1> USE DEF cloneVars, worldVars, runVars
<1>1. /\ UNCHANGED <<commits, cloneVars, pc, original, source, tag, built, target, owned, item, published>>
      /\ flying' = flying \ {f} /\ Ids' = Ids
  BY DEF UploadLands, PushLands, Lost, Ids
<1>2. remoteTag' \in {NoTag, 2}
  BY DEF UploadLands, PushLands, Lost, Undisturbed, AloneInTheWorld
<1>3. CASE UploadLands(f)
  <2>1. /\ f.package \in Packages /\ f.content = 1 /\ registry[f.package] = Absent
        /\ \A p \in Packages \ {f.package} : registry'[p] = registry[p] /\ channel'[p] = channel[p]
        /\ registry'[f.package].content = 1 /\ channel'[f.package]
    BY <1>3 DEF UploadLands, IInv, SentTypes, WorldTypes, Undisturbed, AloneInTheWorld
  <2>2. 2 \notin Ids
    BY <2>1 DEF Undisturbed, AloneInTheWorld, Absent, Visible
  <2>3. AloneInTheWorld(c)'
    BY <1>1, <1>2, <2>1, <2>2 DEF Undisturbed, AloneInTheWorld
  <2> QED  BY <1>1, <2>3 DEF Undisturbed, AloneInTheClone, Remembered
<1>4. CASE PushLands(f) \/ Lost(f)
  <2>1. UNCHANGED <<registry, channel>>
    BY <1>4 DEF PushLands, Lost
  <2>2. AloneInTheWorld(c)'
    BY <1>1, <1>2, <2>1 DEF Undisturbed, AloneInTheWorld
  <2> QED  BY <1>1, <2>2 DEF Undisturbed, AloneInTheClone, Remembered
<1> QED  BY <1>3, <1>4

LEMMA ProcessedAlone ==
    ASSUME IInv, NEW c \in Clones, Undisturbed(c), NEW p \in Packages, Processed(p)
    PROVE  Undisturbed(c)'
<1> USE DEF Processed, cloneVars, runVars
<1>1. /\ \A q \in Packages \ {p} : registry'[q] = registry[q]
      /\ registry'[p].content = registry[p].content /\ registry[p].state = "pending"
  BY DEF IInv, WorldTypes
<1>2. 2 \notin Ids /\ Ids' = Ids
  BY <1>1 DEF Undisturbed, AloneInTheWorld, Visible, Ids
<1>3. registry[p] # Absent
  BY <1>1 DEF Absent
<1>4. AloneInTheWorld(c)'
  BY <1>1, <1>2, <1>3 DEF Undisturbed, AloneInTheWorld
<1> QED  BY <1>2, <1>4 DEF Undisturbed, AloneInTheClone, Remembered

\* Where no run is, one may start, or a developer discard edits.
LEMMA FromIdle ==
    ASSUME NEW c \in Clones, Run(c), pc[c] = "idle"
    PROVE  Start(c) \/ Discard(c)
<1>1. ~(Source(c) \/ CheckClean(c) \/ Fetch(c) \/ References(c)
         \/ QueryRegistry(c) \/ RegistryKnown(c) \/ CheckAgain(c) \/ Replace(c)
         \/ Gate(c) \/ Accept(c) \/ Verify(c) \/ Verified(c) \/ Confirm(c)
         \/ Skip(c) \/ CheckInputs(c) \/ StartUpload(c) \/ Uploaded(c))
  BY DEF Source, CheckClean, Fetch, References, QueryRegistry, RegistryKnown, CheckAgain,
     Replace, Gate, Accept, Verify, Verified, Confirm, Skip, CheckInputs, StartUpload,
     Uploaded, Go
<1>2. ~(BecomesVisible(c) \/ CheckContents(c) \/ CheckChannel(c)
         \/ AllPublished(c) \/ CheckChannels(c) \/ CheckRecord(c) \/ Record(c)
         \/ CommitLands(c)
         \/ Committed(c) \/ TagLands(c) \/ StartPush(c) \/ Pushed(c)
         \/ Fails(c) \/ Crash(c) \/ Closes(c) \/ Restore(c))
  BY DEF BecomesVisible, CheckContents, CheckChannel, AllPublished, CheckChannels,
     CheckRecord, Record, CommitLands, Committed, TagLands, StartPush, Pushed, Fails, Working, Crash,
     Closes, Restore, Go
<1> QED  BY <1>1, <1>2 DEF Run

\* A clone whose runs never began can only throw its own edits away.
LEMMA IdleAlone ==
    ASSUME IInv, Owners, NEW c \in Clones, Undisturbed(c), NEW d \in Clones \ {c}, Run(d),
           run[d] = 0, run'[d] = 0
    PROVE  Undisturbed(c)'
<1>1. pc[d] = "idle"
  BY DEF Owners
<1>2. ~Start(d)
  BY DEF Start, IInv, WorldTypes, RunTypes
<1>3. Discard(d)
  BY <1>1, <1>2, FromIdle
<1>4. /\ UNCHANGED <<commits, remoteTag, registry, channel, flying, branch, head, localTag, pc,
                     original, source, tag, built, target, owned, item, published>>
      /\ manifest'[c] = manifest[c] /\ dirty'[c] = dirty[c] /\ UNCHANGED quiet /\ Ids' = Ids
  BY <1>3 DEF Discard, worldVars, runVars, IInv, CheckoutTypes, Ids
<1> QED  BY <1>4 DEF Undisturbed, AloneInTheWorld, AloneInTheClone, Remembered

LEMMA RunAlone ==
    ASSUME IInv, NEW c \in Clones, Undisturbed(c), Run(c)
    PROVE  Undisturbed(c)'
BY MovesAlone, EndsAlone, StartAlone, SourceAlone, FetchAlone, ReferencesAlone, QueryRegistryAlone,
   ReplaceAlone, GateAlone, StartUploadAlone, CheckRecordAlone, RecordAlone, CommitLandsAlone, CommittedAlone,
   TagLandsAlone, StartPushAlone, ClosesAlone, RestoreAlone, DiscardAlone DEF Run

\* Which steps of a run send something, or learn what is published.
LEMMA RunsSend ==
    ASSUME IInv, NEW c \in Clones, Run(c)
    PROVE  /\ UNCHANGED outside
           /\ Start(c) \/ UNCHANGED run
           /\ UNCHANGED flying \/ StartUpload(c) \/ StartPush(c)
           /\ UNCHANGED published \/ References(c) \/ QueryRegistry(c)
              \/ published' = [published EXCEPT ![c] = {}]
           /\ \A d \in Clones \ {c} : pc'[d] = pc[d]
<1> USE DEF runVars, Go, IInv, RunTypes
<1>1. CASE \/ Start(c) \/ Source(c) \/ CheckClean(c) \/ Fetch(c) \/ References(c)
           \/ QueryRegistry(c) \/ RegistryKnown(c) \/ CheckAgain(c) \/ Replace(c)
           \/ Gate(c) \/ Accept(c) \/ Verify(c) \/ Verified(c) \/ Confirm(c)
  BY <1>1 DEF Start, Source, CheckClean, Fetch, References, QueryRegistry, RegistryKnown,
     CheckAgain, Replace, Gate, Accept, Verify, Verified, Confirm
<1>2. CASE \/ Skip(c) \/ CheckInputs(c) \/ StartUpload(c) \/ Uploaded(c)
           \/ BecomesVisible(c) \/ CheckContents(c) \/ CheckChannel(c)
           \/ AllPublished(c) \/ CheckChannels(c) \/ CheckRecord(c) \/ Record(c)
         \/ CommitLands(c)
  BY <1>2 DEF Skip, CheckInputs, StartUpload, Uploaded, BecomesVisible, CheckContents,
     CheckChannel, AllPublished, CheckChannels, CheckRecord, Record, CommitLands
<1>3. CASE \/ Committed(c) \/ TagLands(c) \/ StartPush(c) \/ Pushed(c)
           \/ Fails(c) \/ Crash(c) \/ Closes(c) \/ Restore(c) \/ Discard(c)
  BY <1>3 DEF Committed, TagLands, StartPush, Pushed, Fails, Crash, Forgets, Closes, Restore,
     Discard
<1> QED  BY <1>1, <1>2, <1>3 DEF Run

LEMMA OwnersStep == IInv /\ Owners /\ Next => Owners'
<1> SUFFICES ASSUME IInv, Owners, Next PROVE Owners'
  OBVIOUS
<1>1. \A p \in Packages : registry[p].state = "visible" => registry'[p].state = "visible"
  BY WorldSurvives
<1>2. \A d \in Clones : run[d] \in Nat /\ published[d] \subseteq Packages
  BY DEF IInv, RunTypes
<1>3. ASSUME NEW c \in Clones, Run(c) PROVE Owners'
  <2>1. CASE Start(c)
    <3>1. /\ run'[c] # 0 /\ UNCHANGED <<flying, published, registry>>
          /\ \A d \in Clones \ {c} : run'[d] = run[d] /\ pc'[d] = pc[d]
      BY <2>1 DEF Start, Go, worldVars, IInv, RunTypes, WorldTypes
    <3> QED  BY <3>1 DEF Owners, IInv, SentTypes
  <2>2. CASE Discard(c)
    BY <2>2 DEF Discard, worldVars, runVars, Owners
  <2>3. CASE pc[c] # "idle" /\ ~Start(c)
    <3>1. UNCHANGED run /\ run[c] # 0
      BY <1>3, <2>3, RunsSend DEF Owners
    <3>2. \A f \in flying' : run'[f.clone] # 0
      <4>1. CASE UNCHANGED flying
        BY <3>1, <4>1 DEF Owners
      <4>2. CASE StartUpload(c)
        BY <3>1, <4>2 DEF Owners, StartUpload, Upload
      <4>3. CASE StartPush(c)
        BY <3>1, <4>3 DEF Owners, StartPush, Push
      <4> QED  BY <1>3, <4>1, <4>2, <4>3, RunsSend
    <3>3. \A d \in Clones : \A p \in published'[d] : registry'[p].state = "visible"
      <4>1. CASE UNCHANGED published
        BY <1>1, <1>2, <4>1 DEF Owners
      <4>2. CASE References(c)
        BY <1>1, <1>2, <4>2 DEF Owners, References, IInv, RunTypes
      <4>3. CASE QueryRegistry(c)
        BY <1>1, <1>2, <4>3 DEF Owners, QueryRegistry, IInv, RunTypes, worldVars
      <4>4. CASE published' = [published EXCEPT ![c] = {}]
        BY <1>1, <1>2, <4>4 DEF Owners, IInv, RunTypes
      <4> QED  BY <1>3, <4>1, <4>2, <4>3, <4>4, RunsSend
    <3>4. \A d \in Clones : run'[d] = 0 => pc'[d] = "idle"
      BY <1>3, <3>1, RunsSend DEF Owners
    <3> QED  BY <3>2, <3>3, <3>4 DEF Owners
  <2> QED  BY <1>3, <2>1, <2>2, <2>3, FromIdle
<1>4. ASSUME UNCHANGED <<run, pc, published>>, flying' \subseteq flying PROVE Owners'
  BY <1>1, <1>2, <1>4 DEF Owners
<1>5. ASSUME NEW f \in flying, UploadLands(f) \/ PushLands(f) \/ Lost(f)
      PROVE  UNCHANGED <<run, pc, published>> /\ flying' \subseteq flying
  BY <1>5 DEF UploadLands, PushLands, Lost, runVars
<1>6. ASSUME NEW p \in Packages, Processed(p)
      PROVE  UNCHANGED <<run, pc, published>> /\ flying' \subseteq flying
  BY <1>6 DEF Processed, runVars
<1>7. ASSUME Others
      PROVE  UNCHANGED <<run, pc, published>> /\ flying' \subseteq flying
  BY <1>7 DEF Others, OthersPush, OthersTag, OthersPublish, MoveChannel, Develop, Edit, Touch,
     Retag, Checkout, runVars
<1> QED  BY <1>3, <1>4, <1>5, <1>6, <1>7 DEF Next

LEMMA LoneStep == IInv /\ LInv /\ [Next]_vars => LInv'
<1> SUFFICES ASSUME IInv, LInv, [Next]_vars PROVE LInv'
  OBVIOUS
<1>1. CASE UNCHANGED vars
  BY <1>1 DEF LInv, Owners, Alone, Undisturbed, AloneInTheWorld, AloneInTheClone, Remembered,
     Ids, vars, worldVars, cloneVars, runVars
<1>2. CASE Next
  <2>1. Owners'
    BY <1>2, OwnersStep DEF LInv
  <2>2. ASSUME NEW c \in Clones, Alone(c)' PROVE Undisturbed(c)'
    <3>1. ~Others
      <4>1. Others => outside' = outside + 1
        BY DEF Others, OthersPush, OthersTag, OthersPublish, MoveChannel, Develop, Edit,
           Touch, Retag, Checkout, Work, Act
      <4> QED  BY <2>2, <4>1 DEF Alone, IInv, WorldTypes
    <3>2. CASE \E d \in Clones : Run(d)
      <4>1. PICK d \in Clones : Run(d)
        BY <3>2
      <4>2. UNCHANGED outside /\ (Start(d) \/ UNCHANGED run)
        BY <4>1, RunsSend
      <4>3. ASSUME Start(d)
            PROVE  run'[d] # 0 /\ \A e \in Clones \ {d} : run'[e] = run[e]
        BY <4>3 DEF Start, IInv, RunTypes, WorldTypes
      <4>4. Undisturbed(c) /\ Owners /\ (d # c => run[d] = 0 /\ run'[d] = 0)
        BY <2>2, <4>2, <4>3 DEF Alone, LInv
      <4> QED  BY <4>1, <4>4, RunAlone, IdleAlone
    <3>3. CASE \E f \in flying : UploadLands(f) \/ PushLands(f) \/ Lost(f)
      <4>1. UNCHANGED <<outside, run>>
        BY <3>3 DEF UploadLands, PushLands, Lost, runVars
      <4>2. Undisturbed(c)
        BY <2>2, <4>1 DEF Alone, LInv
      <4> QED  BY <3>3, <4>2, ArrivesAlone
    <3>4. CASE \E p \in Packages : Processed(p)
      <4>1. UNCHANGED <<outside, run>>
        BY <3>4 DEF Processed, runVars
      <4>2. Undisturbed(c)
        BY <2>2, <4>1 DEF Alone, LInv
      <4> QED  BY <3>4, <4>2, ProcessedAlone
    <3> QED  BY <1>2, <3>1, <3>2, <3>3, <3>4 DEF Next
  <2> QED  BY <2>1, <2>2 DEF LInv
<1> QED  BY <1>1, <1>2

LEMMA LoneInit == Init => LInv
<1> SUFFICES ASSUME Init PROVE LInv
  OBVIOUS
<1>1. Ids = {1}
  <2>1. Len(commits) = 1
    BY DEF Init
  <2> QED  BY <2>1 DEF Ids
<1>2. Owners
  BY DEF Init, Owners
<1>3. ASSUME NEW c \in Clones PROVE Undisturbed(c)
  <2>1. /\ commits[1].past = {1} /\ ~commits[1].release
        /\ commits[1].version = [p \in Packages |-> "old"]
    BY DEF Init, Commit
  <2>2. AloneInTheWorld(c)
    <3>1. /\ \A p \in Packages : registry[p] = Absent
          /\ flying = {} /\ remoteTag = NoTag /\ 2 \notin Ids /\ Ids \in {{1}, {1, 2}}
      BY <1>1 DEF Init
    <3> QED  BY <2>1, <3>1 DEF AloneInTheWorld
  <2>3. AloneInTheClone(c)
    BY <1>1 DEF Init, AloneInTheClone
  <2>4. Remembered(c)
    BY <1>1 DEF Init, Remembered, Preflight
  <2> QED  BY <2>2, <2>3, <2>4 DEF Undisturbed
<1> QED  BY <1>2, <1>3 DEF LInv

\* A run that nobody interfered with finds its clone, the origin and the registry in one
\* of the states that an earlier run of it may have left.
THEOREM NobodyInterferes == Spec => []LInv
<1>1. IInv /\ IInv' /\ LInv /\ [Next]_vars => LInv'
  BY LoneStep
<1> QED  BY <1>1, Invariance, LoneInit, PTL DEF Spec

\* A release that only failed, crashed or was killed is resumed by the next run, wherever
\* it was (release.mjs 112-173, 356-365, 439-458).
THEOREM InterruptedReleasesResume == Spec => []ReleasesResume
<1>1. ASSUME IInv, LInv, NEW c \in Clones, Alone(c)
      PROVE  /\ pc[c] = "fetch" => FetchAccepts(c)
             /\ pc[c] = "registry" /\ item[c] \notin Packages => RegistryAccepts(c)
             /\ pc[c] = "verify" => VerifyAccepts(c)
  <2>1. Undisturbed(c) /\ Owners
    BY <1>1 DEF LInv
  <2>2. /\ source[c] \in Ids /\ main[c] \in Ids /\ remoteMain \in Ids
        /\ localTag[c] \in Ids \union {NoTag} /\ tag[c] \in Ids \union {NoTag}
    BY <1>1 DEF IInv, WorldTypes, CheckoutTypes, ReferenceTypes
  <2>3. ASSUME pc[c] = "fetch" PROVE FetchAccepts(c)
    <3>1. (source[c] = 1 /\ remoteMain = 1) \/ (source[c] = 2 /\ 2 \in Ids)
      <4>1. Ids \in {{1}, {1, 2}} /\ (2 \in Ids => source[c] = 2)
        BY <2>1, <2>3 DEF Undisturbed, AloneInTheWorld, Remembered
      <4> QED  BY <2>2, <4>1
    <3>2. remoteMain \in commits[source[c]].past
      BY <2>1, <2>2, <3>1 DEF Undisturbed, AloneInTheWorld
    <3>3. \/ Ahead(source[c], remoteMain) = {}
          \/ Ahead(source[c], remoteMain) = {2} /\ IsReleaseCommit(source[c], remoteMain)
      BY <2>1, <2>2, <3>1 DEF Undisturbed, AloneInTheWorld, Ahead, IsReleaseCommit
    <3>4. Cardinality({2}) = 1
      BY FS_Singleton
    <3>5. localTag[c] # NoTag => /\ \A p \in Packages : original[c][p] = "new"
                                 /\ localTag[c] = source[c]
      BY <2>1, <2>2, <2>3 DEF Undisturbed, AloneInTheClone, Remembered, Bump, NoTag
    <3> QED  BY <3>2, <3>3, <3>4, <3>5 DEF FetchAccepts
  <2>4. ASSUME pc[c] = "registry", item[c] \notin Packages PROVE RegistryAccepts(c)
    <3>1. item[c] = N + 1
      BY <1>1, <2>4, ReleaseAssumption DEF IInv, RunTypes, Packages
    <3>2. Pending(c) \/ tag[c] # NoTag => 2 \in Ids
      BY <2>1, <2>2 DEF Undisturbed, AloneInTheWorld, Remembered, Pending, Ahead
    <3>3. 2 \in Ids => \A p \in Packages : p \in published[c]
      BY <2>1, <2>4, <3>1, ReleaseAssumption DEF Undisturbed, Remembered, Packages
    <3> QED  BY <1>1, <3>2, <3>3 DEF RegistryAccepts, IInv, RunTypes
  <2>5. ASSUME pc[c] = "verify", item[c] \in published[c]
        PROVE  SameContents(c, item[c]) /\ OnChannel(c, item[c])
    <3>1. item[c] \in Packages /\ registry[item[c]].state = "visible"
      BY <1>1, <2>1, <2>5 DEF Owners, IInv, RunTypes
    <3>2. registry[item[c]] # Absent
      BY <3>1 DEF Absent
    <3>3. registry[item[c]].content = 1 /\ channel[item[c]] /\ built[c] = 1
      BY <2>1, <3>1, <3>2 DEF Undisturbed, AloneInTheWorld, Remembered
    <3>4. registry[item[c]] \in [state : {"absent", "pending", "visible"}, content : Int]
      BY <1>1, <3>1 DEF IInv, WorldTypes
    <3> QED  BY <3>1, <3>3, <3>4 DEF SameContents, OnChannel, Visible
  <2> QED  BY <2>3, <2>4, <2>5 DEF VerifyAccepts
<1>2. IInv /\ LInv => ReleasesResume
  BY <1>1 DEF ReleasesResume, Alone
<1> QED  BY Invariance, NobodyInterferes, <1>2, PTL

=============================================================================
