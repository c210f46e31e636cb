------------------------------ MODULE Lifetime ------------------------------
(***************************************************************************)
(* The ownership tree of one plugin instance: lifetime/lifetime.ts.        *)
(*                                                                         *)
(* A scope owns records (cleanups, interrupts, publications, background    *)
(* tasks, acquisitions) and child scopes.  Disposing a scope closes it,    *)
(* withdraws what it published, cancels its work, joins everything that    *)
(* runs below it and only then releases its resources, newest first.       *)
(*                                                                         *)
(* JavaScript runs one synchronous section at a time, so an action is a    *)
(* whole synchronous section.  The one section that is split is dispose():*)
(* the cancellation broadcast runs abort listeners, and a listener may     *)
(* call back into the tree.  `calls` is the stack of dispose() calls that  *)
(* have reserved their joins but not broadcast yet; while it is not empty  *)
(* only synchronous calls run, no promise reaction and no timer.           *)
(***************************************************************************)
EXTENDS Integers, FiniteSets, Sequences

CONSTANTS
    Scopes,         \* every scope the tree may come to have
    Root,           \* the scope of the instance itself
    Parent,         \* the owner of each scope but the root
    Subtree,        \* a scope with everything below it
    Records,        \* slots for what scopes may own
    HasDeadline,    \* is shutdownTimeoutMilliseconds configured?
    MaxForeground   \* bound on the concurrent borrows of one scope

ASSUME TreeAssumption ==
    /\ Root \in Scopes
    /\ Parent \in [Scopes \ {Root} -> Scopes]
    /\ Subtree \in [Scopes -> SUBSET Scopes]
    /\ Subtree[Root] = Scopes
    /\ \A s, t \in Scopes :
         t \in Subtree[s] <=> \/ t = s
                              \/ t # Root /\ Parent[t] \in Subtree[s]
    /\ \A s, t \in Scopes : t \in Subtree[s] => Subtree[t] \subseteq Subtree[s]
    /\ \A s, t \in Scopes : t \in Subtree[s] /\ s \in Subtree[t] => s = t
    /\ \A s \in Scopes : \A t \in Subtree[s] \ {s} :
         \E c \in Scopes \ {Root} : Parent[c] = s /\ t \in Subtree[c]

ASSUME BoundAssumption ==
    /\ HasDeadline \in BOOLEAN
    /\ MaxForeground \in Nat

VARIABLES
    phase,       \* #phase; a scope not created yet is "absent"
    aborted,     \* the scopes whose signal has aborted
    startup,     \* is the startup signal still attached to the root?
    published,   \* the visibility shared by the whole tree
    foreground,  \* #foreground
    owner,       \* the scope that owns a record
    kind,        \* what a record is
    duty,        \* what is still owed for a record
    joining,     \* acquisitions whose join has not settled (#acquisitions)
    id,          \* the number a cleanup or publication got from #sequence
    sequence,    \* #sequence
    visible,     \* publications that consumers see
    calls,       \* dispose() calls that still have to broadcast cancellation
    work,        \* where #finishShutdown of a scope is
    completion,  \* what the callers of dispose() wait for
    errors,      \* has #finishShutdown collected an error?
    children,    \* the child scopes whose work it joins
    awaiting,    \* the records it waits for or still has to release
    reported     \* scopes that called releaseFailed

treeVars   == <<phase, aborted, startup, published, foreground>>
recordVars == <<owner, kind, duty, joining, id, sequence, visible>>
shutVars   == <<work, completion, errors, children, awaiting>>
vars == <<treeVars, recordVars, calls, shutVars, reported>>

Phases == {"absent", "active", "sealed", "disposing", "disposed", "quarantined"}
Kinds == {"none", "cleanup", "interrupt", "publication", "task", "acquisition"}
\* "deferred" has a handle that may release it early, "owned" one that may
\* forget it, "adopted" neither.
Held == {"deferred", "owned", "adopted"}
Duties == Held \union
    {"free", "working", "staged", "releasing", "settled", "failed"}
Stages == {"none", "queued", "interrupts", "tasks", "acquisitions",
           "children", "cleanups", "retained", "fulfilled", "rejected"}
Completions == {"none", "pending", "resolved", "rejected"}

TypeOK ==
    /\ phase \in [Scopes -> Phases]
    /\ aborted \in SUBSET Scopes
    /\ startup \in BOOLEAN
    /\ published \in BOOLEAN
    /\ foreground \in [Scopes -> Nat]
    /\ owner \in [Records -> Scopes]
    /\ kind \in [Records -> Kinds]
    /\ duty \in [Records -> Duties]
    /\ joining \in SUBSET Records
    /\ id \in [Records -> Nat]
    /\ sequence \in [Scopes -> Nat]
    /\ visible \in SUBSET Records
    /\ calls \in Seq(Scopes)
    /\ work \in [Scopes -> Stages]
    /\ completion \in [Scopes -> Completions]
    /\ errors \in [Scopes -> BOOLEAN]
    /\ children \in [Scopes -> SUBSET Scopes]
    /\ awaiting \in [Scopes -> SUBSET Records]
    /\ reported \in SUBSET Scopes

Init ==
    /\ phase = [s \in Scopes |-> IF s = Root THEN "active" ELSE "absent"]
    /\ aborted = {}
    /\ startup = TRUE
    /\ published = FALSE
    /\ foreground = [s \in Scopes |-> 0]
    /\ owner = [r \in Records |-> Root]
    /\ kind = [r \in Records |-> "none"]
    /\ duty = [r \in Records |-> "free"]
    /\ joining = {}
    /\ id = [r \in Records |-> 0]
    /\ sequence = [s \in Scopes |-> 0]
    /\ visible = {}
    /\ calls = <<>>
    /\ work = [s \in Scopes |-> "none"]
    /\ completion = [s \in Scopes |-> "none"]
    /\ errors = [s \in Scopes |-> FALSE]
    /\ children = [s \in Scopes |-> {}]
    /\ awaiting = [s \in Scopes |-> {}]
    /\ reported = {}

-----------------------------------------------------------------------------
(* What a scope owns and what it may still accept.                         *)

\* A disposed scope has left the child set of its parent.
Attached(s) == phase[s] \notin {"absent", "disposed"}
Tree(s) == {t \in Subtree[s] :
              \A u \in Subtree[s] \ {s} : t \in Subtree[u] => Attached(u)}
\* Mutant: a child whose deadline passed is not waited for.
PunctualChildren(s) == {c \in Scopes \ {Root} : Parent[c] = s /\ phase[c] = "disposing"}
Children(s) == {c \in Scopes \ {Root} : Parent[c] = s /\ Attached(c)}

Owed(s, k) == {r \in Records : /\ owner[r] = s
                               /\ kind[r] = k
                               /\ duty[r] \notin {"free", "settled"}}
Cleanups(s)     == Owed(s, "cleanup")
Interrupts(s)   == Owed(s, "interrupt")
Publications(s) == Owed(s, "publication")
Tasks(s)        == Owed(s, "task")
Acquisitions(s) == {r \in joining : owner[r] = s}

\* Mutant: a sealed scope still accepts work.
LaxAcceptsWork(s) == phase[s] \in {"active", "sealed"} /\ s \notin aborted
AcceptsWork(s) == phase[s] = "active" /\ s \notin aborted
Busy(s) == \E t \in Tree(s) : foreground[t] > 0
Settled(s) == work[s] \in {"fulfilled", "rejected"}
\* #timeoutFailure: the deadline passed and the work still runs.
TimedOut(s) == completion[s] = "rejected" /\ ~Settled(s)

\* block(): the phases once every active scope of a tree is sealed.
Blocked(s) == [t \in Scopes |->
                 IF t \in Tree(s) /\ phase[t] = "active" THEN "sealed" ELSE phase[t]]

\* releaseFailed, called for the scope s.  Before it returns, the Host that
\* installed it has quarantined itself and blocked the whole instance.
\* That makes it impossible, among others, to publish a tree in which the
\* withdrawal of a child's publication has already failed.
Report(s) ==
    /\ reported' = reported \union {s}
    /\ phase' = Blocked(Root)

\* Promise reactions and timers run only when no synchronous call does.
Idle == calls = <<>>

-----------------------------------------------------------------------------
(* Admission: every call requires an active scope with a live signal.      *)

\* child(label)
Child(s, c) ==
    /\ AcceptsWork(s)
    /\ c # Root /\ Parent[c] = s /\ phase[c] = "absent"
    /\ phase' = [phase EXCEPT ![c] = "active"]
    /\ UNCHANGED <<aborted, startup, published, foreground>>
    /\ UNCHANGED <<recordVars, calls, shutVars, reported>>

Register(s, r, k, d) ==
    /\ duty[r] = "free"
    /\ owner' = [owner EXCEPT ![r] = s]
    /\ kind' = [kind EXCEPT ![r] = k]
    /\ duty' = [duty EXCEPT ![r] = d]

\* #own: the record takes the next number of its scope.
Number(s, r) ==
    /\ sequence' = [sequence EXCEPT ![s] = @ + 1]
    /\ id' = [id EXCEPT ![r] = sequence[s] + 1]

\* use, own and defer differ in what the caller may do with the record later.
Own(s, r) ==
    /\ AcceptsWork(s)
    /\ \E d \in Held : Register(s, r, "cleanup", d)
    /\ Number(s, r)
    /\ UNCHANGED <<joining, visible>>
    /\ UNCHANGED <<treeVars, calls, shutVars, reported>>

Interrupt(s, r) ==
    /\ AcceptsWork(s)
    /\ Register(s, r, "interrupt", "owned")
    /\ Number(s, r)
    /\ UNCHANGED <<joining, visible>>
    /\ UNCHANGED <<treeVars, calls, shutVars, reported>>

Spawn(s, r) ==
    /\ AcceptsWork(s)
    /\ Register(s, r, "task", "working")
    /\ UNCHANGED <<joining, id, sequence, visible>>
    /\ UNCHANGED <<treeVars, calls, shutVars, reported>>

Acquire(s, r) ==
    /\ AcceptsWork(s)
    /\ Register(s, r, "acquisition", "working")
    /\ joining' = joining \union {r}
    /\ UNCHANGED <<id, sequence, visible>>
    /\ UNCHANGED <<treeVars, calls, shutVars, reported>>

\* A publication staged in a published tree becomes visible at once.
Stage(s, r) ==
    /\ AcceptsWork(s)
    /\ Register(s, r, "publication", "staged")
    /\ Number(s, r)
    /\ visible' = IF published THEN visible \union {r} ELSE visible
    /\ UNCHANGED joining
    /\ UNCHANGED <<treeVars, calls, shutVars, reported>>

Borrow(s) ==
    /\ AcceptsWork(s)
    /\ foreground[s] < MaxForeground
    /\ foreground' = [foreground EXCEPT ![s] = @ + 1]
    /\ UNCHANGED <<phase, aborted, startup, published>>
    /\ UNCHANGED <<recordVars, calls, shutVars, reported>>

Return(s) ==
    /\ Idle /\ foreground[s] > 0
    /\ foreground' = [foreground EXCEPT ![s] = @ - 1]
    /\ UNCHANGED <<phase, aborted, startup, published>>
    /\ UNCHANGED <<recordVars, calls, shutVars, reported>>

-----------------------------------------------------------------------------
(* What happens to a record on its own.                                    *)

\* CleanupRecord.dispose through the handle that defer returned.
ReleaseEarly(r) ==
    /\ duty[r] = "deferred"
    /\ duty' = [duty EXCEPT ![r] = "releasing"]
    /\ UNCHANGED <<owner, kind, joining, id, sequence, visible>>
    /\ UNCHANGED <<treeVars, calls, shutVars, reported>>

\* CleanupRecord.forget: the callback will never run.
Forget(r) ==
    /\ duty[r] = "owned"
    /\ duty' = [duty EXCEPT ![r] = "settled"]
    /\ UNCHANGED <<owner, kind, joining, id, sequence, visible>>
    /\ UNCHANGED <<treeVars, calls, shutVars, reported>>

\* Mutant: the acquisition never detaches.
NeverLeave(r) == joining' = joining

\* The join of an acquisition settles (a no-op for any other record).
Leave(r) == joining' = joining \ {r}

\* The callback succeeded.  An aborted acquisition that was waiting for this
\* release now rejects and leaves the set of acquisitions.
ReleaseDone(r) ==
    /\ Idle /\ duty[r] = "releasing"
    /\ duty' = [duty EXCEPT ![r] = "settled"]
    /\ Leave(r)
    /\ UNCHANGED <<owner, kind, id, sequence, visible>>
    /\ UNCHANGED <<treeVars, calls, shutVars, reported>>

\* The callback failed: the record stays with its owner and is not retried.
ReleaseFails(r) ==
    /\ Idle /\ duty[r] = "releasing"
    /\ duty' = [duty EXCEPT ![r] = "failed"]
    /\ Leave(r)
    /\ Report(owner[r])
    /\ UNCHANGED <<aborted, startup, published, foreground>>
    /\ UNCHANGED <<owner, kind, id, sequence, visible>>
    /\ UNCHANGED <<calls, shutVars>>

TaskSettles(r) ==
    /\ Idle /\ kind[r] = "task" /\ duty[r] = "working"
    /\ duty' = [duty EXCEPT ![r] = "settled"]
    /\ UNCHANGED <<owner, kind, joining, id, sequence, visible>>
    /\ UNCHANGED <<treeVars, calls, shutVars, reported>>

\* The factory returned a resource.  It is adopted even by a closed scope; an
\* aborted one starts to release it and stays joined until that has ended.
AcquireResolves(r) ==
    /\ Idle /\ kind[r] = "acquisition" /\ duty[r] = "working"
    /\ kind' = [kind EXCEPT ![r] = "cleanup"]
    /\ Number(owner[r], r)
    /\ IF owner[r] \in aborted
       THEN /\ duty' = [duty EXCEPT ![r] = "releasing"]
            /\ UNCHANGED joining
       ELSE /\ duty' = [duty EXCEPT ![r] = "adopted"]
            /\ Leave(r)
    /\ UNCHANGED <<owner, visible>>
    /\ UNCHANGED <<treeVars, calls, shutVars, reported>>

AcquireRejects(r) ==
    /\ Idle /\ kind[r] = "acquisition" /\ duty[r] = "working"
    /\ duty' = [duty EXCEPT ![r] = "settled"]
    /\ Leave(r)
    /\ UNCHANGED <<owner, kind, id, sequence, visible>>
    /\ UNCHANGED <<treeVars, calls, shutVars, reported>>

\* A publication is disposed by its own handle and detaches.
Detach(r) ==
    /\ duty[r] = "staged"
    /\ duty' = [duty EXCEPT ![r] = "settled"]
    /\ visible' = visible \ {r}
    /\ UNCHANGED <<owner, kind, joining, id, sequence>>
    /\ UNCHANGED <<treeVars, calls, shutVars, reported>>

-----------------------------------------------------------------------------
(* The root: publication, the startup signal and closing.                  *)

\* Instance.publish: detach the startup signal, then publish the tree.
Publish ==
    /\ Idle /\ AcceptsWork(Root)
    /\ startup' = FALSE
    /\ published' = TRUE
    /\ visible' = IF published THEN visible
                  ELSE visible \union UNION {Publications(t) : t \in Tree(Root)}
    /\ UNCHANGED <<phase, aborted, foreground>>
    /\ UNCHANGED <<owner, kind, duty, joining, id, sequence>>
    /\ UNCHANGED <<calls, shutVars, reported>>

\* A sibling instance failed to start: close the tree and cancel its work.
StartupAborts ==
    /\ Idle /\ startup /\ Root \notin aborted
    /\ phase' = Blocked(Root)
    /\ aborted' = aborted \union Tree(Root)
    /\ UNCHANGED <<startup, published, foreground>>
    /\ UNCHANGED <<recordVars, calls, shutVars, reported>>

\* seal() refuses a busy tree; quarantine calls block(), which does not.
Seal ==
    /\ phase[Root] = "active"
    /\ phase' = Blocked(Root)
    /\ UNCHANGED <<aborted, startup, published, foreground>>
    /\ UNCHANGED <<recordVars, calls, shutVars, reported>>

\* The scopes of a tree without a join, and what they have published.
Entering(s) == {t \in Tree(s) : completion[t] = "none"}
Withdrawn(s) == UNION {Publications(t) : t \in Entering(s)}

\* dispose() up to the broadcast: every scope of the tree that has no join yet
\* gets one, then their publications are withdrawn; those in bad fail.
Dispose(s) ==
    /\ phase[s] \in {"active", "sealed"}
    /\ ~Busy(s)
    /\ startup' = IF Root \in Entering(s) THEN FALSE ELSE startup
    /\ work' = [t \in Scopes |-> IF t \in Entering(s) THEN "queued" ELSE work[t]]
    /\ completion' = [t \in Scopes |->
                        IF t \in Entering(s) THEN "pending" ELSE completion[t]]
    /\ \E bad \in SUBSET Withdrawn(s) :
         /\ duty' = [r \in Records |->
                       CASE r \in bad                -> "failed"
                         [] r \in Withdrawn(s) \ bad -> "settled"
                         [] OTHER                    -> duty[r]]
         /\ reported' = reported \union {owner[r] : r \in bad}
         /\ phase' = [t \in Scopes |->
                        IF t \in Entering(s) THEN "disposing"
                        ELSE Blocked(IF bad = {} THEN s ELSE Root)[t]]
    /\ visible' = visible \ Withdrawn(s)
    /\ calls' = <<s>> \o calls
    /\ UNCHANGED <<aborted, published, foreground>>
    /\ UNCHANGED <<owner, kind, joining, id, sequence>>
    /\ UNCHANGED <<errors, children, awaiting>>

\* The innermost dispose() call broadcasts cancellation and returns.
Broadcast ==
    /\ calls # <<>>
    /\ aborted' = aborted \union Tree(Head(calls))
    /\ calls' = Tail(calls)
    /\ UNCHANGED <<phase, startup, published, foreground>>
    /\ UNCHANGED <<recordVars, shutVars, reported>>

-----------------------------------------------------------------------------
(* #finishShutdown, one action per await.                                  *)

At(s, stage) == Idle /\ work[s] = stage
\* Mutant: failures of withdrawals and interrupts are dropped.
IgnoredFailed(R) == FALSE
Failed(R) == \E r \in R : duty[r] = "failed"
\* Mutant: the oldest first.
Oldest(R) == {r \in R : \A q \in R : id[r] <= id[q]}
Newest(R) == {r \in R : \A q \in R : id[q] <= id[r]}

\* Collect withdrawal failures, capture the children, start every interrupt.
FinishBegins(s) ==
    /\ At(s, "queued")
    /\ work' = [work EXCEPT ![s] = "interrupts"]
    /\ errors' = [errors EXCEPT ![s] = Failed(Publications(s))]
    /\ children' = [children EXCEPT ![s] = Children(s)]
    /\ awaiting' = [awaiting EXCEPT ![s] = Interrupts(s)]
    /\ duty' = [r \in Records |->
                  IF r \in Interrupts(s) /\ duty[r] \in Held
                  THEN "releasing" ELSE duty[r]]
    /\ UNCHANGED <<owner, kind, joining, id, sequence, visible>>
    /\ UNCHANGED <<treeVars, calls, completion, reported>>

InterruptsEnd(s) ==
    /\ At(s, "interrupts")
    /\ \A r \in awaiting[s] : duty[r] # "releasing"
    /\ work' = [work EXCEPT ![s] = "tasks"]
    /\ errors' = [errors EXCEPT ![s] = @ \/ Failed(awaiting[s])]
    /\ awaiting' = [awaiting EXCEPT ![s] = Tasks(s)]
    /\ UNCHANGED <<treeVars, recordVars, calls, completion, children, reported>>

TasksEnd(s) ==
    /\ At(s, "tasks")
    /\ \A r \in awaiting[s] : duty[r] # "working"
    /\ work' = [work EXCEPT ![s] = "acquisitions"]
    /\ awaiting' = [awaiting EXCEPT ![s] = Acquisitions(s)]
    /\ UNCHANGED <<treeVars, recordVars, calls, completion, errors, children, reported>>

AcquisitionsEnd(s) ==
    /\ At(s, "acquisitions")
    /\ awaiting[s] \intersect joining = {}
    /\ work' = [work EXCEPT ![s] = "children"]
    /\ awaiting' = [awaiting EXCEPT ![s] = {}]
    /\ UNCHANGED <<treeVars, recordVars, calls, completion, errors, children, reported>>

\* A child whose work failed may still use what this scope owns.
ChildrenEnd(s) ==
    /\ At(s, "children")
    /\ \A c \in children[s] : Settled(c)
    /\ IF \A c \in children[s] : work[c] = "fulfilled"
       THEN /\ work' = [work EXCEPT ![s] = "cleanups"]
            /\ awaiting' = [awaiting EXCEPT ![s] = Cleanups(s)]
            /\ UNCHANGED errors
       ELSE /\ work' = [work EXCEPT ![s] = "retained"]
            /\ errors' = [errors EXCEPT ![s] = TRUE]
            /\ UNCHANGED awaiting
    /\ UNCHANGED <<treeVars, recordVars, calls, completion, children, reported>>

\* The loop over the cleanups, newest first: start one, or take its outcome.
CleanupStarts(s) ==
    /\ At(s, "cleanups")
    /\ \E r \in Newest(awaiting[s]) :
         /\ duty[r] \in Held
         /\ duty' = [duty EXCEPT ![r] = "releasing"]
    /\ UNCHANGED <<owner, kind, joining, id, sequence, visible>>
    /\ UNCHANGED <<treeVars, calls, shutVars, reported>>

CleanupEnds(s) ==
    /\ At(s, "cleanups")
    /\ \E r \in Newest(awaiting[s]) :
         /\ duty[r] \in {"settled", "failed"}
         /\ awaiting' = [awaiting EXCEPT ![s] = @ \ {r}]
         /\ errors' = [errors EXCEPT ![s] = @ \/ duty[r] = "failed"]
    /\ UNCHANGED <<treeVars, recordVars, calls, work, completion, children, reported>>

\* A deadline that passed has settled the completion already.
Answer(s) == CASE completion[s] # "pending" -> completion[s]
               [] errors[s]                 -> "rejected"
               [] OTHER                     -> "resolved"

Finish(s) ==
    /\ \/ At(s, "cleanups") /\ awaiting[s] = {}
       \/ At(s, "retained")
    /\ work' = [work EXCEPT ![s] = IF errors[s] THEN "rejected" ELSE "fulfilled"]
    /\ phase' = [phase EXCEPT ![s] = IF errors[s] THEN "quarantined" ELSE "disposed"]
    /\ completion' = [completion EXCEPT ![s] = Answer(s)]
    /\ UNCHANGED <<aborted, startup, published, foreground>>
    /\ UNCHANGED <<recordVars, calls, errors, children, awaiting, reported>>

\* Every scope that shuts down has its own timer until its work is over.
Expires(s) == HasDeadline /\ completion[s] = "pending"

\* The deadline of one scope ends the wait of its callers, not its work.
Deadline(s) ==
    /\ Idle /\ Expires(s)
    /\ phase' = [Blocked(Root) EXCEPT ![s] = "quarantined"]
    /\ completion' = [completion EXCEPT ![s] = "rejected"]
    /\ reported' = reported \union {s}
    /\ UNCHANGED <<aborted, startup, published, foreground>>
    /\ UNCHANGED <<recordVars, calls, work, errors, children, awaiting>>

-----------------------------------------------------------------------------
Admit(s) ==
    \/ \E c \in Scopes : Child(s, c)
    \/ \E r \in Records : \/ Own(s, r)
                          \/ Interrupt(s, r)
                          \/ Spawn(s, r)
                          \/ Acquire(s, r)
                          \/ Stage(s, r)
    \/ Borrow(s)

\* What callbacks of the plugin do: each settles on its own.
Callback(r) ==
    \/ ReleaseDone(r) \/ ReleaseFails(r)
    \/ TaskSettles(r)
    \/ AcquireResolves(r) \/ AcquireRejects(r)

FinishStep(s) ==
    \/ FinishBegins(s) \/ InterruptsEnd(s) \/ TasksEnd(s) \/ AcquisitionsEnd(s)
    \/ ChildrenEnd(s) \/ CleanupStarts(s) \/ CleanupEnds(s) \/ Finish(s)

Next ==
    \/ \E s \in Scopes : Admit(s) \/ Return(s) \/ Dispose(s)
                         \/ FinishStep(s) \/ Deadline(s)
    \/ \E r \in Records : ReleaseEarly(r) \/ Forget(r) \/ Detach(r) \/ Callback(r)
    \/ Publish \/ StartupAborts \/ Seal \/ Broadcast

Spec == Init /\ [][Next]_vars
-----------------------------------------------------------------------------
(* Safety.                                                                 *)

\* A scope that reports "disposed" is really gone: no record below it is
\* still owed (a failed release, a running task, a half-done acquisition) and
\* every scope below it is disposed too (lifetime.ts 683-689 decides this
\* from what earlier awaits collected).
DisposedIsEmpty ==
    \A s \in Scopes : phase[s] = "disposed" =>
        /\ \A r \in Records : owner[r] \in Subtree[s] =>
              duty[r] \in {"free", "settled"} /\ r \notin joining
        /\ \A t \in Subtree[s] : phase[t] \in {"absent", "disposed"}

\* While a scope releases its resources nothing below it runs: no task, no
\* acquisition, no interrupt, no borrow, no child that is not disposed; those
\* may use what the scope owns (lifetime.ts 662-674).
ReleaseAfterQuiescence ==
    \A s \in Scopes : work[s] = "cleanups" =>
        /\ \A t \in Subtree[s] \ {s} : phase[t] \in {"absent", "disposed"}
        /\ Tasks(s) = {} /\ Acquisitions(s) = {}
        /\ \A r \in Interrupts(s) : duty[r] = "failed"
        /\ \A t \in Subtree[s] : foreground[t] = 0

\* The release loop goes strictly backwards and its snapshot misses nothing:
\* a cleanup it no longer waits for is newer than every one it still has to
\* run and is over, or failed for good (lifetime.ts 675-681).
ReleaseIsLifo ==
    \A s \in Scopes : work[s] = "cleanups" =>
        /\ awaiting[s] \subseteq {r \in Records : kind[r] = "cleanup" /\ owner[r] = s}
        /\ \A q \in Cleanups(s) \ awaiting[s] :
              /\ duty[q] = "failed"
              /\ \A r \in awaiting[s] : id[r] < id[q]

\* A failure is never lost: no scope above the owner of a failed release can
\* finish its shutdown successfully (lifetime.ts 659-694).
FailureEscalates ==
    \A r \in Records : duty[r] = "failed" =>
        \A s \in Scopes : owner[r] \in Subtree[s] =>
            work[s] # "fulfilled" /\ completion[s] # "resolved"

\* Joins are reserved for the whole tree before anything reenters: once a
\* scope shuts down every live scope below it has a join its parent can wait
\* for, and no shutdown work starts before cancellation reached the scope
\* (lifetime.ts 603-618, and 663 which reads child.#shutdownWork).
JoinsReserved ==
    \A s \in Scopes : completion[s] # "none" =>
        /\ \A t \in Subtree[s] : Attached(t) => completion[t] # "none"
        /\ work[s] # "queued" => \A t \in Subtree[s] : Attached(t) => t \in aborted

\* The callers of dispose() and the phase tell the same story, and nobody is
\* quarantined silently: some scope at or below it called releaseFailed, which
\* is how the Host hears of it (lifetime.ts 635-656, 683-689).
VerdictIsTrue ==
    \A s \in Scopes :
        /\ completion[s] = "resolved" => phase[s] = "disposed"
        /\ phase[s] = "quarantined" <=> work[s] = "rejected" \/ TimedOut(s)
        /\ phase[s] = "quarantined" => reported \intersect Subtree[s] # {}

\* What shutdown reports is the truth: "disposed" means empty, success means no
\* failure anywhere below, quarantine has been reported.
HonestShutdown == DisposedIsEmpty /\ FailureEscalates /\ VerdictIsTrue

\* A borrow keeps the scope and everything above it from being disposed
\* (lifetime.ts 562-566, 598-602).
BorrowKeepsOpen ==
    \A t \in Scopes : foreground[t] > 0 =>
        \A s \in Scopes : t \in Subtree[s] => completion[s] = "none"

\* Consumers never see a publication of a scope that is shutting down, nor of
\* a tree that was never published (lifetime.ts 524-540, 580-588, 612).
NothingVisibleAfterWithdrawal ==
    \A r \in visible : /\ published
                       /\ kind[r] = "publication" /\ duty[r] = "staged"
                       /\ completion[owner[r]] = "none"

-----------------------------------------------------------------------------
(* Action properties.                                                      *)

\* A failed release is never retried, forgotten or given away, and a settled
\* record never comes back (lifetime.ts 130-167).
FailedIsForever ==
    [][\A r \in Records :
         /\ duty[r] = "failed" => duty'[r] = "failed" /\ owner'[r] = owner[r]
         /\ duty[r] = "settled" => duty'[r] = "settled"]_vars

\* The last word: a disposed scope stays disposed, a scope that closed never
\* accepts work again, and a settled completion never changes even when the
\* work of a scope that timed out ends well later.
ShutdownIsOneWay ==
    [][\A s \in Scopes :
         /\ phase[s] = "disposed" => phase'[s] = "disposed"
         /\ phase[s] \in Phases \ {"absent", "active"} =>
              phase'[s] \notin {"absent", "active"}
         /\ phase[s] = "quarantined" => phase'[s] \in {"quarantined", "disposed"}
         /\ completion[s] \in {"resolved", "rejected"} =>
              completion'[s] = completion[s]]_vars

-----------------------------------------------------------------------------
(* Liveness.  Promise reactions run on their own; timers fire.  What the    *)
(* plugin's callbacks do is assumed only where a property says so.         *)

Machine == /\ WF_vars(Broadcast)
           /\ \A s \in Scopes : WF_vars(FinishStep(s)) /\ WF_vars(Deadline(s))
FairSpec == Spec /\ Machine

\* With a deadline the callers of dispose() get an answer whatever the
\* callbacks do (lifetime.ts 635-645).
CallersAreAnswered ==
    \A s \in Scopes : completion[s] = "pending" ~> completion[s] # "pending"

\* Callbacks end once their work is cancelled or their release has begun.
Cooperative ==
    \A r \in Records :
        WF_vars(Callback(r) /\ (duty[r] = "releasing" \/ owner[r] \in aborted))

\* When callbacks end, shutdown ends, and without a failure below it a scope
\* is disposed, also when its deadline passed first (lifetime.ts 658-700).
ShutdownEnds ==
    Cooperative => \A s \in Scopes :
        completion[s] # "none" ~>
            /\ Settled(s)
            /\ \/ phase[s] = "disposed"
               \/ \E r \in Records : owner[r] \in Subtree[s] /\ duty[r] = "failed"

\* Nobody waits for a shutdown for ever.
ShutdownSettles == CallersAreAnswered /\ ShutdownEnds
=============================================================================
