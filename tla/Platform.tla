------------------------------ MODULE Platform ------------------------------
(***************************************************************************)
(* A delivery platform on a Host: activation/platform.ts with operation.ts, *)
(* plan.ts, loading.ts and catalog/registration.ts.                         *)
(*                                                                         *)
(* An activation captures the selected artifacts of its registrations,     *)
(* loads their modules, takes its turn in the platform's queue, has the     *)
(* Host compile a plan, has the artifacts authorised, and hands the plan    *)
(* over to the Host.  Until the handoff it may be cancelled: by its caller, *)
(* by a new selection or removal of something it touches, or by disposal.  *)
(*                                                                         *)
(* An action is a synchronous section, so between any two of them others    *)
(* may run.  The Host is shared: outsiders change it at any time.  select() *)
(* is a command like the others, but as it changes nothing before its turn  *)
(* it is modelled at its turn.                                              *)
(***************************************************************************)
EXTENDS Integers, FiniteSets, Sequences, Delivery

CONSTANTS
    Names,          \* registration names
    NameOf,         \* the name in an artifact's manifest
    Deps,           \* per artifact and name it depends on, what satisfies it
    Operations,     \* activate() calls
    HasGroup,       \* is the platform placed in a group?
    MaxRevision,    \* bound on the selections of one record
    MaxRecord,      \* bound on the records of one name
    MaxOutside      \* bound on what outsiders do to the Host

ASSUME ArtifactAssumption ==
    /\ NameOf \in [Artifacts -> Names]
    /\ DOMAIN Deps = Artifacts
    /\ \A a \in Artifacts : \A n \in DOMAIN Deps[a] :
         n \in Names /\ \A d \in Deps[a][n] : d \in Artifacts /\ NameOf[d] = n
    /\ None \notin Artifacts \union Operations \union {"disposal"}
    /\ "disposal" \notin Operations

ASSUME BoundAssumption ==
    /\ HasGroup \in BOOLEAN
    /\ MaxRevision \in Nat /\ MaxRecord \in Nat /\ MaxOutside \in Nat

VARIABLES
    status,       \* #state.phase
    registered,   \* names in #registrations
    record,       \* which record of a name is the latest
    revision,     \* its selection revision
    selected,     \* its artifact
    failedAt,     \* the revision whose failure it shows, or 0
    bound,        \* the installation handle it is bound to: who made it
    handle,       \* the Host: the committed handle under a registration's id
    origin,       \* the Host: the artifact it runs, None if an outsider's
    hostRevision, \* host.stateRevision
    quarantined,  \* host.status
    groupGone,    \* has the platform's group been removed?
    outside,      \* what outsiders have done so far
    queue,        \* activations and the disposal waiting for their turn
    executing,    \* #executing
    disposal,     \* how far #startDisposal has got
    release,      \* what #release removes, on which revision of the Host
    op            \* every activate() call

records == <<registered, record, revision, selected, failedAt, bound>>
host    == <<handle, origin, hostRevision, quarantined, groupGone, outside>>
control == <<status, queue, executing, disposal, release>>
vars    == <<records, host, control, op>>

Points == {"free", "called", "loading", "waiting", "ready", "planning",
           "admitting", "admitted", "applying", "applied", "settling", "done"}
Outcomes == {"none", "ok", "error", "aborted"}
Disposals == {"none", "waiting", "queued", "releasing"}

\* An operation: its targets with the records their handles stand for, the
\* selections and removals it captured, what it loaded and had authorised.
Free == [at |-> "free", roots |-> {}, removing |-> {}, record |-> [n \in Names |-> 0],
         plan |-> {}, revision |-> [n \in Names |-> 0],
         artifact |-> [n \in Names |-> None], todo |-> {}, loading |-> None,
         loaded |-> {}, pending |-> {}, drops |-> {}, base |-> 0,
         restarts |-> {}, granted |-> {}, aborted |-> FALSE,
         handed |-> FALSE, took |-> FALSE, outcome |-> "none"]

TypeOK ==
    /\ status \in {"active", "disposing", "disposed"}
    /\ registered \in SUBSET Names
    /\ record \in [Names -> 0..MaxRecord] /\ revision \in [Names -> 0..MaxRevision]
    /\ selected \in [Names -> Artifacts \union {None}]
    /\ failedAt \in [Names -> 0..MaxRevision]
    /\ bound \in [Names -> Operations \union {None}]
    /\ handle \in [Names -> Operations \union {None}]
    /\ origin \in [Names -> Artifacts \union {None}]
    /\ hostRevision \in Nat /\ outside \in 0..MaxOutside
    /\ quarantined \in BOOLEAN /\ groupGone \in BOOLEAN
    /\ queue \in Seq(Operations \union {"disposal"})
    /\ executing \in Operations \union {"disposal", None}
    /\ disposal \in Disposals
    /\ release \in [base : Nat, names : SUBSET Names]
    /\ \A o \in Operations :
         /\ DOMAIN op[o] = DOMAIN Free
         /\ op[o].at \in Points /\ op[o].outcome \in Outcomes
         /\ op[o].plan \subseteq Names /\ op[o].loaded \subseteq Artifacts
         /\ op[o].granted \subseteq Artifacts

Init ==
    /\ status = "active" /\ registered = {}
    /\ record = [n \in Names |-> 0] /\ revision = [n \in Names |-> 0]
    /\ selected = [n \in Names |-> None]
    /\ failedAt = [n \in Names |-> 0]
    /\ bound = [n \in Names |-> None]
    /\ handle = [n \in Names |-> None] /\ origin = [n \in Names |-> None]
    /\ hostRevision = 0 /\ outside = 0
    /\ quarantined = FALSE /\ groupGone = FALSE
    /\ queue = <<>> /\ executing = None /\ disposal = "none"
    /\ release = [base |-> 0, names |-> {}]
    /\ op = [o \in Operations |-> Free]

-----------------------------------------------------------------------------
(* Registrations and plans.                                                *)

\* The installation of a registration, once the Host has committed it.
Installed(n) == n \in registered /\ bound[n] # None /\ handle[n] = bound[n]
Active(n) == IF Installed(n) THEN origin[n] ELSE None
Reuses(n, a) == Active(n) = a
Placed == ~quarantined /\ ~groupGone

\* Is what an operation captured of a registration still selected?
Current(o, n) == /\ n \in registered
                 /\ record[n] = op[o].record[n]
                 /\ revision[n] = op[o].revision[n]
PlanCurrent(o) == \A n \in op[o].plan \union op[o].removing : Current(o, n)

\* The registrations that roots need, by their selected artifacts.
Closed(S, D) == \A n \in S : \A d \in DOMAIN Deps[selected[n]] :
                    d \in registered \ D => d \in S
Selections(R, D) ==
    LET all == {S \in SUBSET registered : R \ D \subseteq S /\ Closed(S, D)}
    IN  {n \in registered : \A S \in all : n \in S}

\* The artifacts that would be active, and whether they fit together.
ActiveNames(N) == {n \in N : Active(n) # None}
Candidate(S, D) ==
    [n \in S \union ActiveNames(registered \ D) |->
        IF n \in S THEN selected[n] ELSE Active(n)]
Sound(c) ==
    /\ \A n \in DOMAIN c : \A d \in DOMAIN Deps[c[n]] :
         d \in DOMAIN c /\ c[d] \in Deps[c[n]][d]
    /\ \A X \in (SUBSET DOMAIN c) \ {{}} :
         \E n \in X : X \intersect DOMAIN Deps[c[n]] = {}
ValidPlan(R, D) == R \intersect D = {} /\ Sound(Candidate(Selections(R, D), D))

\* Operations in #operations, and those that can still be cancelled.
Pending == {o \in Operations : op[o].at \notin {"free", "called", "done"}}
\* Mutant: the handoff does not drop the controller.
LateCancellable == Pending
Cancellable == {o \in Pending : ~op[o].handed}
Touches(o, n) == n \in op[o].plan \union op[o].removing

\* Abort the signals of S; a queued activation leaves the queue.
Aborted(S) == [o \in Operations |->
    IF o \in S \intersect Cancellable
    THEN [op[o] EXCEPT !.aborted = TRUE,
                       !.at = IF @ = "ready" THEN "settling" ELSE @]
    ELSE op[o]]
Without(S) == SelectSeq(queue, LAMBDA c : c \notin S)

\* An activation fails; Settle finds out what to report.
Thrown(o) == [op EXCEPT ![o].at = "settling", ![o].outcome = "error"]

Failed(o, S) == [n \in Names |-> IF n \in S /\ Current(o, n)
                                 THEN op[o].revision[n] ELSE failedAt[n]]

\* It is the turn of a command.
Turn(c) == executing = None /\ queue # <<>> /\ Head(queue) = c
\* Mutant: the drain does not wait for the command that has started.
HastyQueueIdle == queue = <<>>
QueueIdle == executing = None /\ queue = <<>>

-----------------------------------------------------------------------------
(* Commands of the platform's users.                                       *)

\* What gets a record, and what a new revision of the record it has.
Introduced(A) == {NameOf[a] : a \in A} \ registered
Reselected(A) == {n \in registered : \E a \in A : NameOf[a] = n /\ selected[n] # a}

\* select(artifacts) at its turn: new records, or new revisions of old ones.
\* What is under way for a changed registration is superseded.
Select(A) ==
    /\ status = "active" /\ QueueIdle
    /\ \A a, b \in A : NameOf[a] = NameOf[b] => a = b
    /\ LET new == Introduced(A)
           changed == new \union Reselected(A)
           choice(n) == CHOOSE a \in A : NameOf[a] = n
       IN  /\ changed # {}
           /\ \A n \in new : record[n] < MaxRecord
           /\ \A n \in changed \ new : revision[n] < MaxRevision
           /\ registered' = registered \union new
           /\ record' = [n \in Names |-> IF n \in new THEN record[n] + 1 ELSE record[n]]
           /\ revision' = [n \in Names |-> CASE n \in new     -> 1
                                             [] n \in changed \ new -> revision[n] + 1
                                             [] OTHER        -> revision[n]]
           /\ selected' = [n \in Names |->
                 IF n \in changed THEN choice(n) ELSE selected[n]]
           /\ failedAt' = [n \in Names |-> IF n \in changed THEN 0 ELSE failedAt[n]]
           /\ bound' = [n \in Names |-> IF n \in new THEN None ELSE bound[n]]
           /\ op' = Aborted({o \in Operations : \E n \in changed : Touches(o, n)})
           /\ UNCHANGED <<host, control>>

\* activate(R, { remove: D }) is called with handles of live records; the
\* command that captures its plan takes its place in the queue.
Call(o, R, D) ==
    /\ status = "active" /\ executing = None
    /\ op[o].at = "free" /\ R \union D # {} /\ R \union D \subseteq registered
    /\ op' = [op EXCEPT ![o].at = "called", ![o].roots = R, ![o].removing = D,
                 ![o].record = [n \in Names |-> IF n \in R \union D THEN record[n] ELSE 0]]
    /\ queue' = Append(queue, o)
    /\ UNCHANGED <<records, host, status, executing, disposal, release>>

\* The caller's signal aborts.
Cancel(o) ==
    /\ \/ op[o].at = "called"
       \/ o \in Cancellable /\ ~op[o].aborted
    /\ op' = IF op[o].at = "called"
             THEN [op EXCEPT ![o] = [Free EXCEPT !.at = "done", !.outcome = "aborted"]]
             ELSE Aborted({o})
    /\ queue' = Without({o})
    /\ UNCHANGED <<records, host, status, executing, disposal, release>>

\* The records that the caller's handles stand for are still the registered ones.
Resolved(o) == \A n \in op[o].roots \union op[o].removing :
                   n \in registered /\ op[o].record[n] = record[n]

\* #beginActivation: the handles may be stale and the platform closed by now.
Begin(o) ==
    /\ Turn(o) /\ op[o].at = "called"
    /\ queue' = Tail(queue)
    /\ LET R == op[o].roots
           D == op[o].removing
           S == Selections(R, D)
           captured == [op EXCEPT
               ![o].at = "loading", ![o].plan = S, ![o].todo = S,
               ![o].record = [n \in Names |-> IF n \in S \union D THEN record[n] ELSE 0],
               ![o].revision = [n \in Names |-> IF n \in S \union D THEN revision[n] ELSE 0],
               ![o].artifact = [n \in Names |-> IF n \in S THEN selected[n] ELSE None]]
           ended == [op EXCEPT ![o] = [Free EXCEPT !.at = "done", !.outcome = "error"]]
       IN  IF status = "active" /\ Resolved(o)
           THEN IF (R = {} \/ Placed) /\ ValidPlan(R, D)
                THEN op' = captured /\ UNCHANGED failedAt
                ELSE /\ op' = ended
                     /\ failedAt' = [n \in Names |->
                           IF n \in S /\ ~Reuses(n, selected[n])
                           THEN revision[n] ELSE failedAt[n]]
           ELSE op' = ended /\ UNCHANGED failedAt
    /\ UNCHANGED <<registered, record, revision, selected, bound>>
    /\ UNCHANGED <<host, status, executing, disposal, release>>

-----------------------------------------------------------------------------
(* Loading, one selection after the other.                                 *)

LoadNext(o) ==
    /\ op[o].at = "loading"
    /\ \E n \in op[o].todo :
         op' = IF op[o].aborted \/ ~Current(o, n) THEN Thrown(o)
               ELSE IF Reuses(n, op[o].artifact[n])
                    THEN [op EXCEPT ![o].todo = @ \ {n}]
               ELSE IF ~Placed THEN Thrown(o)
               ELSE [op EXCEPT ![o].at = "waiting", ![o].todo = @ \ {n},
                               ![o].loading = op[o].artifact[n]]
    /\ UNCHANGED <<records, host, control>>

LoadSucceeds(o) ==
    /\ op[o].at = "waiting" /\ ~op[o].aborted /\ Placed
    /\ op' = [op EXCEPT ![o].at = "loading", ![o].loading = None,
                        ![o].loaded = @ \union {op[o].loading}]
    /\ UNCHANGED <<records, host, control>>

\* All is loaded: take a place in the queue, unless aborted already.
Ready(o) ==
    /\ op[o].at = "loading" /\ op[o].todo = {}
    /\ IF op[o].aborted
       THEN op' = Thrown(o) /\ UNCHANGED queue
       ELSE op' = [op EXCEPT ![o].at = "ready"] /\ queue' = Append(queue, o)
    /\ UNCHANGED <<records, host, status, executing, disposal, release>>

\* The answer a cancellable activation waits for is "no".
Refused(o) ==
    /\ op[o].at \in {"waiting", "planning", "admitting"}
    /\ op' = Thrown(o)
    /\ executing' = IF executing = o THEN None ELSE executing
    /\ UNCHANGED <<records, host, status, queue, disposal, release>>

\* Mutant: the authoriser keeps its waiter when it is cancelled.
StubbornInterrupted(o) ==
    CASE op[o].at = "waiting"  -> op[o].aborted \/ ~Placed
      [] op[o].at = "planning" -> op[o].aborted
      [] OTHER -> FALSE
\* A waiter leaves when its signal aborts or the destination has changed.
Interrupted(o) ==
    CASE op[o].at = "waiting"   -> op[o].aborted \/ ~Placed
      [] op[o].at = "planning"  -> op[o].aborted \/ hostRevision # op[o].base
      [] op[o].at = "admitting" -> \/ op[o].aborted \/ ~Placed
                                   \/ hostRevision # op[o].base
      [] OTHER -> FALSE
Interrupt(o) == Interrupted(o) /\ Refused(o)

-----------------------------------------------------------------------------
(* #commitActivation.                                                      *)

\* A failure is cleared unless another revision has been selected.
Cleared(o, n) == n \in op[o].plan /\ Current(o, n)
\* remove(): the record forgets what it selected and what it was bound to.
Forgotten(D, of) == [n \in Names |-> IF n \in D THEN None ELSE of[n]]

\* #commitSelections: failures are cleared, removals take effect; waiting is
\* the queue without the command itself.
CommitSelections(o, waiting) ==
    LET D == op[o].removing
        over == {p \in Operations \ {o} : \E n \in D : Touches(p, n)} IN
    /\ registered' = registered \ D
    /\ failedAt' = [n \in Names |->
          IF n \in D \/ Cleared(o, n) THEN 0 ELSE failedAt[n]]
    /\ bound' = Forgotten(D, bound) /\ selected' = Forgotten(D, selected)
    /\ op' = [Aborted(over) EXCEPT ![o].at = "settling", ![o].outcome = "ok"]
    /\ queue' = SelectSeq(waiting, LAMBDA c : c \notin over \intersect Cancellable)
    /\ executing' = None
    /\ UNCHANGED <<record, revision, host, status, disposal, release>>

\* Mutant: the plan is not made again.
LaxStartable(o) ==
    /\ status = "active" /\ ~op[o].aborted
    /\ op[o].roots = {} \/ Placed
    /\ PlanCurrent(o)
\* Everything is checked again at the turn of the activation.
Startable(o) ==
    /\ status = "active" /\ ~op[o].aborted
    /\ op[o].roots = {} \/ Placed
    /\ PlanCurrent(o)
    /\ ValidPlan(op[o].roots, op[o].removing)

Begun(o) == Turn(o) /\ op[o].at = "ready"
\* What has to be installed or updated, and what has to leave.
ToInstall(o) == {n \in op[o].plan : ~Reuses(n, op[o].artifact[n])}
\* Mutant: a removed registration keeps its installation.
NotToRemove(o) == {}
ToRemove(o)  == {n \in op[o].removing : Installed(n)}

ExecuteFails(o) ==
    /\ Begun(o) /\ ~Startable(o)
    /\ op' = Thrown(o) /\ queue' = Tail(queue)
    /\ UNCHANGED <<records, host, status, executing, disposal, release>>

NothingToDo(o) ==
    /\ Begun(o) /\ Startable(o)
    /\ ToInstall(o) = {} /\ ToRemove(o) = {}
    /\ CommitSelections(o, Tail(queue))

\* Stage the change; new installations are bound before they are committed.
\* An artifact that was reused when the modules were loaded is stale now.
Execute(o) ==
    /\ Begun(o) /\ Startable(o)
    /\ ToInstall(o) \union ToRemove(o) # {}
    /\ queue' = Tail(queue)
    /\ LET loaded == {n \in ToInstall(o) : op[o].artifact[n] \in op[o].loaded} IN
       \E staged \in SUBSET loaded :
         /\ bound' = [n \in Names |-> IF n \in staged /\ ~Installed(n) THEN o ELSE bound[n]]
         /\ IF loaded = ToInstall(o) /\ ~quarantined
            THEN /\ staged = loaded
                 /\ op' = [op EXCEPT ![o].at = "planning", ![o].base = hostRevision,
                              ![o].pending = ToInstall(o), ![o].drops = ToRemove(o)]
                 /\ executing' = o
            ELSE op' = Thrown(o) /\ UNCHANGED executing
    /\ UNCHANGED <<registered, record, revision, selected, failedAt>>
    /\ UNCHANGED <<host, status, disposal, release>>

\* The Host has compiled the plan; it may restart other installations.
\* Those of outsiders cannot be authorised.
Planned(o) ==
    /\ op[o].at = "planning" /\ ~Interrupted(o)
    /\ \E R \in SUBSET {n \in Names \ (op[o].pending \union op[o].drops) : Installed(n)} :
         IF \E n \in R : Active(n) = None
         THEN op' = Thrown(o) /\ executing' = None
         ELSE /\ op' = [op EXCEPT ![o].at = "admitting", ![o].restarts = R]
              /\ UNCHANGED executing
    /\ UNCHANGED <<records, host, status, queue, disposal, release>>

\* Mutant: only what the activation itself installs is authorised.
OwnAdmission(o) == {op[o].artifact[n] : n \in op[o].pending}
\* The artifacts the Host will start.
Admission(o) == {op[o].artifact[n] : n \in op[o].pending} \union
                {Active(n) : n \in op[o].restarts}

Admitted(o) ==
    /\ op[o].at = "admitting" /\ ~Interrupted(o)
    /\ op' = [op EXCEPT ![o].at = "admitted", ![o].granted = Admission(o)]
    /\ UNCHANGED <<records, host, control>>

\* operation.handoff(): from here on only the Host decides.
Handoff(o) ==
    /\ op[o].at = "admitted"
    /\ IF PlanCurrent(o) /\ ~op[o].aborted
       THEN /\ op' = [op EXCEPT ![o].at = "applying", ![o].handed = TRUE]
            /\ UNCHANGED executing
       ELSE op' = Thrown(o) /\ executing' = None
    /\ UNCHANGED <<records, host, status, queue, disposal, release>>

\* The Host makes what o asked for its committed state.
Advances(o) ==
    /\ op[o].at = "applying" /\ hostRevision = op[o].base /\ ~quarantined
    /\ handle' = [n \in Names |-> CASE n \in op[o].pending -> bound[n]
                                    [] n \in op[o].drops   -> None
                                    [] OTHER               -> handle[n]]
    /\ origin' = [n \in Names |-> CASE n \in op[o].pending -> op[o].artifact[n]
                                    [] n \in op[o].drops   -> None
                                    [] OTHER               -> origin[n]]
    /\ UNCHANGED <<records, groupGone, outside, control>>

HostCommits(o) ==
    /\ Advances(o)
    /\ hostRevision' = hostRevision + 1
    /\ op' = [op EXCEPT ![o].at = "applied", ![o].took = TRUE]
    /\ UNCHANGED quarantined

\* Publishing fails after the Host has advanced: it quarantines the new state,
\* which costs another revision, and apply() will reject.
HostCommitFails(o) ==
    /\ Advances(o)
    /\ hostRevision' = hostRevision + 2 /\ quarantined' = TRUE
    /\ op' = [op EXCEPT ![o].took = TRUE]

\* The Host may be quarantined, as it is, at the price of a revision.
MayBreak == \/ UNCHANGED <<quarantined, hostRevision>>
            \/ ~quarantined /\ quarantined' = TRUE /\ hostRevision' = hostRevision + 1

\* apply() rejects: the plan is stale, a setup has failed and was undone, or
\* the Host gives up or has given up.  A failed startup costs a revision too,
\* which is left out: nobody else holds a plan for the old one.
HostRefuses(o) ==
    /\ op[o].at = "applying"
    /\ MayBreak
    /\ op' = Thrown(o) /\ executing' = None
    /\ UNCHANGED <<records, handle, origin, groupGone, outside>>
    /\ UNCHANGED <<status, queue, disposal, release>>

Applied(o) == op[o].at = "applied" /\ CommitSelections(o, queue)

\* The end of activate(): an aborted signal is reported before any failure.
Settle(o) ==
    /\ op[o].at = "settling"
    /\ LET aborted == op[o].aborted /\ op[o].outcome # "ok"
           result == IF aborted THEN "aborted" ELSE op[o].outcome
       IN  /\ op' = [op EXCEPT ![o] = [Free EXCEPT !.at = "done", !.outcome = result,
                                          !.handed = op[o].handed, !.took = op[o].took]]
           /\ failedAt' = IF result = "error" THEN Failed(o, ToInstall(o)) ELSE failedAt
    /\ UNCHANGED <<registered, record, revision, selected, bound, host, control>>

-----------------------------------------------------------------------------
(* Disposal.                                                               *)

\* Mutant: disposal does not wait for the activations it cancels.
Impatient == TRUE
Quiet == Pending = {}

\* dispose(): refused while a command is with the Host, else cancel all.
Dispose ==
    /\ status = "active"
    /\ executing = None \/ executing \in Cancellable
    /\ status' = "disposing" /\ disposal' = "waiting"
    /\ op' = Aborted(Pending)
    /\ queue' = Without(Cancellable)
    /\ UNCHANGED <<records, host, executing, release>>

DisposalReady ==
    /\ disposal = "waiting" /\ Quiet
    /\ disposal' = "queued"
    /\ queue' = Append(queue, "disposal")
    /\ UNCHANGED <<records, host, status, executing, release, op>>

ReleaseBegins ==
    /\ disposal = "queued" /\ Turn("disposal")
    /\ queue' = Tail(queue) /\ executing' = "disposal"
    /\ disposal' = "releasing"
    /\ release' = [base |-> hostRevision, names |-> {n \in registered : Installed(n)}]
    /\ UNCHANGED <<records, host, status, op>>

\* The Host commits that the installations are gone.
Removes ==
    /\ release.names # {} /\ hostRevision = release.base /\ ~quarantined
    /\ handle' = [n \in Names |-> IF n \in release.names THEN None ELSE handle[n]]
    /\ origin' = [n \in Names |-> IF n \in release.names THEN None ELSE origin[n]]

\* The installations are gone: forget every registration and close.
ReleaseSucceeds ==
    /\ disposal = "releasing"
    /\ \/ release.names = {} /\ UNCHANGED <<handle, origin, hostRevision>>
       \/ Removes /\ hostRevision' = hostRevision + 1
    /\ status' = "disposed" /\ disposal' = "none" /\ executing' = None
    /\ registered' = {} /\ failedAt' = [n \in Names |-> 0]
    /\ bound' = [n \in Names |-> None] /\ selected' = [n \in Names |-> None]
    /\ release' = [base |-> 0, names |-> {}]
    /\ UNCHANGED <<record, revision, quarantined, groupGone, outside, queue, op>>

\* The Host refuses, or fails after it has committed; the platform is active
\* again, with all its registrations.
ReleaseFails ==
    /\ disposal = "releasing" /\ release.names # {}
    /\ \/ MayBreak /\ UNCHANGED <<handle, origin>>
       \/ Removes /\ hostRevision' = hostRevision + 2 /\ quarantined' = TRUE
    /\ status' = "active" /\ disposal' = "none" /\ executing' = None
    /\ release' = [base |-> 0, names |-> {}]
    /\ UNCHANGED <<records, groupGone, outside, queue, op>>

-----------------------------------------------------------------------------
(* Outsiders: other users of the Host.                                     *)

\* A commit that may remove an installation or replace its plugin.
OutsideCommit ==
    /\ outside < MaxOutside /\ ~quarantined
    /\ outside' = outside + 1 /\ hostRevision' = hostRevision + 1
    /\ \/ UNCHANGED <<handle, origin>>
       \/ \E n \in Names : /\ handle[n] # None
                           /\ origin' = [origin EXCEPT ![n] = None]
                           /\ handle' \in {handle, [handle EXCEPT ![n] = None]}
    /\ UNCHANGED <<records, quarantined, groupGone, control, op>>

\* Only an empty group can be removed.
GroupRemoved ==
    /\ HasGroup /\ ~groupGone /\ ~quarantined
    /\ outside < MaxOutside /\ outside' = outside + 1
    /\ \A n \in Names : handle[n] = None
    /\ groupGone' = TRUE /\ hostRevision' = hostRevision + 1
    /\ UNCHANGED <<records, handle, origin, quarantined, control, op>>

HostQuarantined ==
    /\ outside < MaxOutside /\ ~quarantined
    /\ outside' = outside + 1 /\ quarantined' = TRUE
    /\ hostRevision' = hostRevision + 1
    /\ UNCHANGED <<records, handle, origin, groupGone, control, op>>

-----------------------------------------------------------------------------
\* What goes on without anybody else's doing.
Machine(o) ==
    \/ Begin(o) \/ LoadNext(o) \/ Ready(o) \/ Interrupt(o)
    \/ ExecuteFails(o) \/ NothingToDo(o) \/ Execute(o) \/ Handoff(o)
    \/ HostCommits(o) \/ HostCommitFails(o) \/ HostRefuses(o)
    \/ Applied(o) \/ Settle(o)

Release == DisposalReady \/ ReleaseBegins \/ ReleaseSucceeds \/ ReleaseFails

Next ==
    \/ \E A \in (SUBSET Artifacts) \ {{}} : Select(A)
    \/ \E o \in Operations :
         \/ \E R, D \in SUBSET Names : Call(o, R, D)
         \/ Cancel(o) \/ LoadSucceeds(o) \/ Refused(o) \/ Planned(o) \/ Admitted(o)
         \/ Machine(o)
    \/ Dispose \/ Release
    \/ OutsideCommit \/ GroupRemoved \/ HostQuarantined

Spec == Init /\ [][Next]_vars

\* Promise reactions run and the Host answers; loaders, authorisers and the
\* compilation of plans may hang for ever.
FairSpec == /\ Spec /\ WF_vars(Release)
            /\ \A o \in Operations : WF_vars(Machine(o))
-----------------------------------------------------------------------------
(* Safety.                                                                 *)

\* What was handed over to the Host is still selected: no selection and no
\* removal takes effect while the Host works on it (platform.ts 463, 645).
HandedOffIsCurrent ==
    \A o \in Operations : op[o].at = "applying" => PlanCurrent(o)

\* The Host starts nothing that was not authorised by the activation that
\* started it, restarted bystanders included (platform.ts 426-462).
NothingUnauthorised ==
    \A o \in Operations :
        op[o].at = "applying" /\ hostRevision = op[o].base =>
            /\ \A n \in op[o].pending : op[o].artifact[n] \in op[o].granted
            /\ \A n \in op[o].restarts : origin[n] \in op[o].granted

\* Every committed installation belongs to a live registration, which can
\* update and remove it (platform.ts 411-421, 546-559).
NoOrphanInstallation ==
    \A n \in Names : handle[n] # None => n \in registered /\ bound[n] = handle[n]

\* What the Host gets is what is selected and was authorised.
HandoffIsSound == HandedOffIsCurrent /\ NothingUnauthorised

\* A registration shows only failures of what is selected now, although
\* they arrive late (registration.ts 214-219, platform.ts 320-327).
FailureIsCurrent == \A n \in Names : failedAt[n] \in {0, revision[n]}

\* activate() tells the truth: what it reports as done has taken hold, what it
\* reports as cancelled has not and was never with the Host, and a failure that
\* took hold all the same is that of a Host quarantined for good.
OutcomeIsTrue ==
    \A o \in Operations : op[o].at = "done" =>
        /\ op[o].took => \/ op[o].outcome = "ok"
                         \/ op[o].outcome = "error" /\ quarantined
        /\ op[o].handed => op[o].outcome # "aborted" /\ (op[o].outcome = "ok" => op[o].took)

\* What users are told of their activations and registrations is the truth.
ReportsAreTrue == OutcomeIsTrue /\ FailureIsCurrent

\* A disposed platform leaves nothing on the Host and nothing under way.
DisposedIsClean ==
    status = "disposed" =>
        /\ Pending = {} /\ executing = None
        /\ \A n \in Names : handle[n] = None

\* What a platform has on the Host is its own and can be removed.
InstallationsAreOwned == NoOrphanInstallation /\ DisposedIsClean

-----------------------------------------------------------------------------
\* What the Host commits for a platform fits together: every dependency of an
\* active artifact is active in a compatible version (platform.ts 387-388).
CommitsAreSound ==
    [][\A o \in Operations : op[o].at = "applying" /\ ~op[o].took /\ op'[o].took =>
         Sound([n \in {m \in registered : bound[m] # None /\ handle'[m] = bound[m]
                                          /\ origin'[m] # None} |-> origin'[n]])]_vars

\* Cancelling works against any hanging callback: the activation ends.
CancelledEnds ==
    \A o \in Operations : op[o].aborted ~> op[o].at = "done"

\* dispose() ends whatever loaders, authorisers and planning do.
DisposalEnds == status = "disposing" ~> status # "disposing"

\* Nobody has to wait for a loader, an authoriser or a plan that hangs.
PlatformSettles == CancelledEnds /\ DisposalEnds
=============================================================================
