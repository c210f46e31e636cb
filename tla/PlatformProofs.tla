--------------------------- MODULE PlatformProofs ---------------------------
(***************************************************************************)
(* Proofs about Platform and about Loading, for any names, artifacts,      *)
(* operations, callers and bounds.                                         *)
(*                                                                         *)
(* None of its properties is inductive: what an activation found out before *)
(* an await is true afterwards only because no other command runs while it *)
(* executes, and because whatever the Host changes has another revision.   *)
(* That Platform implements Deliveries rests on both of its invariants.    *)
(***************************************************************************)
EXTENDS PlatformDeliveries, LoadingInvariant, TLAPS

OpRecords == [at : Points, roots : SUBSET Names, removing : SUBSET Names,
              record : [Names -> Nat], plan : SUBSET Names, revision : [Names -> Nat],
              artifact : [Names -> Artifacts \union {None}], todo : SUBSET Names,
              loading : Artifacts \union {None}, loaded : SUBSET (Artifacts \union {None}),
              pending : SUBSET Names, drops : SUBSET Names, base : Nat,
              restarts : SUBSET Names, granted : SUBSET (Artifacts \union {None}),
              aborted : BOOLEAN, handed : BOOLEAN, took : BOOLEAN, outcome : Outcomes]

Types ==
    /\ registered \in SUBSET Names
    /\ record \in [Names -> Nat] /\ revision \in [Names -> Nat] /\ failedAt \in [Names -> Nat]
    /\ selected \in [Names -> Artifacts \union {None}]
    /\ bound \in [Names -> Operations \union {None}]
    /\ handle \in [Names -> Operations \union {None}]
    /\ origin \in [Names -> Artifacts \union {None}]
    /\ hostRevision \in Nat /\ executing \in Operations \union {"disposal", None}
    /\ op \in [Operations -> OpRecords]

\* The points at which an activation is the command that executes.
Holding == {"planning", "admitting", "admitted", "applying", "applied"}
Unfinished(at) == at \notin {"free", "called", "done"}

\* One command executes, and the disposal begins when all have ended.
Roles ==
    /\ \A o \in Operations : op[o].at \in Holding <=> executing = o
    /\ executing = "disposal" <=> disposal = "releasing"
    /\ disposal # "none" <=> status = "disposing"
    /\ disposal \in {"queued", "releasing"} \/ status = "disposed" =>
         \A o \in Operations : ~Unfinished(op[o].at)

\* What an operation says of itself.
Honest(r) ==
    /\ r.outcome # "none" => r.at \in {"settling", "done"}
    /\ r.at = "settling" => r.outcome # "aborted"
    /\ r.handed => r.at \in {"applying", "applied", "settling", "done"}
    /\ r.handed /\ r.at # "done" => ~r.aborted
    /\ r.at \in {"applying", "applied"} => r.handed
    /\ r.took => r.handed /\ r.at \in {"applying", "applied", "settling", "done"}
    /\ r.took /\ r.at \in {"settling", "done"} => r.outcome \in {"ok", "error"}
    /\ r.at = "applied" => r.took
    /\ r.handed /\ r.outcome = "ok" => r.took
    /\ r.handed /\ r.at = "done" => r.outcome # "aborted"
Honesty == \A o \in Operations : Honest(op[o])

\* What an operation has found out and still relies on.
Fit(r) ==
    /\ r.plan \intersect r.removing = {} /\ (r.at = "free" => r.plan = {})
    /\ r.at \in Holding => r.pending \subseteq r.plan /\ r.base <= hostRevision
    /\ r.at \in Holding /\ r.at # "applied" =>
         \A n \in r.removing : handle[n] # None => n \in r.drops
    /\ r.at = "applied" => \A n \in r.removing : handle[n] = None
    /\ r.at = "applying" /\ r.took => r.base < hostRevision
    /\ r.at = "applying" =>
         \A n \in r.plan \union r.removing :
            n \in registered /\ record[n] = r.record[n] /\ revision[n] = r.revision[n]
    /\ r.at = "admitting" /\ hostRevision = r.base => \A n \in r.restarts : Installed(n)
    /\ r.at \in {"admitted", "applying"} /\ hostRevision = r.base =>
         /\ \A n \in r.pending : r.artifact[n] \in r.granted
         /\ \A n \in r.restarts : origin[n] \in r.granted
Fitness == \A o \in Operations : Fit(op[o])

\* What a disposal has still to release, and what it leaves.
Emptying ==
    /\ disposal = "releasing" => \A n \in Names : handle[n] # None => n \in release.names
    /\ status = "disposed" => \A n \in Names : handle[n] = None

IInv == Types /\ Roles /\ Honesty /\ Fitness /\ Emptying
        /\ NoOrphanInstallation /\ FailureIsCurrent

-----------------------------------------------------------------------------
LEMMA NamesApart ==
    /\ "disposal" \notin Operations /\ None \notin Operations /\ None # "disposal"
    /\ None \notin Artifacts /\ NameOf \in [Artifacts -> Names]
BY ArtifactAssumption

LEMMA FreeFacts == Free \in OpRecords /\ Honest(Free) /\ Free.at = "free"
                   /\ Free.plan = {} /\ Free.removing = {}
<1>1. Free \in OpRecords
  BY NamesApart DEF Free, OpRecords, Points, Outcomes
<1> QED BY <1>1 DEF Free, Honest

LEMMA InitInvariant == Init => IInv
<1> SUFFICES ASSUME Init PROVE IInv
  OBVIOUS
<1>1. Types
  BY FreeFacts, NamesApart DEF Init, Types
<1>2. Roles
  BY FreeFacts, NamesApart DEF Init, Roles, Holding, Unfinished
<1>3. Honesty
  BY FreeFacts DEF Init, Honesty
<1>4. Fitness
  BY FreeFacts DEF Init, Fitness, Fit, Holding
<1>5. Emptying /\ NoOrphanInstallation /\ FailureIsCurrent
  BY DEF Init, Emptying, NoOrphanInstallation, FailureIsCurrent
<1> QED BY <1>1, <1>2, <1>3, <1>4, <1>5 DEF IInv

\* Nothing has to fit of an operation that does not execute, but its plan.
LEMMA FitAtRest ==
    ASSUME NEW r, r.at \notin Holding, r.at # "free", r.plan \intersect r.removing = {}
    PROVE  Fit(r)
BY DEF Fit, Holding

\* One operation takes a step; records, installations and disposal stay.
LEMMA OpStep ==
    ASSUME IInv, NEW o \in Operations,
           op' \in [Operations -> OpRecords], \A p \in Operations \ {o} : op'[p] = op[p],
           Honest(op'[o]), Fit(op'[o]),
           op'[o].at \in {"free", "called", "done"} \/ Unfinished(op[o].at) \/ status = "active",
           op'[o].at \in Holding => executing = o,
           executing' = IF executing = o /\ op'[o].at \notin Holding THEN None ELSE executing,
           failedAt' \in [Names -> Nat], FailureIsCurrent',
           hostRevision' \in {hostRevision, hostRevision + 1},
           UNCHANGED <<registered, record, revision, selected, bound, handle, origin,
                       disposal, status, release>>
    PROVE  IInv'
<1>1. Types'
  BY DEF IInv, Types
<1>2. Roles'
  <2>1. ASSUME NEW p \in Operations PROVE op'[p].at \in Holding <=> executing' = p
    BY NamesApart DEF IInv, Roles
  <2>2. executing' = "disposal" <=> disposal' = "releasing"
    BY NamesApart DEF IInv, Roles
  <2>3. ASSUME disposal' \in {"queued", "releasing"} \/ status' = "disposed",
               NEW p \in Operations
        PROVE  ~Unfinished(op'[p].at)
    <3>1. \A q \in Operations : ~Unfinished(op[q].at)
      BY <2>3 DEF IInv, Roles
    <3>2. status # "active"
      BY <2>3 DEF IInv, Roles
    <3>3. op'[p].at \in {"free", "called", "done"}
      BY <3>1, <3>2 DEF Unfinished
    <3> QED BY <3>3 DEF Unfinished
  <2>4. disposal' # "none" <=> status' = "disposing"
    BY DEF IInv, Roles
  <2> QED BY <2>1, <2>2, <2>3, <2>4 DEF Roles
<1>3. Honesty'
  <2>1. ASSUME NEW p \in Operations PROVE Honest(op'[p])
    BY DEF IInv, Honesty
  <2> QED BY <2>1 DEF Honesty, Honest
<1>4. Fitness'
  <2>1. ASSUME NEW p \in Operations PROVE Fit(op[p])'
    <3>1. Fit(op'[p]) /\ op'[p].base \in Nat /\ hostRevision \in Nat
      BY DEF IInv, Fitness, Types, OpRecords
    <3>2. CASE hostRevision' = hostRevision
      BY <3>1, <3>2 DEF Fit, Installed
    <3>3. CASE hostRevision' = hostRevision + 1
      <4>1. op'[p].at \in Holding => /\ op'[p].base <= hostRevision'
                                     /\ hostRevision' # op'[p].base
        BY <3>1, <3>3 DEF Fit
      <4> QED BY <3>1, <4>1 DEF Fit, Installed, Holding
    <3> QED BY <3>2, <3>3
  <2> QED BY <2>1 DEF Fitness
<1>5. Emptying' /\ NoOrphanInstallation'
  BY DEF IInv, Emptying, NoOrphanInstallation
<1> QED BY <1>1, <1>2, <1>3, <1>4, <1>5 DEF IInv

-----------------------------------------------------------------------------
(* Steps before the Host is asked.                                         *)

\* The field of an operation that is looked at.
LEMMA OpType == ASSUME IInv, NEW o \in Operations PROVE op[o] \in OpRecords
BY DEF IInv, Types

\* An activation that has not been handed over may fail.
LEMMA ThrownFacts ==
    ASSUME IInv, NEW o \in Operations
    PROVE  /\ Thrown(o) \in [Operations -> OpRecords]
           /\ \A p \in Operations \ {o} : Thrown(o)[p] = op[p]
           /\ Thrown(o)[o].at = "settling" /\ Thrown(o)[o].outcome = "error"
           /\ Thrown(o)[o].plan = op[o].plan /\ Thrown(o)[o].removing = op[o].removing
           /\ Thrown(o)[o].aborted = op[o].aborted /\ Thrown(o)[o].handed = op[o].handed
           /\ Thrown(o)[o].took = op[o].took
<1>1. op \in [Operations -> OpRecords]
  BY DEF IInv, Types
<1>2. op[o] \in OpRecords
  BY <1>1
<1> DEFINE new == [op[o] EXCEPT !.at = "settling", !.outcome = "error"]
<1>3. new \in OpRecords /\ new.at = "settling" /\ new.outcome = "error"
      /\ new.plan = op[o].plan /\ new.removing = op[o].removing
      /\ new.aborted = op[o].aborted /\ new.handed = op[o].handed /\ new.took = op[o].took
  BY <1>2 DEF OpRecords, Points, Outcomes
<1>4. Thrown(o) = [op EXCEPT ![o] = new]
  BY <1>1, <1>2 DEF Thrown
<1> HIDE DEF new
<1> QED BY <1>1, <1>3, <1>4

LEMMA ThrownStep ==
    ASSUME IInv, NEW o \in Operations, op' = Thrown(o),
           Unfinished(op[o].at), op[o].at # "applied", op[o].at # "settling",
           executing' = IF executing = o THEN None ELSE executing,
           hostRevision' \in {hostRevision, hostRevision + 1},
           UNCHANGED <<records, handle, origin, disposal, status, release>>
    PROVE  IInv'
<1>1. /\ op' \in [Operations -> OpRecords] /\ \A p \in Operations \ {o} : op'[p] = op[p]
      /\ op'[o].at = "settling" /\ op'[o].outcome = "error"
      /\ op'[o].plan = op[o].plan /\ op'[o].removing = op[o].removing
      /\ op'[o].aborted = op[o].aborted /\ op'[o].handed = op[o].handed
      /\ op'[o].took = op[o].took
  BY ThrownFacts
<1>2. Honest(op[o]) /\ Fit(op[o])
  BY DEF IInv, Honesty, Fitness
<1>3. Honest(op'[o])
  BY <1>1, <1>2 DEF Honest, Unfinished
<1>4. Fit(op'[o]) /\ op'[o].at \notin Holding
  <2>1. op[o].plan \intersect op[o].removing = {}
    BY <1>2 DEF Fit
  <2> QED BY <1>1, <2>1, FitAtRest DEF Holding
<1>5. failedAt' \in [Names -> Nat] /\ FailureIsCurrent'
  BY DEF IInv, Types, FailureIsCurrent, records
<1> QED BY <1>1, <1>3, <1>4, <1>5, OpStep DEF records

\* Failures, wherever they are noticed.
LEMMA RefusedStep ==
    ASSUME IInv, NEW o \in Operations, Refused(o)
    PROVE  IInv'
<1>1. Unfinished(op[o].at) /\ op[o].at # "applied" /\ op[o].at # "settling"
  BY DEF Refused, Unfinished
<1> QED BY <1>1, ThrownStep DEF Refused, host

LEMMA ExecuteFailsStep ==
    ASSUME IInv, NEW o \in Operations, ExecuteFails(o)
    PROVE  IInv'
<1>1. op[o].at = "ready" /\ executing = None
  BY DEF ExecuteFails, Begun, Turn
<1>2. executing # o
  BY <1>1, NamesApart
<1> QED BY <1>1, <1>2, ThrownStep DEF ExecuteFails, Unfinished, host

LEMMA HostRefusesStep ==
    ASSUME IInv, NEW o \in Operations, HostRefuses(o)
    PROVE  IInv'
<1>1. op[o].at = "applying"
  BY DEF HostRefuses
<1>2. executing = o
  BY <1>1 DEF IInv, Roles, Holding
<1> QED BY <1>1, <1>2, ThrownStep DEF HostRefuses, MayBreak, Unfinished

\* Steps by which an operation goes on and nothing else changes.
LEMMA QuietStep ==
    ASSUME IInv, NEW o \in Operations, NEW new \in OpRecords, op' = [op EXCEPT ![o] = new],
           Honest(new), Fit(new),
           new.at \in {"free", "called", "done"} \/ Unfinished(op[o].at) \/ status = "active",
           new.at \in Holding <=> op[o].at \in Holding,
           UNCHANGED <<records, handle, origin, hostRevision, disposal, status, release, executing>>
    PROVE  IInv'
<1>1. op' \in [Operations -> OpRecords] /\ op'[o] = new
      /\ \A p \in Operations \ {o} : op'[p] = op[p]
  BY DEF IInv, Types
<1>2. op'[o].at \in Holding <=> executing = o
  BY <1>1 DEF IInv, Roles
<1>3. failedAt' \in [Names -> Nat] /\ FailureIsCurrent'
  BY DEF IInv, Types, FailureIsCurrent, records
<1> QED BY <1>1, <1>2, <1>3, OpStep DEF records

LEMMA CallStep ==
    ASSUME IInv, NEW o \in Operations, NEW R \in SUBSET Names, NEW D \in SUBSET Names,
           Call(o, R, D)
    PROVE  IInv'
<1> DEFINE captured == [n \in Names |-> IF n \in R \union D THEN record[n] ELSE 0]
           new == [op[o] EXCEPT !.at = "called", !.roots = R, !.removing = D,
                                !.record = captured]
<1>1. op[o].at = "free" /\ op' = [op EXCEPT ![o] = new]
      /\ UNCHANGED <<records, handle, origin, hostRevision, disposal, status, release, executing>>
  BY DEF Call, host
<1>2. captured \in [Names -> Nat]
  BY DEF IInv, Types
<1> HIDE DEF captured
<1>3. op[o] \in OpRecords /\ Honest(op[o]) /\ op[o].plan = {}
  BY <1>1, OpType DEF IInv, Honesty, Fitness, Fit
<1>4. new \in OpRecords /\ new.at = "called" /\ new.plan = op[o].plan
      /\ new.outcome = op[o].outcome /\ new.handed = op[o].handed /\ new.took = op[o].took
      /\ new.removing = D
  BY <1>2, <1>3 DEF OpRecords, Points
<1> HIDE DEF new
<1>5. Honest(new)
  BY <1>1, <1>3, <1>4 DEF Honest
<1>6. Fit(new)
  BY <1>3, <1>4, FitAtRest DEF Holding
<1> QED BY <1>1, <1>4, <1>5, <1>6, QuietStep DEF Unfinished, Holding

\* What a plan starts, it does not remove.
LEMMA SelectionsStay ==
    ASSUME NEW R, NEW D, R \subseteq registered
    PROVE  Selections(R, D) \intersect D = {} /\ Selections(R, D) \subseteq registered
<1> DEFINE all == {S \in SUBSET registered : R \ D \subseteq S /\ Closed(S, D)}
<1>1. Selections(R, D) = {n \in registered : \A S \in all : n \in S}
  BY DEF Selections
<1>2. registered \ D \in all
  BY DEF Closed
<1> HIDE DEF all
<1> QED BY <1>1, <1>2

LEMMA BeginStep ==
    ASSUME IInv, NEW o \in Operations, Begin(o)
    PROVE  IInv'
<1> DEFINE R == op[o].roots
           D == op[o].removing
           S == Selections(R, D)
           captured == [op[o] EXCEPT
               !.at = "loading", !.plan = S, !.todo = S,
               !.record = [n \in Names |-> IF n \in S \union D THEN record[n] ELSE 0],
               !.revision = [n \in Names |-> IF n \in S \union D THEN revision[n] ELSE 0],
               !.artifact = [n \in Names |-> IF n \in S THEN selected[n] ELSE None]]
           ended == [Free EXCEPT !.at = "done", !.outcome = "error"]
<1>1. op[o].at = "called" /\ executing = None
      /\ UNCHANGED <<registered, record, revision, selected, bound, handle, origin,
                     hostRevision, disposal, status, release, executing>>
  BY DEF Begin, Turn, host
<1>2. op[o] \in OpRecords /\ Honest(op[o]) /\ op \in [Operations -> OpRecords]
  BY DEF IInv, Honesty, Types
<1>3. ended \in OpRecords /\ ended.at = "done" /\ ended.outcome = "error" /\ ~ended.handed
      /\ ~ended.took /\ ended.plan = {}
  BY FreeFacts DEF Free, OpRecords, Points, Outcomes
<1>4. \/ op' = [op EXCEPT ![o] = ended] /\ failedAt' = failedAt
      \/ op' = [op EXCEPT ![o] = ended]
         /\ failedAt' = [n \in Names |-> IF n \in S /\ ~Reuses(n, selected[n])
                                         THEN revision[n] ELSE failedAt[n]]
      \/ op' = [op EXCEPT ![o] = captured] /\ failedAt' = failedAt
         /\ status = "active" /\ Resolved(o)
  BY DEF Begin
<1>5. failedAt' \in [Names -> Nat] /\ FailureIsCurrent'
  BY <1>1, <1>4 DEF IInv, Types, FailureIsCurrent
<1>6. CASE op' = [op EXCEPT ![o] = ended]
  <2> HIDE DEF ended
  <2>1. op' \in [Operations -> OpRecords] /\ op'[o] = ended
      /\ \A p \in Operations \ {o} : op'[p] = op[p]
    BY <1>2, <1>3, <1>6
  <2>2. Honest(ended) /\ ended.at \notin Holding
    BY <1>3 DEF Honest, Holding
  <2>3. Fit(ended)
    BY <1>3, <2>2, FitAtRest
  <2>4. executing # o
    BY <1>1, NamesApart
  <2> QED BY <1>1, <1>3, <1>5, <2>1, <2>2, <2>3, <2>4, OpStep
<1>7. CASE op' = [op EXCEPT ![o] = captured] /\ failedAt' = failedAt
           /\ status = "active" /\ Resolved(o)
  <2>1. R \subseteq registered
    BY <1>7 DEF Resolved
  <2>2. S \intersect D = {} /\ S \subseteq Names
    BY <2>1, SelectionsStay DEF IInv, Types
  <2>3. captured \in OpRecords /\ captured.at = "loading" /\ captured.plan = S
        /\ captured.removing = D /\ captured.outcome = op[o].outcome
        /\ captured.handed = op[o].handed /\ captured.took = op[o].took
    <3> HIDE DEF S
    <3>1. [n \in Names |-> IF n \in S \union D THEN record[n] ELSE 0] \in [Names -> Nat]
      BY DEF IInv, Types
    <3>2. [n \in Names |-> IF n \in S \union D THEN revision[n] ELSE 0] \in [Names -> Nat]
      BY DEF IInv, Types
    <3>3. [n \in Names |-> IF n \in S THEN selected[n] ELSE None]
             \in [Names -> Artifacts \union {None}]
      BY DEF IInv, Types
    <3> QED BY <1>2, <2>2, <3>1, <3>2, <3>3 DEF OpRecords, Points
  <2> HIDE DEF captured, S
  <2>4. op' \in [Operations -> OpRecords] /\ op'[o] = captured
      /\ \A p \in Operations \ {o} : op'[p] = op[p]
    BY <1>2, <1>7, <2>3
  <2>5. Honest(captured)
    BY <1>1, <1>2, <2>3 DEF Honest
  <2>6. Fit(captured) /\ captured.at \notin Holding
    BY <2>2, <2>3, FitAtRest DEF Holding
  <2>7. executing # o
    BY <1>1, NamesApart
  <2> QED BY <1>1, <1>5, <1>7, <2>4, <2>5, <2>6, <2>7, OpStep
<1> QED BY <1>4, <1>6, <1>7

LEMMA LoadNextStep ==
    ASSUME IInv, NEW o \in Operations, LoadNext(o)
    PROVE  IInv'
<1>1. op[o].at = "loading"
      /\ UNCHANGED <<records, handle, origin, hostRevision, disposal, status, release, executing>>
  BY DEF LoadNext, host, control
<1>2. op[o] \in OpRecords /\ Honest(op[o]) /\ Fit(op[o])
  BY DEF IInv, Types, Honesty, Fitness
<1>3. executing # o
  BY <1>1 DEF IInv, Roles, Holding
<1>4. PICK n \in op[o].todo :
        \/ op' = Thrown(o)
        \/ op' = [op EXCEPT ![o] = [op[o] EXCEPT !.todo = op[o].todo \ {n}]]
        \/ op' = [op EXCEPT ![o] = [op[o] EXCEPT !.at = "waiting", !.todo = op[o].todo \ {n},
                                                 !.loading = op[o].artifact[n]]]
  BY DEF LoadNext
<1>5. CASE op' = Thrown(o)
  BY <1>1, <1>3, <1>5, ThrownStep DEF Unfinished
<1>6. ASSUME NEW new, op' = [op EXCEPT ![o] = new], new \in OpRecords,
             new.at \in {"loading", "waiting"}, new.plan = op[o].plan,
             new.removing = op[o].removing, new.handed = op[o].handed, new.took = op[o].took,
             new.outcome = op[o].outcome
      PROVE  IInv'
  <2>1. Honest(new)
    BY <1>1, <1>2, <1>6 DEF Honest
  <2>2. Fit(new) /\ new.at \notin Holding
    BY <1>2, <1>6, FitAtRest DEF Holding, Fit
  <2> QED BY <1>1, <1>6, <2>1, <2>2, QuietStep DEF Unfinished, Holding
<1>7. CASE op' = [op EXCEPT ![o] = [op[o] EXCEPT !.todo = op[o].todo \ {n}]]
  <2> DEFINE new == [op[o] EXCEPT !.todo = op[o].todo \ {n}]
  <2>1. new \in OpRecords /\ new.at = "loading" /\ new.plan = op[o].plan
        /\ new.removing = op[o].removing /\ new.handed = op[o].handed /\ new.took = op[o].took
        /\ new.outcome = op[o].outcome
    BY <1>1, <1>2 DEF OpRecords
  <2> HIDE DEF new
  <2> QED BY <1>6, <1>7, <2>1 DEF new
<1>8. CASE op' = [op EXCEPT ![o] = [op[o] EXCEPT !.at = "waiting", !.todo = op[o].todo \ {n},
                                                !.loading = op[o].artifact[n]]]
  <2> DEFINE new == [op[o] EXCEPT !.at = "waiting", !.todo = op[o].todo \ {n},
                                  !.loading = op[o].artifact[n]]
  <2>1. op[o].artifact[n] \in Artifacts \union {None}
    BY <1>2 DEF OpRecords
  <2>2. new \in OpRecords /\ new.at = "waiting" /\ new.plan = op[o].plan
        /\ new.removing = op[o].removing /\ new.handed = op[o].handed /\ new.took = op[o].took
        /\ new.outcome = op[o].outcome
    BY <1>1, <1>2, <2>1 DEF OpRecords, Points
  <2> HIDE DEF new
  <2> QED BY <1>6, <1>8, <2>2 DEF new
<1> QED BY <1>4, <1>5, <1>7, <1>8

LEMMA LoadSucceedsStep ==
    ASSUME IInv, NEW o \in Operations, LoadSucceeds(o)
    PROVE  IInv'
<1> DEFINE new == [op[o] EXCEPT !.at = "loading", !.loading = None,
                                !.loaded = op[o].loaded \union {op[o].loading}]
<1>1. op[o].at = "waiting" /\ op' = [op EXCEPT ![o] = new]
      /\ UNCHANGED <<records, handle, origin, hostRevision, disposal, status, release, executing>>
  BY DEF LoadSucceeds, host, control
<1>2. op[o] \in OpRecords /\ Honest(op[o]) /\ Fit(op[o])
  BY DEF IInv, Types, Honesty, Fitness
<1>3. new \in OpRecords /\ new.at = "loading" /\ new.plan = op[o].plan
      /\ new.removing = op[o].removing /\ new.handed = op[o].handed /\ new.took = op[o].took
      /\ new.outcome = op[o].outcome
  BY <1>2 DEF OpRecords, Points
<1> HIDE DEF new
<1>4. Honest(new)
  BY <1>1, <1>2, <1>3 DEF Honest
<1>5. Fit(new)
  BY <1>2, <1>3, FitAtRest DEF Holding, Fit
<1> QED BY <1>1, <1>3, <1>4, <1>5, QuietStep DEF Unfinished, Holding

LEMMA ReadyStep ==
    ASSUME IInv, NEW o \in Operations, Ready(o)
    PROVE  IInv'
<1> DEFINE new == [op[o] EXCEPT !.at = "ready"]
<1>1. op[o].at = "loading" /\ (op' = Thrown(o) \/ op' = [op EXCEPT ![o] = new])
      /\ UNCHANGED <<records, handle, origin, hostRevision, disposal, status, release, executing>>
  BY DEF Ready, host
<1>2. op[o] \in OpRecords /\ Honest(op[o]) /\ Fit(op[o])
  BY DEF IInv, Types, Honesty, Fitness
<1>3. new \in OpRecords /\ new.at = "ready" /\ new.plan = op[o].plan
      /\ new.removing = op[o].removing /\ new.handed = op[o].handed /\ new.took = op[o].took
      /\ new.outcome = op[o].outcome
  BY <1>2 DEF OpRecords, Points
<1>4. executing # o
  BY <1>1 DEF IInv, Roles, Holding
<1> HIDE DEF new
<1>5. Honest(new)
  BY <1>1, <1>2, <1>3 DEF Honest
<1>6. Fit(new)
  BY <1>2, <1>3, FitAtRest DEF Holding, Fit
<1>7. CASE op' = Thrown(o)
  BY <1>1, <1>4, <1>7, ThrownStep DEF Unfinished
<1>8. CASE op' = [op EXCEPT ![o] = new]
  BY <1>1, <1>3, <1>5, <1>6, <1>8, QuietStep DEF Unfinished, Holding
<1> QED BY <1>1, <1>7, <1>8

-----------------------------------------------------------------------------
(* Steps of the command that executes.                                     *)

LEMMA PlannedStep ==
    ASSUME IInv, NEW o \in Operations, Planned(o)
    PROVE  IInv'
<1>1. op[o].at = "planning" /\ hostRevision = op[o].base
      /\ UNCHANGED <<records, handle, origin, hostRevision, disposal, status, release>>
  BY DEF Planned, Interrupted, host
<1>2. op[o] \in OpRecords /\ Honest(op[o]) /\ Fit(op[o])
  BY DEF IInv, Types, Honesty, Fitness
<1>3. executing = o
  BY <1>1 DEF IInv, Roles, Holding
<1>4. PICK R \in SUBSET {n \in Names \ (op[o].pending \union op[o].drops) : Installed(n)} :
        \/ op' = Thrown(o) /\ executing' = None
        \/ op' = [op EXCEPT ![o] = [op[o] EXCEPT !.at = "admitting", !.restarts = R]]
           /\ executing' = executing
  BY DEF Planned
<1>5. CASE op' = Thrown(o) /\ executing' = None
  BY <1>1, <1>3, <1>5, ThrownStep DEF Unfinished
<1>6. CASE op' = [op EXCEPT ![o] = [op[o] EXCEPT !.at = "admitting", !.restarts = R]]
           /\ executing' = executing
  <2> DEFINE new == [op[o] EXCEPT !.at = "admitting", !.restarts = R]
  <2>1. new \in OpRecords /\ new.at = "admitting" /\ new.restarts = R /\ new.plan = op[o].plan
        /\ new.removing = op[o].removing /\ new.handed = op[o].handed /\ new.took = op[o].took
        /\ new.outcome = op[o].outcome /\ new.pending = op[o].pending /\ new.base = op[o].base
        /\ new.drops = op[o].drops
    BY <1>2 DEF OpRecords, Points
  <2>2. op' = [op EXCEPT ![o] = new]
    BY <1>6
  <2> HIDE DEF new
  <2>3. Honest(new)
    BY <1>1, <1>2, <2>1 DEF Honest
  <2>4. Fit(new)
    BY <1>1, <1>2, <2>1 DEF Fit, Holding
  <2> QED BY <1>1, <1>6, <2>1, <2>2, <2>3, <2>4, QuietStep DEF Unfinished, Holding
<1> QED BY <1>4, <1>5, <1>6

LEMMA AdmittedStep ==
    ASSUME IInv, NEW o \in Operations, Admitted(o)
    PROVE  IInv'
<1> DEFINE new == [op[o] EXCEPT !.at = "admitted", !.granted = Admission(o)]
<1>1. op[o].at = "admitting" /\ hostRevision = op[o].base /\ op' = [op EXCEPT ![o] = new]
      /\ UNCHANGED <<records, handle, origin, hostRevision, disposal, status, release, executing>>
  BY DEF Admitted, Interrupted, host, control
<1>2. op[o] \in OpRecords /\ Honest(op[o]) /\ Fit(op[o])
  BY DEF IInv, Types, Honesty, Fitness
<1>3. /\ Admission(o) \subseteq Artifacts \union {None}
      /\ \A n \in op[o].pending : op[o].artifact[n] \in Admission(o)
      /\ \A n \in op[o].restarts : origin[n] \in Admission(o)
  <2>1. \A n \in op[o].restarts : Installed(n)
    BY <1>1, <1>2 DEF Fit
  <2>2. \A n \in op[o].restarts : Active(n) = origin[n]
    BY <2>1 DEF Active
  <2>3. \A n \in Names : origin[n] \in Artifacts \union {None}
                         /\ op[o].artifact[n] \in Artifacts \union {None}
    BY <1>2 DEF IInv, Types, OpRecords
  <2>4. op[o].pending \subseteq Names /\ op[o].restarts \subseteq Names
    BY <1>2 DEF OpRecords
  <2> QED BY <2>2, <2>3, <2>4 DEF Admission
<1>4. new \in OpRecords /\ new.at = "admitted" /\ new.granted = Admission(o)
      /\ new.restarts = op[o].restarts /\ new.plan = op[o].plan /\ new.artifact = op[o].artifact
      /\ new.removing = op[o].removing /\ new.handed = op[o].handed /\ new.took = op[o].took
      /\ new.outcome = op[o].outcome /\ new.pending = op[o].pending /\ new.base = op[o].base
      /\ new.drops = op[o].drops
  BY <1>2, <1>3 DEF OpRecords, Points
<1> HIDE DEF new
<1>5. Honest(new)
  BY <1>1, <1>2, <1>4 DEF Honest
<1>6. Fit(new)
  BY <1>1, <1>2, <1>3, <1>4 DEF Fit, Holding
<1> QED BY <1>1, <1>4, <1>5, <1>6, QuietStep DEF Unfinished, Holding

LEMMA HandoffStep ==
    ASSUME IInv, NEW o \in Operations, Handoff(o)
    PROVE  IInv'
<1> DEFINE new == [op[o] EXCEPT !.at = "applying", !.handed = TRUE]
<1>1. op[o].at = "admitted"
      /\ UNCHANGED <<records, handle, origin, hostRevision, disposal, status, release>>
  BY DEF Handoff, host
<1>2. op[o] \in OpRecords /\ Honest(op[o]) /\ Fit(op[o])
  BY DEF IInv, Types, Honesty, Fitness
<1>3. executing = o
  BY <1>1 DEF IInv, Roles, Holding
<1>4. \/ op' = Thrown(o) /\ executing' = None
      \/ PlanCurrent(o) /\ ~op[o].aborted /\ op' = [op EXCEPT ![o] = new]
         /\ executing' = executing
  BY DEF Handoff
<1>5. CASE op' = Thrown(o) /\ executing' = None
  BY <1>1, <1>3, <1>5, ThrownStep DEF Unfinished
<1>6. CASE PlanCurrent(o) /\ ~op[o].aborted /\ op' = [op EXCEPT ![o] = new]
           /\ executing' = executing
  <2>1. new \in OpRecords /\ new.at = "applying" /\ new.handed /\ new.took = op[o].took
        /\ new.aborted = op[o].aborted /\ new.record = op[o].record
        /\ new.revision = op[o].revision /\ new.granted = op[o].granted
        /\ new.restarts = op[o].restarts /\ new.plan = op[o].plan /\ new.artifact = op[o].artifact
        /\ new.removing = op[o].removing /\ new.outcome = op[o].outcome
        /\ new.pending = op[o].pending /\ new.base = op[o].base /\ new.drops = op[o].drops
    BY <1>2 DEF OpRecords, Points
  <2> HIDE DEF new
  <2>2. Honest(new)
    BY <1>1, <1>2, <1>6, <2>1 DEF Honest
  <2>3. ~new.took
    BY <1>1, <1>2, <2>1 DEF Honest
  <2>4. Fit(new)
    BY <1>1, <1>2, <1>6, <2>1, <2>3 DEF Fit, Holding, PlanCurrent, Current
  <2> QED BY <1>1, <1>6, <2>1, <2>2, <2>4, QuietStep DEF Unfinished, Holding
<1> QED BY <1>4, <1>5, <1>6

LEMMA SettleStep ==
    ASSUME IInv, NEW o \in Operations, Settle(o)
    PROVE  IInv'
<1> DEFINE verdict == IF op[o].aborted /\ op[o].outcome # "ok" THEN "aborted" ELSE op[o].outcome
           new == [Free EXCEPT !.at = "done", !.outcome = verdict,
                               !.handed = op[o].handed, !.took = op[o].took]
<1>1. op[o].at = "settling" /\ op' = [op EXCEPT ![o] = new]
      /\ UNCHANGED <<registered, record, revision, selected, bound, handle, origin,
                     hostRevision, disposal, status, release, executing>>
      /\ failedAt' = IF verdict = "error" THEN Failed(o, ToInstall(o)) ELSE failedAt
  BY DEF Settle, host, control
<1>2. op[o] \in OpRecords /\ Honest(op[o])
  BY DEF IInv, Types, Honesty
<1>3. verdict \in Outcomes
  BY <1>2 DEF OpRecords, Outcomes
<1>4. failedAt' \in [Names -> Nat] /\ FailureIsCurrent'
  <2>1. failedAt' = failedAt \/ failedAt' = Failed(o, ToInstall(o))
    BY <1>1
  <2>2. failedAt \in [Names -> Nat] /\ revision \in [Names -> Nat]
    BY DEF IInv, Types
  <2>3. \A n \in Names : failedAt'[n] \in {failedAt[n], revision[n]}
    BY <2>1, <2>2 DEF Failed, Current
  <2>4. failedAt' \in [Names -> Nat]
    BY <2>1, <2>2 DEF Failed, Current
  <2> QED BY <1>1, <2>2, <2>3, <2>4 DEF IInv, FailureIsCurrent
<1>5. verdict = "aborted" => op[o].aborted /\ op[o].outcome # "ok"
  BY <1>1, <1>2 DEF Honest
<1>6. verdict # "aborted" => verdict = op[o].outcome
  OBVIOUS
<1>7. op[o].outcome = "ok" => verdict = "ok"
  OBVIOUS
<1> HIDE DEF verdict
<1>8. new \in OpRecords /\ new.at = "done" /\ new.outcome = verdict /\ new.plan = {}
      /\ new.handed = op[o].handed /\ new.took = op[o].took
  BY <1>2, <1>3, FreeFacts DEF Free, OpRecords, Points
<1> HIDE DEF new
<1>9. op' \in [Operations -> OpRecords] /\ op'[o] = new
      /\ \A p \in Operations \ {o} : op'[p] = op[p]
  BY <1>1, <1>8 DEF IInv, Types
<1>10. Honest(new)
  BY <1>1, <1>2, <1>5, <1>6, <1>7, <1>8 DEF Honest
<1>11. Fit(new) /\ new.at \notin Holding
  BY <1>8, FitAtRest DEF Holding
<1>12. executing # o
  BY <1>1 DEF IInv, Roles, Holding
<1>13. op'[o].at \in {"free", "called", "done"}
  BY <1>8, <1>9
<1> QED BY <1>1, <1>4, <1>9, <1>10, <1>11, <1>12, <1>13, OpStep

-----------------------------------------------------------------------------
(* Cancellation.                                                           *)

\* What an abort leaves as it is: all but the signal and a place in the queue.
Alike(r, q) ==
    /\ r.plan = q.plan /\ r.removing = q.removing /\ r.pending = q.pending
    /\ r.roots = q.roots
    /\ r.drops = q.drops /\ r.base = q.base /\ r.record = q.record
    /\ r.revision = q.revision /\ r.restarts = q.restarts /\ r.artifact = q.artifact
    /\ r.granted = q.granted /\ r.handed = q.handed /\ r.took = q.took
    /\ r.outcome = q.outcome
    /\ r.at = q.at \/ (q.at = "ready" /\ r.at = "settling")

LEMMA AbortedFacts ==
    ASSUME IInv, NEW S
    PROVE  /\ Aborted(S) \in [Operations -> OpRecords]
           /\ \A p \in Operations : /\ Alike(Aborted(S)[p], op[p]) /\ Honest(Aborted(S)[p])
                                    /\ p \notin S => Aborted(S)[p] = op[p]
<1> SUFFICES ASSUME NEW p \in Operations
             PROVE  /\ Aborted(S)[p] \in OpRecords /\ Alike(Aborted(S)[p], op[p])
                    /\ Honest(Aborted(S)[p]) /\ (p \notin S => Aborted(S)[p] = op[p])
  BY DEF Aborted
<1> DEFINE new == [op[p] EXCEPT !.aborted = TRUE,
                                !.at = IF op[p].at = "ready" THEN "settling" ELSE op[p].at]
<1>1. op[p] \in OpRecords /\ Honest(op[p])
  BY DEF IInv, Types, Honesty
<1>2. Aborted(S)[p] = IF p \in S \intersect Cancellable THEN new ELSE op[p]
  BY DEF Aborted
<1>3. CASE p \notin S \intersect Cancellable
  <2>1. Aborted(S)[p] = op[p]
    BY <1>2, <1>3
  <2> QED BY <1>1, <2>1 DEF Alike
<1>4. CASE p \in S \intersect Cancellable
  <2>1. op[p].handed = FALSE
    BY <1>1, <1>4 DEF Cancellable, OpRecords
  <2>2. new \in OpRecords /\ Alike(new, op[p])
    BY <1>1 DEF OpRecords, Points, Alike
  <2> HIDE DEF new
  <2>3. Honest(new)
    BY <1>1, <2>1, <2>2 DEF Honest, Alike
  <2> QED BY <1>2, <1>4, <2>2, <2>3
<1> QED BY <1>3, <1>4

LEMMA AbortStep ==
    ASSUME IInv, NEW S, op' = Aborted(S),
           UNCHANGED <<records, handle, origin, hostRevision, release, executing>>,
           \/ UNCHANGED <<status, disposal>>
           \/ status = "active" /\ status' = "disposing" /\ disposal' = "waiting"
    PROVE  IInv'
<1>1. op' \in [Operations -> OpRecords]
  BY AbortedFacts
<1>2. \A p \in Operations : Alike(op'[p], op[p]) /\ Honest(op'[p])
  BY AbortedFacts
<1>3. Types' /\ FailureIsCurrent' /\ NoOrphanInstallation'
  BY <1>1 DEF IInv, Types, FailureIsCurrent, NoOrphanInstallation, records
<1>4. Roles'
  <2>1. ASSUME NEW p \in Operations
        PROVE  /\ op'[p].at \in Holding <=> op[p].at \in Holding
               /\ op'[p].at \in {"free", "called", "done"} <=> op[p].at \in {"free", "called", "done"}
    BY <1>2 DEF Alike, Holding
  <2>2. /\ \A p \in Operations : op[p].at \in Holding <=> executing = p
        /\ executing = "disposal" <=> disposal = "releasing"
        /\ disposal # "none" <=> status = "disposing"
        /\ disposal \in {"queued", "releasing"} \/ status = "disposed" =>
             \A p \in Operations : op[p].at \in {"free", "called", "done"}
    BY DEF IInv, Roles, Unfinished
  <2>3. /\ \A p \in Operations : op'[p].at \in Holding <=> executing' = p
        /\ executing' = "disposal" <=> disposal' = "releasing"
        /\ disposal' # "none" <=> status' = "disposing"
    BY <2>1, <2>2
  <2>4. disposal' \in {"queued", "releasing"} \/ status' = "disposed" =>
             \A p \in Operations : op'[p].at \in {"free", "called", "done"}
    BY <2>1, <2>2
  <2> QED BY <2>3, <2>4 DEF Roles, Unfinished
<1>5. Honesty'
  BY <1>2 DEF Honesty, Honest
<1>6. Fitness'
  <2> SUFFICES ASSUME NEW p \in Operations PROVE Fit(op[p])'
    BY DEF Fitness
  <2>1. Alike(op'[p], op[p])
    BY <1>2
  <2>2. Fit(op[p])
    BY DEF IInv, Fitness
  <2> QED BY <2>1, <2>2 DEF Fit, Alike, Installed, Holding, records
<1>7. Emptying'
  BY DEF IInv, Emptying, Roles
<1> QED BY <1>3, <1>4, <1>5, <1>6, <1>7 DEF IInv

LEMMA CancelStep ==
    ASSUME IInv, NEW o \in Operations, Cancel(o)
    PROVE  IInv'
<1> DEFINE ended == [Free EXCEPT !.at = "done", !.outcome = "aborted"]
<1>1. /\ op' = IF op[o].at = "called" THEN [op EXCEPT ![o] = ended] ELSE Aborted({o})
      /\ UNCHANGED <<records, handle, origin, hostRevision, release, executing, status, disposal>>
  BY DEF Cancel, host
<1>2. CASE op[o].at = "called"
  <2>1. ended \in OpRecords /\ ended.at = "done" /\ ended.outcome = "aborted"
        /\ ended.handed = FALSE /\ ended.took = FALSE /\ ended.plan = {}
    BY FreeFacts DEF Free, OpRecords, Points, Outcomes
  <2> HIDE DEF ended
  <2>2. Honest(ended)
    BY <2>1 DEF Honest
  <2>3. Fit(ended)
    BY <2>1, FitAtRest DEF Holding
  <2>4. op' = [op EXCEPT ![o] = ended]
    BY <1>1, <1>2
  <2> QED BY <1>1, <1>2, <2>1, <2>2, <2>3, <2>4, QuietStep DEF Holding
<1>3. CASE op[o].at # "called"
  BY <1>1, <1>3, AbortStep
<1> QED BY <1>2, <1>3

LEMMA DisposeStep ==
    ASSUME IInv, Dispose
    PROVE  IInv'
BY AbortStep DEF Dispose, host

LEMMA InterruptStep ==
    ASSUME IInv, NEW o \in Operations, Interrupt(o)
    PROVE  IInv'
BY RefusedStep DEF Interrupt

-----------------------------------------------------------------------------
(* Steps that change the registrations.                                    *)

\* Nobody executes: an operation that is not the one that ends stays fit.
LEMMA AbortedRest ==
    ASSUME IInv, NEW S, NEW p \in Operations, op'[p] = Aborted(S)[p],
           op[p].at \notin Holding
    PROVE  Honest(op'[p]) /\ Fit(op[p])' /\ op'[p].at \notin Holding
<1>1. Alike(op'[p], op[p]) /\ Honest(op'[p])
  BY AbortedFacts
<1>2. op'[p].at \notin Holding /\ (op'[p].at = "free" => op[p].at = "free")
  BY <1>1 DEF Alike, Holding
<1>3. op[p].plan \intersect op[p].removing = {} /\ (op[p].at = "free" => op[p].plan = {})
  BY DEF IInv, Fitness, Fit
<1>4. Fit(op[p])'
  BY <1>1, <1>2, <1>3 DEF Fit, Holding, Alike
<1> QED BY <1>1, <1>2, <1>4

LEMMA SelectStep ==
    ASSUME IInv, NEW A \in SUBSET Artifacts, Select(A)
    PROVE  IInv'
<1> DEFINE new == Introduced(A)
           changed == new \union Reselected(A)
           choice(n) == CHOOSE a \in A : NameOf[a] = n
           over == {o \in Operations : \E n \in changed : Touches(o, n)}
<1>1. /\ status = "active" /\ executing = None /\ UNCHANGED <<host, control>>
      /\ registered' = registered \union new
      /\ record' = [n \in Names |-> IF n \in new THEN record[n] + 1 ELSE record[n]]
      /\ revision' = [n \in Names |-> CASE n \in new     -> 1
                                        [] n \in changed \ new -> revision[n] + 1
                                        [] OTHER        -> revision[n]]
      /\ selected' = [n \in Names |-> IF n \in changed THEN choice(n) ELSE selected[n]]
      /\ failedAt' = [n \in Names |-> IF n \in changed THEN 0 ELSE failedAt[n]]
      /\ bound' = [n \in Names |-> IF n \in new THEN None ELSE bound[n]]
      /\ op' = Aborted(over)
  BY DEF Select, QueueIdle
<1>2. new \subseteq Names /\ new \intersect registered = {}
  BY NamesApart DEF Introduced
<1>3. \A n \in changed : choice(n) \in Artifacts
  <2>1. \A n \in changed : \E a \in A : NameOf[a] = n
    BY DEF Introduced, Reselected
  <2> QED BY <2>1
<1> HIDE DEF new, changed, choice, over
<1>4. op' \in [Operations -> OpRecords]
  BY <1>1, AbortedFacts
<1>5. Types'
  <2>1. registered' \in SUBSET Names
    BY <1>1, <1>2 DEF IInv, Types
  <2>2. record' \in [Names -> Nat] /\ failedAt' \in [Names -> Nat]
    BY <1>1 DEF IInv, Types
  <2>3. revision' \in [Names -> Nat]
    <3>1. \A n \in Names : revision[n] \in Nat
      BY DEF IInv, Types
    <3> QED BY <1>1, <3>1
  <2>4. selected' \in [Names -> Artifacts \union {None}]
    BY <1>1, <1>3 DEF IInv, Types
  <2>5. bound' \in [Names -> Operations \union {None}]
    BY <1>1 DEF IInv, Types
  <2> QED BY <1>1, <1>4, <2>1, <2>2, <2>3, <2>4, <2>5
      DEF IInv, Types, host, control
<1>6. \A p \in Operations : Honest(op'[p]) /\ Fit(op[p])' /\ op'[p].at \notin Holding
  <2>1. \A p \in Operations : op[p].at \notin Holding
    BY <1>1, NamesApart DEF IInv, Roles
  <2> QED BY <1>1, <2>1, AbortedRest
<1>7. Roles'
  BY <1>1, <1>6, NamesApart DEF IInv, Roles, control
<1>8. Honesty' /\ Fitness'
  BY <1>6 DEF Honesty, Fitness, Honest
<1>9. Emptying' /\ NoOrphanInstallation'
  BY <1>1, <1>2 DEF IInv, Emptying, NoOrphanInstallation, host, control
<1>10. FailureIsCurrent'
  <2>1. \A n \in Names : n \notin changed => revision'[n] = revision[n] /\ n \notin new
    BY <1>1 DEF changed
  <2> QED BY <1>1, <2>1 DEF IInv, FailureIsCurrent
<1> QED BY <1>5, <1>7, <1>8, <1>9, <1>10 DEF IInv

\* Removals take effect: what the Host still runs of them would be an orphan.
LEMMA CommitSelectionsStep ==
    ASSUME IInv, NEW o \in Operations, NEW waiting, CommitSelections(o, waiting),
           op[o].at \in {"ready", "applied"}, executing \in {None, o},
           \A n \in op[o].removing : handle[n] = None
    PROVE  IInv'
<1> DEFINE D == op[o].removing
           over == {p \in Operations \ {o} : \E n \in D : Touches(p, n)}
           new == [op[o] EXCEPT !.at = "settling", !.outcome = "ok"]
<1>1. /\ registered' = registered \ D
      /\ failedAt' = [n \in Names |-> IF n \in D \/ Cleared(o, n) THEN 0 ELSE failedAt[n]]
      /\ bound' = Forgotten(D, bound) /\ selected' = Forgotten(D, selected)
      /\ op' = [Aborted(over) EXCEPT ![o].at = "settling", ![o].outcome = "ok"]
      /\ executing' = None
      /\ UNCHANGED <<record, revision, handle, origin, hostRevision, status, disposal, release>>
  BY DEF CommitSelections, host
<1>2. /\ Aborted(over) \in [Operations -> OpRecords]
      /\ Aborted(over)[o] = op[o]
  BY AbortedFacts
<1>3. op[o] \in OpRecords /\ Honest(op[o]) /\ Fit(op[o])
  BY DEF IInv, Types, Honesty, Fitness
<1>4. new \in OpRecords /\ new.at = "settling" /\ new.outcome = "ok" /\ new.plan = op[o].plan
      /\ new.removing = op[o].removing /\ new.handed = op[o].handed /\ new.took = op[o].took
      /\ new.aborted = op[o].aborted
  BY <1>3 DEF OpRecords, Points, Outcomes
<1>5. op' = [Aborted(over) EXCEPT ![o] = new]
  BY <1>1, <1>2
<1> HIDE DEF new, over
<1>6. op' \in [Operations -> OpRecords] /\ op'[o] = new
      /\ \A p \in Operations \ {o} : op'[p] = Aborted(over)[p]
  BY <1>2, <1>4, <1>5
<1>7. Honest(new)
  BY <1>3, <1>4 DEF Honest
<1>8. Fit(op[o])'
  <2>1. op[o].plan \intersect op[o].removing = {}
    BY <1>3 DEF Fit
  <2> QED BY <1>4, <1>6, <2>1 DEF Fit, Holding
<1>9. \A p \in Operations : Honest(op'[p]) /\ Fit(op[p])' /\ op'[p].at \notin Holding
  <2>1. \A p \in Operations \ {o} : op[p].at \notin Holding
    BY NamesApart DEF IInv, Roles
  <2>2. \A p \in Operations \ {o} : Honest(op'[p]) /\ Fit(op[p])' /\ op'[p].at \notin Holding
    BY <1>6, <2>1, AbortedRest
  <2>3. op'[o].at \notin Holding
    BY <1>4, <1>6 DEF Holding
  <2> QED BY <1>6, <1>7, <1>8, <2>2, <2>3
<1>10. Types'
  <2>1. failedAt' \in [Names -> Nat]
    BY <1>1 DEF IInv, Types
  <2>2. bound' \in [Names -> Operations \union {None}]
        /\ selected' \in [Names -> Artifacts \union {None}]
    BY <1>1 DEF IInv, Types, Forgotten
  <2> QED BY <1>1, <1>6, <2>1, <2>2 DEF IInv, Types
<1>11. Roles'
  <2>1. Unfinished(op[o].at)
    BY DEF Unfinished
  <2>2. disposal \notin {"queued", "releasing"} /\ status # "disposed"
    BY <2>1 DEF IInv, Roles
  <2> QED BY <1>1, <1>9, <2>2, NamesApart DEF IInv, Roles
<1>12. Honesty' /\ Fitness'
  BY <1>9 DEF Honesty, Fitness, Honest
<1>13. Emptying'
  BY <1>1 DEF IInv, Emptying
<1>14. NoOrphanInstallation'
  BY <1>1 DEF IInv, NoOrphanInstallation, Forgotten
<1>15. FailureIsCurrent'
  BY <1>1 DEF IInv, FailureIsCurrent
<1> QED BY <1>10, <1>11, <1>12, <1>13, <1>14, <1>15 DEF IInv

LEMMA NothingToDoStep ==
    ASSUME IInv, NEW o \in Operations, NothingToDo(o)
    PROVE  IInv'
<1>1. op[o].at = "ready" /\ executing = None /\ ToRemove(o) = {}
      /\ CommitSelections(o, Tail(queue))
  BY DEF NothingToDo, Begun, Turn
<1>2. op[o].removing \subseteq Names
  BY DEF IInv, Types, OpRecords
<1>3. \A n \in op[o].removing : handle[n] = None
  BY <1>1, <1>2 DEF ToRemove, Installed, IInv, NoOrphanInstallation
<1> QED BY <1>1, <1>3, CommitSelectionsStep

LEMMA AppliedStep ==
    ASSUME IInv, NEW o \in Operations, Applied(o)
    PROVE  IInv'
<1>1. op[o].at = "applied" /\ CommitSelections(o, queue)
  BY DEF Applied
<1>2. executing = o
  BY <1>1 DEF IInv, Roles, Holding
<1>3. \A n \in op[o].removing : handle[n] = None
  BY <1>1 DEF IInv, Fitness, Fit
<1> QED BY <1>1, <1>2, <1>3, CommitSelectionsStep

-----------------------------------------------------------------------------
(* Steps of the Host, and what it is asked for.                            *)

\* Only what is not installed is bound anew.
LEMMA ExecuteStep ==
    ASSUME IInv, NEW o \in Operations, Execute(o)
    PROVE  IInv'
<1> DEFINE new == [op[o] EXCEPT !.at = "planning", !.base = hostRevision,
                                !.pending = ToInstall(o), !.drops = ToRemove(o)]
<1>1. op[o].at = "ready" /\ executing = None
      /\ UNCHANGED <<registered, record, revision, selected, failedAt, handle, origin,
                     hostRevision, status, disposal, release>>
  BY DEF Execute, Begun, Turn, host
<1>2. PICK staged \in SUBSET Names :
        /\ bound' = [n \in Names |-> IF n \in staged /\ ~Installed(n) THEN o ELSE bound[n]]
        /\ \/ op' = [op EXCEPT ![o] = new] /\ executing' = o
           \/ op' = Thrown(o) /\ executing' = executing
  <2>1. op[o].plan \subseteq Names
    BY DEF IInv, Types, OpRecords
  <2>2. ToInstall(o) \subseteq Names
    BY <2>1 DEF ToInstall
  <2> QED BY <2>2 DEF Execute
<1>3. op[o] \in OpRecords /\ Honest(op[o]) /\ Fit(op[o]) /\ op \in [Operations -> OpRecords]
  BY DEF IInv, Types, Honesty, Fitness
<1>4. ToInstall(o) \subseteq op[o].plan /\ ToRemove(o) \subseteq op[o].removing
  BY DEF ToInstall, ToRemove
<1>5. new \in OpRecords /\ new.at = "planning" /\ new.base = hostRevision
      /\ new.pending = ToInstall(o) /\ new.drops = ToRemove(o) /\ new.plan = op[o].plan
      /\ new.removing = op[o].removing /\ new.outcome = op[o].outcome
      /\ new.handed = op[o].handed /\ new.took = op[o].took
  <2>1. hostRevision \in Nat
    BY DEF IInv, Types
  <2> HIDE DEF IInv
  <2> QED BY <1>3, <1>4, <2>1 DEF OpRecords, Points
<1> HIDE DEF new
<1>6. /\ Thrown(o) \in [Operations -> OpRecords]
      /\ \A p \in Operations \ {o} : Thrown(o)[p] = op[p]
      /\ Thrown(o)[o].at = "settling" /\ Thrown(o)[o].outcome = "error"
      /\ Thrown(o)[o].plan = op[o].plan /\ Thrown(o)[o].removing = op[o].removing
      /\ Thrown(o)[o].aborted = op[o].aborted /\ Thrown(o)[o].handed = op[o].handed
      /\ Thrown(o)[o].took = op[o].took
  BY ThrownFacts
<1>7. /\ op' \in [Operations -> OpRecords]
      /\ \A p \in Operations \ {o} : op'[p] = op[p]
      /\ \/ op'[o] = new /\ executing' = o
         \/ op'[o] = Thrown(o)[o] /\ executing' = executing
  <2>1. CASE op' = [op EXCEPT ![o] = new] /\ executing' = o
    BY <1>3, <1>5, <2>1
  <2>2. CASE op' = Thrown(o) /\ executing' = executing
    BY <1>6, <2>2
  <2> QED BY <1>2, <2>1, <2>2
<1>8. \A n \in Names : handle[n] # None => n \in registered /\ Installed(n) /\ bound'[n] = handle[n]
  BY <1>2 DEF IInv, NoOrphanInstallation, Installed
<1>9. Types'
  <2>1. bound' \in [Names -> Operations \union {None}]
    BY <1>2 DEF IInv, Types
  <2> QED BY <1>1, <1>7, <2>1 DEF IInv, Types
<1>10. \A p \in Operations \ {o} : op[p].at \notin Holding
  BY <1>1, NamesApart DEF IInv, Roles
<1>11. Roles'
  <2>1. \A p \in Operations : op'[p].at \in Holding <=> executing' = p
    BY <1>1, <1>5, <1>6, <1>7, <1>10, NamesApart DEF Holding
  <2>2. Unfinished(op[o].at)
    BY <1>1 DEF Unfinished
  <2>3. disposal \notin {"queued", "releasing"} /\ status # "disposed"
    BY <2>2 DEF IInv, Roles
  <2> QED BY <1>1, <1>7, <2>1, <2>3, NamesApart DEF IInv, Roles
<1>12. Honesty'
  <2>1. Honest(op'[o])
    BY <1>1, <1>3, <1>5, <1>6, <1>7 DEF Honest
  <2>2. \A p \in Operations \ {o} : Honest(op'[p])
    BY <1>7 DEF IInv, Honesty
  <2> QED BY <2>1, <2>2 DEF Honesty, Honest
<1>13. Fitness'
  <2>1. ASSUME NEW p \in Operations \ {o} PROVE Fit(op[p])'
    <3>1. Fit(op[p])
      BY DEF IInv, Fitness
    <3> QED BY <1>7, <1>10, <3>1 DEF Fit, Holding
  <2>2. op[o].plan \intersect op[o].removing = {}
    BY <1>3 DEF Fit
  <2>3. ASSUME op'[o] = new PROVE Fit(op[o])'
    <3>1. \A n \in op[o].removing : handle[n] # None => n \in ToRemove(o)
      <4>1. op[o].removing \subseteq Names
        BY <1>3 DEF OpRecords
      <4> QED BY <1>8, <4>1 DEF ToRemove
    <3>2. hostRevision <= hostRevision
      BY DEF IInv, Types
    <3>3. handle' = handle /\ hostRevision' = hostRevision
      BY <1>1
    <3>4. \A n \in new.removing : handle'[n] # None => n \in new.drops
      BY <1>5, <3>1, <3>3
    <3>5. new.base <= hostRevision' /\ new.pending \subseteq new.plan
          /\ new.plan \intersect new.removing = {}
      BY <1>4, <1>5, <2>2, <3>2, <3>3
    <3> QED BY <1>5, <2>3, <3>4, <3>5 DEF Fit
  <2>4. ASSUME op'[o] = Thrown(o)[o] PROVE Fit(op[o])'
    <3>1. op'[o].at = "settling" /\ op'[o].plan = op[o].plan
          /\ op'[o].removing = op[o].removing
      BY <1>6, <2>4
    <3> QED BY <2>2, <3>1 DEF Fit, Holding
  <2>5. Fit(op[o])'
    BY <1>7, <2>3, <2>4
  <2> QED BY <2>1, <2>5 DEF Fitness
<1>14. Emptying' /\ FailureIsCurrent'
  BY <1>1 DEF IInv, Emptying, FailureIsCurrent
<1>15. NoOrphanInstallation'
  BY <1>1, <1>8 DEF NoOrphanInstallation
<1> QED BY <1>9, <1>11, <1>12, <1>13, <1>14, <1>15 DEF IInv

\* What q, which has taken hold, has kept of r: it is applied, or publishing
\* has failed and it has still to be told.
Advanced(r, q) ==
    /\ q \in OpRecords /\ q.at \in {"applied", "applying"} /\ q.took
    /\ q.roots = r.roots /\ q.removing = r.removing /\ q.plan = r.plan
    /\ q.record = r.record /\ q.revision = r.revision /\ q.artifact = r.artifact
    /\ q.pending = r.pending /\ q.drops = r.drops /\ q.base = r.base
    /\ q.handed = r.handed /\ q.aborted = r.aborted /\ q.outcome = r.outcome

\* The Host advances, whether or not it can publish what it has committed.
LEMMA AdvanceFacts ==
    ASSUME NEW o \in Operations, op \in [Operations -> OpRecords],
           HostCommits(o) \/ HostCommitFails(o)
    PROVE  /\ op[o].at = "applying" /\ hostRevision = op[o].base /\ ~quarantined
           /\ hostRevision' \in {hostRevision + 1, hostRevision + 2}
           /\ handle' = [n \in Names |-> CASE n \in op[o].pending -> bound[n]
                                           [] n \in op[o].drops   -> None
                                           [] OTHER               -> handle[n]]
           /\ origin' = [n \in Names |-> CASE n \in op[o].pending -> op[o].artifact[n]
                                           [] n \in op[o].drops   -> None
                                           [] OTHER               -> origin[n]]
           /\ UNCHANGED <<records, executing, status, disposal, release>>
           /\ \E new : /\ Advanced(op[o], new) /\ op' = [op EXCEPT ![o] = new]
                       /\ quarantined' = IF new.at = "applied" THEN quarantined ELSE TRUE
<1>1. op[o] \in OpRecords
  OBVIOUS
<1>2. op[o].at = "applying" /\ ~quarantined
  BY DEF HostCommits, HostCommitFails, Advances
<1>3. \E new : /\ Advanced(op[o], new) /\ op' = [op EXCEPT ![o] = new]
               /\ quarantined' = IF new.at = "applied" THEN quarantined ELSE TRUE
  <2>1. CASE HostCommits(o)
    <3> DEFINE new == [op[o] EXCEPT !.at = "applied", !.took = TRUE]
    <3>1. Advanced(op[o], new) /\ new.at = "applied"
      BY <1>1 DEF OpRecords, Points, Advanced
    <3>2. op' = [op EXCEPT ![o] = new] /\ quarantined' = quarantined
      BY <2>1 DEF HostCommits
    <3> HIDE DEF new
    <3> QED BY <3>1, <3>2
  <2>2. CASE HostCommitFails(o)
    <3> DEFINE new == [op[o] EXCEPT !.took = TRUE]
    <3>1. Advanced(op[o], new) /\ new.at = "applying"
      BY <1>1, <1>2 DEF OpRecords, Points, Advanced
    <3>2. op' = [op EXCEPT ![o] = new] /\ quarantined' = TRUE
      BY <2>2 DEF HostCommitFails
    <3> HIDE DEF new
    <3> QED BY <3>1, <3>2
  <2> QED BY <2>1, <2>2
<1>4. /\ Advances(o) /\ hostRevision' \in {hostRevision + 1, hostRevision + 2}
  BY DEF HostCommits, HostCommitFails
<1> QED BY <1>2, <1>3, <1>4 DEF Advances, control

LEMMA HostCommitsStep ==
    ASSUME IInv, NEW o \in Operations, HostCommits(o) \/ HostCommitFails(o)
    PROVE  IInv'
<1>0. op \in [Operations -> OpRecords]
  BY DEF IInv, Types
<1>1. /\ op[o].at = "applying" /\ hostRevision = op[o].base
      /\ hostRevision' \in {hostRevision + 1, hostRevision + 2}
      /\ handle' = [n \in Names |-> CASE n \in op[o].pending -> bound[n]
                                      [] n \in op[o].drops   -> None
                                      [] OTHER               -> handle[n]]
      /\ origin' = [n \in Names |-> CASE n \in op[o].pending -> op[o].artifact[n]
                                      [] n \in op[o].drops   -> None
                                      [] OTHER               -> origin[n]]
      /\ UNCHANGED <<records, executing, status, disposal, release>>
  BY <1>0, AdvanceFacts
<1>2. op[o] \in OpRecords /\ Honest(op[o]) /\ Fit(op[o]) /\ op \in [Operations -> OpRecords]
      /\ hostRevision \in Nat
  BY DEF IInv, Types, Honesty, Fitness
<1>3. PICK new : Advanced(op[o], new) /\ op' = [op EXCEPT ![o] = new]
  BY <1>0, AdvanceFacts
<1>4. op' \in [Operations -> OpRecords] /\ op'[o] = new
      /\ \A p \in Operations \ {o} : op'[p] = op[p]
  BY <1>1, <1>2, <1>3 DEF Advanced
<1>5. executing = o /\ \A p \in Operations \ {o} : op[p].at \notin Holding
  BY <1>1 DEF IInv, Roles, Holding
<1>6. op[o].pending \subseteq op[o].plan /\ op[o].plan \intersect op[o].removing = {}
      /\ op[o].base <= hostRevision
      /\ (\A n \in op[o].removing : handle[n] # None => n \in op[o].drops)
      /\ (\A n \in op[o].plan : n \in registered)
  BY <1>1, <1>2 DEF Fit, Holding
<1>7. op[o].removing \subseteq Names /\ op[o].pending \subseteq Names
  BY <1>2 DEF OpRecords
<1>8. Types'
  <2>1. \A n \in Names : bound[n] \in Operations \union {None}
                         /\ handle[n] \in Operations \union {None}
                         /\ origin[n] \in Artifacts \union {None}
                         /\ op[o].artifact[n] \in Artifacts \union {None}
    BY <1>2 DEF IInv, Types, OpRecords
  <2>2. handle' \in [Names -> Operations \union {None}]
    BY <1>1, <2>1
  <2>3. origin' \in [Names -> Artifacts \union {None}]
    BY <1>1, <2>1
  <2>4. hostRevision' \in Nat
    BY <1>1, <1>2
  <2> QED BY <1>1, <1>4, <2>2, <2>3, <2>4 DEF IInv, Types, records
<1>9. Roles'
  <2>1. \A p \in Operations : op'[p].at \in Holding <=> executing' = p
    BY <1>1, <1>3, <1>4, <1>5 DEF Holding, Advanced
  <2>2. Unfinished(op[o].at)
    BY <1>1 DEF Unfinished
  <2>3. disposal \notin {"queued", "releasing"} /\ status # "disposed"
    BY <2>2 DEF IInv, Roles
  <2> QED BY <1>1, <2>1, <2>3 DEF IInv, Roles
<1>10. Honesty'
  <2>1. Honest(new)
    BY <1>1, <1>2, <1>3 DEF Honest, Advanced
  <2>2. \A p \in Operations : Honest(op'[p])
    BY <1>4, <2>1 DEF IInv, Honesty
  <2> QED BY <2>2 DEF Honesty, Honest
<1>11. Fitness'
  <2>1. ASSUME NEW p \in Operations \ {o} PROVE Fit(op[p])'
    <3>1. Fit(op[p])
      BY DEF IInv, Fitness
    <3> QED BY <1>4, <1>5, <3>1 DEF Fit, Holding
  <2>2. \A n \in op[o].removing : handle'[n] = None
    BY <1>1, <1>6, <1>7
  <2>3. /\ op[o].base <= hostRevision' /\ op[o].base # hostRevision'
        /\ op[o].base < hostRevision'
    BY <1>1, <1>2, <1>6 DEF OpRecords
  <2>4. \A n \in op[o].plan \union op[o].removing :
           n \in registered' /\ record'[n] = op[o].record[n] /\ revision'[n] = op[o].revision[n]
    BY <1>1, <1>2 DEF Fit, records
  <2>5. /\ op'[o].at \in {"applied", "applying"} /\ op'[o].plan = op[o].plan
        /\ op'[o].removing = op[o].removing /\ op'[o].pending = op[o].pending
        /\ op'[o].base = op[o].base /\ op'[o].record = op[o].record
        /\ op'[o].revision = op[o].revision
    BY <1>3, <1>4 DEF Advanced
  <2>6. Fit(op[o])'
    BY <1>6, <2>2, <2>3, <2>4, <2>5 DEF Fit, Holding
  <2> QED BY <2>1, <2>6 DEF Fitness
<1>12. Emptying'
  <2>1. Unfinished(op[o].at)
    BY <1>1 DEF Unfinished
  <2>2. disposal # "releasing" /\ status # "disposed"
    BY <2>1 DEF IInv, Roles
  <2> QED BY <1>1, <2>2 DEF Emptying
<1>13. NoOrphanInstallation'
  BY <1>1, <1>6 DEF IInv, NoOrphanInstallation, records
<1>14. FailureIsCurrent'
  BY <1>1 DEF IInv, FailureIsCurrent, records
<1> QED BY <1>8, <1>9, <1>10, <1>11, <1>12, <1>13, <1>14 DEF IInv

\* What outsiders commit gives the Host a new revision.
LEMMA OutsideStep ==
    ASSUME IInv, hostRevision' = hostRevision + 1,
           handle' \in [Names -> Operations \union {None}],
           origin' \in [Names -> Artifacts \union {None}],
           \A n \in Names : handle'[n] \in {handle[n], None},
           UNCHANGED <<records, executing, disposal, status, release, op>>
    PROVE  IInv'
<1>1. hostRevision \in Nat /\ hostRevision' \in Nat /\ op \in [Operations -> OpRecords]
  BY DEF IInv, Types
<1>2. Types'
  BY <1>1 DEF IInv, Types, records
<1>3. Roles' /\ Honesty' /\ FailureIsCurrent'
  BY DEF IInv, Roles, Honesty, Honest, FailureIsCurrent, records
<1>4. Emptying' /\ NoOrphanInstallation'
  BY DEF IInv, Emptying, NoOrphanInstallation, records
<1>5. Fitness'
  <2> SUFFICES ASSUME NEW p \in Operations PROVE Fit(op[p])'
    BY DEF Fitness
  <2>1. Fit(op[p]) /\ op'[p] = op[p] /\ op[p] \in OpRecords
    BY <1>1 DEF IInv, Fitness
  <2>2. op[p].at \in Holding => /\ op[p].base <= hostRevision' /\ hostRevision' # op[p].base
                                /\ op[p].base < hostRevision'
    BY <1>1, <2>1 DEF Fit, OpRecords
  <2>3. op[p].removing \subseteq Names
    BY <2>1 DEF OpRecords
  <2> QED BY <2>1, <2>2, <2>3 DEF Fit, Holding, records
<1> QED BY <1>2, <1>3, <1>4, <1>5 DEF IInv

LEMMA OutsideCommitStep == ASSUME IInv, OutsideCommit PROVE IInv'
<1>1. handle \in [Names -> Operations \union {None}] /\ origin \in [Names -> Artifacts \union {None}]
  BY DEF IInv, Types
<1>2. /\ hostRevision' = hostRevision + 1
      /\ UNCHANGED <<records, executing, disposal, status, release, op>>
  BY DEF OutsideCommit, control
<1>3. CASE UNCHANGED <<handle, origin>>
  BY <1>1, <1>2, <1>3, OutsideStep
<1>4. ASSUME NEW n \in Names, origin' = [origin EXCEPT ![n] = None],
             handle' \in {handle, [handle EXCEPT ![n] = None]}
      PROVE  IInv'
  BY <1>1, <1>2, <1>4, OutsideStep
<1> QED BY <1>3, <1>4 DEF OutsideCommit

LEMMA GroupRemovedStep == ASSUME IInv, GroupRemoved PROVE IInv'
<1>1. handle \in [Names -> Operations \union {None}] /\ origin \in [Names -> Artifacts \union {None}]
  BY DEF IInv, Types
<1> QED BY <1>1, OutsideStep DEF GroupRemoved, control

LEMMA HostQuarantinedStep == ASSUME IInv, HostQuarantined PROVE IInv'
<1>1. handle \in [Names -> Operations \union {None}] /\ origin \in [Names -> Artifacts \union {None}]
  BY DEF IInv, Types
<1> QED BY <1>1, OutsideStep DEF HostQuarantined, control

\* The invariant does not speak of the rest.
LEMMA UnseenStep ==
    ASSUME IInv, UNCHANGED <<records, handle, origin, hostRevision, executing, disposal,
                             status, release, op>>
    PROVE  IInv'
<1>1. Types' /\ Roles' /\ Honesty'
  BY DEF IInv, Types, Roles, Honesty, Honest, records
<1>2. Fitness'
  BY DEF IInv, Fitness, Fit, Installed, records
<1>3. Emptying' /\ NoOrphanInstallation' /\ FailureIsCurrent'
  BY DEF IInv, Emptying, NoOrphanInstallation, FailureIsCurrent, records
<1> QED BY <1>1, <1>2, <1>3 DEF IInv

-----------------------------------------------------------------------------
(* Disposal.                                                               *)

\* Steps of a disposal after everything else has ended.
LEMMA DisposalStep ==
    ASSUME IInv, UNCHANGED <<op, record, revision>>,
           \A o \in Operations : op[o].at \in {"free", "called", "done"},
           Types', Emptying', NoOrphanInstallation', FailureIsCurrent',
           executing' \notin Operations,
           executing' = "disposal" <=> disposal' = "releasing",
           disposal' # "none" <=> status' = "disposing"
    PROVE  IInv'
<1>1. Roles'
  BY DEF Roles, Holding, Unfinished
<1>2. Honesty'
  BY DEF IInv, Honesty, Honest
<1>3. Fitness'
  BY DEF IInv, Fitness, Fit, Holding
<1> QED BY <1>1, <1>2, <1>3 DEF IInv

LEMMA DisposalReadyStep == ASSUME IInv, DisposalReady PROVE IInv'
<1>1. \A o \in Operations : op[o].at \in {"free", "called", "done"}
  BY DEF DisposalReady, Quiet, Pending
<1>2. executing \notin Operations
  BY <1>1 DEF IInv, Roles, Holding
<1>3. Types' /\ Emptying' /\ NoOrphanInstallation' /\ FailureIsCurrent'
  BY DEF DisposalReady, IInv, Types, Emptying, NoOrphanInstallation, FailureIsCurrent,
         records, host
<1>4. executing' # "disposal" /\ disposal' = "queued" /\ status' = "disposing"
  BY DEF DisposalReady, IInv, Roles
<1> QED BY <1>1, <1>2, <1>3, <1>4, DisposalStep DEF DisposalReady, records

LEMMA ReleaseBeginsStep == ASSUME IInv, ReleaseBegins PROVE IInv'
<1>1. \A o \in Operations : op[o].at \in {"free", "called", "done"}
  BY DEF ReleaseBegins, IInv, Roles, Unfinished
<1>2. status' = "disposing" /\ executing' = "disposal" /\ disposal' = "releasing"
  BY DEF ReleaseBegins, IInv, Roles
<1>3. Types' /\ NoOrphanInstallation' /\ FailureIsCurrent'
  BY DEF ReleaseBegins, IInv, Types, NoOrphanInstallation, FailureIsCurrent, records, host
<1>4. Emptying'
  BY <1>2 DEF ReleaseBegins, IInv, NoOrphanInstallation, Installed, Emptying, records, host
<1> QED BY <1>1, <1>2, <1>3, <1>4, NamesApart, DisposalStep DEF ReleaseBegins, records

\* A release leaves nothing on the Host once it has taken hold.
LEMMA RemovesFacts ==
    ASSUME IInv, disposal = "releasing", Removes
    PROVE  /\ handle' \in [Names -> Operations \union {None}]
           /\ origin' \in [Names -> Artifacts \union {None}]
           /\ \A n \in Names : handle'[n] = None
<1>1. handle \in [Names -> Operations \union {None}]
      /\ origin \in [Names -> Artifacts \union {None}]
  BY DEF IInv, Types
<1>2. \A n \in Names : handle[n] # None => n \in release.names
  BY DEF IInv, Emptying
<1>3. /\ handle' = [n \in Names |-> IF n \in release.names THEN None ELSE handle[n]]
      /\ origin' = [n \in Names |-> IF n \in release.names THEN None ELSE origin[n]]
  BY DEF Removes
<1> QED BY <1>1, <1>2, <1>3

LEMMA ReleaseSucceedsStep == ASSUME IInv, ReleaseSucceeds PROVE IInv'
<1>1. disposal = "releasing" /\ \A o \in Operations : op[o].at \in {"free", "called", "done"}
  BY DEF ReleaseSucceeds, IInv, Roles, Unfinished
<1>2. /\ handle' \in [Names -> Operations \union {None}]
      /\ origin' \in [Names -> Artifacts \union {None}] /\ hostRevision' \in Nat
      /\ \A n \in Names : handle'[n] = None
  <2>1. handle \in [Names -> Operations \union {None}]
        /\ origin \in [Names -> Artifacts \union {None}] /\ hostRevision \in Nat
    BY DEF IInv, Types
  <2>2. CASE release.names = {} /\ UNCHANGED <<handle, origin, hostRevision>>
    <3>1. \A n \in Names : handle[n] # None => n \in release.names
      BY <1>1 DEF IInv, Emptying
    <3> QED BY <2>1, <2>2, <3>1
  <2>3. CASE Removes /\ hostRevision' = hostRevision + 1
    BY <1>1, <2>1, <2>3, RemovesFacts
  <2> QED BY <2>2, <2>3 DEF ReleaseSucceeds
<1>3. Types'
  <2>1. /\ registered' = {} /\ failedAt' = [n \in Names |-> 0]
        /\ bound' = [n \in Names |-> None] /\ selected' = [n \in Names |-> None]
        /\ executing' = None /\ UNCHANGED <<record, revision, op>>
    BY DEF ReleaseSucceeds
  <2> QED BY <1>2, <2>1 DEF IInv, Types
<1>4. NoOrphanInstallation' /\ Emptying'
  BY <1>2 DEF NoOrphanInstallation, Emptying, ReleaseSucceeds
<1>5. FailureIsCurrent'
  BY DEF FailureIsCurrent, ReleaseSucceeds
<1> QED BY <1>1, <1>3, <1>4, <1>5, NamesApart, DisposalStep DEF ReleaseSucceeds

LEMMA ReleaseFailsStep == ASSUME IInv, ReleaseFails PROVE IInv'
<1>1. disposal = "releasing" /\ \A o \in Operations : op[o].at \in {"free", "called", "done"}
  BY DEF ReleaseFails, IInv, Roles, Unfinished
<1>2. /\ handle' \in [Names -> Operations \union {None}]
      /\ origin' \in [Names -> Artifacts \union {None}] /\ hostRevision' \in Nat
      /\ \A n \in Names : handle'[n] \in {handle[n], None}
  <2>1. handle \in [Names -> Operations \union {None}]
        /\ origin \in [Names -> Artifacts \union {None}] /\ hostRevision \in Nat
    BY DEF IInv, Types
  <2>2. CASE MayBreak /\ UNCHANGED <<handle, origin>>
    BY <2>1, <2>2 DEF MayBreak
  <2>3. CASE Removes /\ hostRevision' = hostRevision + 2 /\ quarantined' = TRUE
    BY <1>1, <2>1, <2>3, RemovesFacts
  <2> QED BY <2>2, <2>3 DEF ReleaseFails
<1>3. executing' = None /\ disposal' = "none" /\ status' = "active" /\ UNCHANGED <<records, op>>
  BY DEF ReleaseFails
<1>4. Types'
  BY <1>2, <1>3 DEF IInv, Types, records
<1>5. NoOrphanInstallation' /\ Emptying' /\ FailureIsCurrent'
  BY <1>2, <1>3 DEF IInv, NoOrphanInstallation, FailureIsCurrent, Emptying, records
<1> QED BY <1>1, <1>3, <1>4, <1>5, NamesApart, DisposalStep DEF records

-----------------------------------------------------------------------------
(* The invariant.                                                          *)

LEMMA InductiveInvariant == IInv /\ [Next]_vars => IInv'
<1> SUFFICES ASSUME IInv, [Next]_vars PROVE IInv'
  OBVIOUS
<1>1. ASSUME NEW A \in (SUBSET Artifacts) \ {{}}, Select(A) PROVE IInv'
  BY <1>1, SelectStep
<1>2. ASSUME NEW o \in Operations, NEW R \in SUBSET Names, NEW D \in SUBSET Names, Call(o, R, D)
      PROVE  IInv'
  BY <1>2, CallStep
<1>3. ASSUME NEW o \in Operations,
             Cancel(o) \/ LoadSucceeds(o) \/ Refused(o) \/ Planned(o) \/ Admitted(o)
      PROVE  IInv'
  BY <1>3, CancelStep, LoadSucceedsStep, RefusedStep, PlannedStep, AdmittedStep
<1>4. ASSUME NEW o \in Operations, Machine(o) PROVE IInv'
  BY <1>4, BeginStep, LoadNextStep, ReadyStep, InterruptStep, ExecuteFailsStep, NothingToDoStep,
     ExecuteStep, HandoffStep, HostCommitsStep, HostRefusesStep, AppliedStep, SettleStep
     DEF Machine
<1>5. CASE Dispose \/ Release
  BY <1>5, DisposeStep, DisposalReadyStep, ReleaseBeginsStep, ReleaseSucceedsStep,
     ReleaseFailsStep DEF Release
<1>6. CASE OutsideCommit \/ GroupRemoved \/ HostQuarantined
  BY <1>6, OutsideCommitStep, GroupRemovedStep, HostQuarantinedStep
<1>7. CASE UNCHANGED vars
  BY <1>7, UnseenStep DEF vars, host, control
<1> QED BY <1>1, <1>2, <1>3, <1>4, <1>5, <1>6, <1>7 DEF Next

\* The invariant holds of every behaviour of platform.ts: one command executes,
\* and what an activation found out is true for as long as it relies on it.
THEOREM Invariance == Spec => []IInv
<1>1. Init => IInv
  BY InitInvariant
<1>2. IInv /\ [Next]_vars => IInv'
  BY InductiveInvariant
<1> QED BY <1>1, <1>2, PTL DEF Spec

\* What an activation hands over to the Host is still selected, and the Host
\* starts nothing that was not authorised (platform.ts 426-463, 645).
THEOREM HandoffsAreSound == Spec => []HandoffIsSound
<1>1. IInv => HandoffIsSound
  <2> SUFFICES ASSUME IInv PROVE HandoffIsSound
    OBVIOUS
  <2>1. \A o \in Operations : Fit(op[o])
    BY DEF IInv, Fitness
  <2>2. HandedOffIsCurrent
    BY <2>1 DEF HandedOffIsCurrent, PlanCurrent, Current, Fit
  <2>3. NothingUnauthorised
    BY <2>1 DEF NothingUnauthorised, Fit
  <2> QED BY <2>2, <2>3 DEF HandoffIsSound
<1> QED BY <1>1, Invariance, PTL

\* It took hold, and it is or will be told that it failed.
Lost(r) == r.took /\ r.at # "applied" /\ r.outcome # "ok"
Stranded == \A o \in Operations : Lost(op[o]) => quarantined

\* Nobody is lost by a step, and the Host is never usable again.
LEMMA StrandedStays ==
    ASSUME Stranded, quarantined => quarantined',
           \A p \in Operations : Lost(op'[p]) => Lost(op[p])
    PROVE  Stranded'
BY DEF Stranded, Lost

\* An operation that is not with the Host has changed nothing there.
LEMMA NotTaken ==
    ASSUME IInv, NEW o \in Operations, op[o].at \notin {"applying", "applied", "settling", "done"}
    PROVE  ~op[o].took
BY DEF IInv, Honesty, Honest

LEMMA StrandedOne ==
    ASSUME IInv, Stranded, NEW o \in Operations, quarantined => quarantined',
           \A p \in Operations \ {o} : op'[p] = op[p],
           op'[o].took => op[o].took /\ op[o].at # "applied",
           op'[o].outcome # "ok" => op[o].outcome # "ok"
    PROVE  Stranded'
<1>1. \A p \in Operations : Lost(op'[p]) => Lost(op[p])
  BY DEF Lost
<1> QED BY <1>1, StrandedStays

LEMMA StrandedThrown ==
    ASSUME IInv, Stranded, NEW o \in Operations, op' = Thrown(o),
           Unfinished(op[o].at), op[o].at # "applied", op[o].at # "settling",
           quarantined => quarantined'
    PROVE  Stranded'
<1>1. op[o].outcome # "ok"
  BY DEF IInv, Honesty, Honest, Unfinished
<1> QED BY <1>1, ThrownFacts, StrandedOne

LEMMA StrandedAborted ==
    ASSUME IInv, Stranded, NEW S, op' = Aborted(S), quarantined' = quarantined
    PROVE  Stranded'
<1>1. ASSUME NEW p \in Operations, Lost(op'[p]) PROVE Lost(op[p])
  <2>1. Alike(op'[p], op[p])
    BY AbortedFacts
  <2>2. op[p].took
    BY <1>1, <2>1 DEF Lost, Alike
  <2>3. op[p].at # "ready"
    BY <2>2, NotTaken
  <2> QED BY <1>1, <2>1, <2>3 DEF Lost, Alike
<1> QED BY <1>1, StrandedStays

\* Before the handoff, whatever it does.
LEMMA StrandedEarly ==
    ASSUME IInv, Stranded, NEW o \in Operations,
           \/ LoadNext(o) \/ LoadSucceeds(o) \/ Ready(o) \/ Refused(o) \/ Planned(o)
           \/ Admitted(o) \/ Handoff(o) \/ ExecuteFails(o) \/ Execute(o)
    PROVE  Stranded'
<1>1. /\ op[o].at \in {"loading", "waiting", "planning", "admitting", "admitted", "ready"}
      /\ quarantined' = quarantined
  BY DEF LoadNext, LoadSucceeds, Ready, Refused, Planned, Admitted, Handoff, ExecuteFails,
         Execute, Begun, host
<1>2. op \in [Operations -> OpRecords] /\ op[o] \in OpRecords
  BY DEF IInv, Types
<1>3. ~op[o].took
  BY <1>1, NotTaken
<1>4. CASE op' = Thrown(o)
  BY <1>1, <1>4, StrandedThrown DEF Unfinished
<1>5. CASE op' # Thrown(o)
  <2>1. /\ \A p \in Operations \ {o} : op'[p] = op[p]
        /\ op'[o].took = op[o].took
    <3>1. CASE LoadNext(o)
      <4>1. PICK n \in op[o].todo :
              \/ op' = Thrown(o)
              \/ op' = [op EXCEPT ![o] = [op[o] EXCEPT !.todo = op[o].todo \ {n}]]
              \/ op' = [op EXCEPT ![o] = [op[o] EXCEPT !.at = "waiting", !.todo = op[o].todo \ {n},
                                                       !.loading = op[o].artifact[n]]]
        BY <3>1 DEF LoadNext
      <4> DEFINE one == [op[o] EXCEPT !.todo = op[o].todo \ {n}]
                 two == [op[o] EXCEPT !.at = "waiting", !.todo = op[o].todo \ {n},
                                      !.loading = op[o].artifact[n]]
      <4>2. one.took = op[o].took /\ two.took = op[o].took
        BY <1>2 DEF OpRecords
      <4>3. op' = [op EXCEPT ![o] = one] \/ op' = [op EXCEPT ![o] = two]
        BY <1>5, <4>1
      <4> HIDE DEF one, two
      <4> QED BY <1>2, <4>2, <4>3
    <3>2. CASE LoadSucceeds(o) \/ Ready(o)
      BY <1>2, <1>5, <3>2 DEF LoadSucceeds, Ready, OpRecords
    <3>3. CASE Planned(o) \/ Admitted(o)
      BY <1>2, <1>5, <3>3 DEF Planned, Admitted, OpRecords
    <3>4. CASE Handoff(o) \/ Execute(o)
      BY <1>2, <1>5, <3>4 DEF Handoff, Execute, OpRecords
    <3>5. CASE Refused(o) \/ ExecuteFails(o)
      BY <1>5, <3>5 DEF Refused, ExecuteFails
    <3> QED BY <3>1, <3>2, <3>3, <3>4, <3>5
  <2>2. \A p \in Operations : Lost(op'[p]) => Lost(op[p])
    BY <1>3, <2>1 DEF Lost
  <2> QED BY <1>1, <2>2, StrandedStays
<1> QED BY <1>4, <1>5

LEMMA StrandedBegin ==
    ASSUME IInv, Stranded, NEW o \in Operations,
           Begin(o) \/ (\E R, D \in SUBSET Names : Call(o, R, D))
    PROVE  Stranded'
<1>1. op[o].at \in {"free", "called"} /\ quarantined' = quarantined
  BY DEF Begin, Call, host
<1>2. op \in [Operations -> OpRecords] /\ op[o] \in OpRecords
  BY DEF IInv, Types
<1>3. ~op[o].took
  BY <1>1, NotTaken
<1>4. /\ \A p \in Operations \ {o} : op'[p] = op[p]
      /\ op'[o].took = op[o].took \/ op'[o].took = FALSE
  <2>1. CASE Begin(o)
    <3> DEFINE R == op[o].roots
               D == op[o].removing
               S == Selections(R, D)
               captured == [op[o] EXCEPT
                   !.at = "loading", !.plan = S, !.todo = S,
                   !.record = [n \in Names |-> IF n \in S \union D THEN record[n] ELSE 0],
                   !.revision = [n \in Names |-> IF n \in S \union D THEN revision[n] ELSE 0],
                   !.artifact = [n \in Names |-> IF n \in S THEN selected[n] ELSE None]]
               ended == [Free EXCEPT !.at = "done", !.outcome = "error"]
    <3>1. ended.took = FALSE
      BY DEF Free
    <3>2. captured.took = op[o].took
      BY <1>2 DEF OpRecords
    <3>3. op' = [op EXCEPT ![o] = ended] \/ op' = [op EXCEPT ![o] = captured]
      BY <2>1 DEF Begin
    <3> HIDE DEF ended, captured
    <3> QED BY <1>2, <3>1, <3>2, <3>3
  <2>2. CASE \E R, D \in SUBSET Names : Call(o, R, D)
    <3>1. PICK R \in SUBSET Names, D \in SUBSET Names : Call(o, R, D)
      BY <2>2
    <3> DEFINE new == [op[o] EXCEPT !.at = "called", !.roots = R, !.removing = D,
                         !.record = [n \in Names |-> IF n \in R \union D THEN record[n] ELSE 0]]
    <3>2. new.took = op[o].took
      BY <1>2 DEF OpRecords
    <3>3. op' = [op EXCEPT ![o] = new]
      BY <3>1 DEF Call
    <3> HIDE DEF new
    <3> QED BY <1>2, <3>2, <3>3
  <2> QED BY <2>1, <2>2
<1>5. \A p \in Operations : Lost(op'[p]) => Lost(op[p])
  BY <1>3, <1>4 DEF Lost
<1> QED BY <1>1, <1>5, StrandedStays

LEMMA StrandedCommit ==
    ASSUME IInv, Stranded, NEW o \in Operations, HostCommits(o) \/ HostCommitFails(o)
    PROVE  Stranded'
<1>1. op \in [Operations -> OpRecords]
  BY DEF IInv, Types
<1>2. PICK new : /\ Advanced(op[o], new) /\ op' = [op EXCEPT ![o] = new]
                 /\ quarantined' = IF new.at = "applied" THEN quarantined ELSE TRUE
  BY <1>1, AdvanceFacts
<1>3. op'[o] = new /\ \A p \in Operations \ {o} : op'[p] = op[p]
  BY <1>1, <1>2
<1>4. CASE new.at = "applied"
  <2>1. \A p \in Operations : Lost(op'[p]) => Lost(op[p])
    BY <1>3, <1>4 DEF Lost
  <2> QED BY <1>2, <1>4, <2>1, StrandedStays
<1>5. CASE new.at # "applied"
  BY <1>2, <1>5 DEF Stranded
<1> QED BY <1>4, <1>5

LEMMA StrandedSettle ==
    ASSUME IInv, Stranded, NEW o \in Operations, Settle(o)
    PROVE  Stranded'
<1>1. op \in [Operations -> OpRecords] /\ op[o] \in OpRecords /\ Honest(op[o])
  BY DEF IInv, Types, Honesty
<1>2. op[o].at = "settling" /\ quarantined' = quarantined
  BY DEF Settle, host
<1>3. /\ \A p \in Operations \ {o} : op'[p] = op[p]
      /\ op'[o].took = op[o].took
      /\ ~op[o].aborted => op'[o].outcome = op[o].outcome
  BY <1>1 DEF Settle, Free
<1>4. op[o].took => ~op[o].aborted
  BY <1>1, <1>2 DEF Honest
<1>5. \A p \in Operations : Lost(op'[p]) => Lost(op[p])
  BY <1>2, <1>3, <1>4 DEF Lost
<1> QED BY <1>2, <1>5, StrandedStays

LEMMA StrandedCommitSelections ==
    ASSUME IInv, Stranded, NEW o \in Operations, NEW waiting, CommitSelections(o, waiting)
    PROVE  Stranded'
<1> DEFINE over == {p \in Operations \ {o} : \E n \in op[o].removing : Touches(p, n)}
           new == [Aborted(over)[o] EXCEPT !.at = "settling", !.outcome = "ok"]
<1>1. /\ op' = [Aborted(over) EXCEPT ![o] = new]
      /\ quarantined' = quarantined
  BY DEF CommitSelections, host
<1>2. /\ Aborted(over) \in [Operations -> OpRecords]
      /\ \A p \in Operations \ {o} : Alike(Aborted(over)[p], op[p])
  BY AbortedFacts
<1>3. new.outcome = "ok"
  BY <1>2 DEF OpRecords
<1> HIDE DEF new, over
<1>4. op'[o].outcome = "ok" /\ \A p \in Operations \ {o} : op'[p] = Aborted(over)[p]
  BY <1>1, <1>2, <1>3
<1>5. ASSUME NEW p \in Operations, Lost(op'[p]) PROVE Lost(op[p])
  <2>1. p # o
    BY <1>4, <1>5 DEF Lost
  <2>2. Alike(op'[p], op[p])
    BY <1>2, <1>4, <2>1
  <2>3. op[p].took
    BY <1>5, <2>2 DEF Lost, Alike
  <2>4. op[p].at # "ready"
    BY <2>3, NotTaken
  <2> QED BY <1>5, <2>2, <2>4 DEF Lost, Alike
<1> QED BY <1>1, <1>5, StrandedStays

LEMMA StrandedStep == IInv /\ Stranded /\ [Next]_vars => Stranded'
<1> SUFFICES ASSUME IInv, Stranded, [Next]_vars PROVE Stranded'
  OBVIOUS
<1>1. ASSUME NEW A \in (SUBSET Artifacts) \ {{}}, Select(A) PROVE Stranded'
  BY <1>1, StrandedAborted DEF Select, host
<1>2. ASSUME NEW o \in Operations, NEW R \in SUBSET Names, NEW D \in SUBSET Names, Call(o, R, D)
      PROVE  Stranded'
  BY <1>2, StrandedBegin
<1>3. ASSUME NEW o \in Operations, Cancel(o) PROVE Stranded'
  <2> DEFINE ended == [Free EXCEPT !.at = "done", !.outcome = "aborted"]
  <2>1. /\ op' = [op EXCEPT ![o] = ended] \/ op' = Aborted({o})
        /\ quarantined' = quarantined
    BY <1>3 DEF Cancel, host
  <2>2. CASE op' = [op EXCEPT ![o] = ended]
    <3>1. ~ended.took
      BY DEF Free
    <3> HIDE DEF ended
    <3>2. op'[o] = ended /\ \A p \in Operations \ {o} : op'[p] = op[p]
      BY <2>2 DEF IInv, Types
    <3>3. \A p \in Operations : Lost(op'[p]) => Lost(op[p])
      BY <3>1, <3>2 DEF Lost
    <3> QED BY <2>1, <3>3, StrandedStays
  <2> QED BY <2>1, <2>2, StrandedAborted
<1>4. ASSUME NEW o \in Operations,
             LoadSucceeds(o) \/ Refused(o) \/ Planned(o) \/ Admitted(o)
      PROVE  Stranded'
  BY <1>4, StrandedEarly
<1>5. ASSUME NEW o \in Operations, Machine(o) PROVE Stranded'
  <2>1. CASE HostRefuses(o)
    <3>1. /\ op' = Thrown(o) /\ op[o].at = "applying"
          /\ quarantined => quarantined'
      BY <2>1 DEF HostRefuses, MayBreak
    <3> QED BY <3>1, StrandedThrown DEF Unfinished
  <2>2. CASE NothingToDo(o) \/ Applied(o)
    BY <2>2, StrandedCommitSelections DEF NothingToDo, Applied
  <2>3. CASE HostCommits(o) \/ HostCommitFails(o)
    BY <2>3, StrandedCommit
  <2>4. CASE Settle(o)
    BY <2>4, StrandedSettle
  <2>5. CASE Begin(o)
    BY <2>5, StrandedBegin
  <2>6. CASE LoadNext(o) \/ Ready(o) \/ Interrupt(o) \/ ExecuteFails(o) \/ Execute(o) \/ Handoff(o)
    BY <2>6, StrandedEarly DEF Interrupt
  <2> QED BY <1>5, <2>1, <2>2, <2>3, <2>4, <2>5, <2>6 DEF Machine
<1>6. CASE Dispose
  BY <1>6, StrandedAborted DEF Dispose, host
<1>7. CASE \/ Release \/ OutsideCommit \/ GroupRemoved \/ HostQuarantined \/ UNCHANGED vars
  <2>1. op' = op /\ (quarantined => quarantined')
    BY <1>7 DEF Release, DisposalReady, ReleaseBegins, ReleaseSucceeds, ReleaseFails, MayBreak,
               OutsideCommit, GroupRemoved, HostQuarantined, vars, host
  <2> QED BY <2>1, StrandedStays
<1> QED BY <1>1, <1>2, <1>3, <1>4, <1>5, <1>6, <1>7 DEF Next

\* activate() tells the truth about what it changed, but for an error over which
\* the Host was quarantined, and a registration shows no failure of what is not
\* selected any more (platform.ts 320-327, engine.ts 485-490).
THEOREM ReportsAreHonest == Spec => []ReportsAreTrue
<1>1. IInv /\ Stranded => ReportsAreTrue
  <2> SUFFICES ASSUME IInv, Stranded PROVE ReportsAreTrue
    OBVIOUS
  <2>1. \A o \in Operations : Honest(op[o]) /\ (Lost(op[o]) => quarantined)
    BY DEF IInv, Honesty, Stranded
  <2>2. OutcomeIsTrue
    BY <2>1 DEF OutcomeIsTrue, Honest, Lost
  <2> QED BY <2>2 DEF ReportsAreTrue, IInv
<1>2. Init => Stranded
  BY DEF Init, Stranded, Lost, Free
<1>3. Spec => []Stranded
  BY <1>2, StrandedStep, Invariance, PTL DEF Spec
<1> QED BY <1>1, <1>3, Invariance, PTL

\* Every committed installation belongs to a live registration that can remove
\* it, and a disposed platform leaves nothing (platform.ts 411-421, 546-559).
THEOREM InstallationsStayOwned == Spec => []InstallationsAreOwned
<1>1. IInv => InstallationsAreOwned
  <2> SUFFICES ASSUME IInv PROVE InstallationsAreOwned
    OBVIOUS
  <2>1. ASSUME status = "disposed"
        PROVE  /\ Pending = {} /\ executing = None
               /\ \A n \in Names : handle[n] = None
    <3>1. \A o \in Operations : ~Unfinished(op[o].at)
      BY <2>1 DEF IInv, Roles
    <3>2. Pending = {}
      BY <3>1 DEF Pending, Unfinished
    <3>3. executing = None
      <4>1. executing \notin Operations
        BY <3>1 DEF IInv, Roles, Unfinished, Holding
      <4>2. executing # "disposal"
        BY <2>1 DEF IInv, Roles
      <4> QED BY <4>1, <4>2 DEF IInv, Types
    <3> QED BY <2>1, <3>2, <3>3 DEF IInv, Emptying
  <2> QED BY <2>1 DEF InstallationsAreOwned, DisposedIsClean, IInv
<1> QED BY <1>1, Invariance, PTL

-----------------------------------------------------------------------------
(* What the Host commits fits together.                                    *)

\* The points at which an activation relies on the plan it has checked.
Executing == {"planning", "admitting", "admitted", "applying"}

\* S has what its artifacts need.
Needs(r, S) == \A n \in S : \A d \in DOMAIN Deps[r.artifact[n]] : d \in S

\* What would be active if the Host committed the plan of r now.
Result(r) == [n \in r.plan \union ActiveNames(registered \ r.removing) |->
                 IF n \in r.plan THEN r.artifact[n] ELSE Active(n)]

\* A plan is the least set of names that has its roots and what they need.
Least(r) ==
    /\ r.roots \subseteq r.plan /\ r.roots \intersect r.removing = {}
    /\ Needs(r, r.plan)
    /\ \A S \in SUBSET r.plan : r.roots \subseteq S /\ Needs(r, S) => S = r.plan

\* What was captured of a registration is what it selects, for as long as it is
\* the same revision of the same record.
Captured(r) ==
    \A n \in r.plan :
        /\ r.artifact[n] \in Artifacts /\ r.record[n] <= record[n]
        /\ r.record[n] = record[n] => r.revision[n] <= revision[n]
        /\ n \in registered /\ r.record[n] = record[n] /\ r.revision[n] = revision[n] =>
             selected[n] = r.artifact[n]

\* On the Host of its plan, an execution installs what is not there, drops only
\* what it removes, and all of it fits together.
Matches(r) ==
    r.at \in Executing /\ hostRevision = r.base =>
        /\ Sound(Result(r)) /\ r.drops \subseteq r.removing
        /\ \A n \in r.pending : bound[n] # None
        /\ \A n \in r.plan \ r.pending : Active(n) = r.artifact[n]

CInv ==
    /\ \A n \in registered : selected[n] \in Artifacts
    /\ \A o \in Operations : /\ Unfinished(op[o].at) => Least(op[o]) /\ Captured(op[o])
                             /\ Matches(op[o])

\* What the theorem is about.
CommitFits ==
    \A o \in Operations : op[o].at = "applying" /\ ~op[o].took /\ op'[o].took =>
        Sound([n \in {m \in registered : bound[m] # None /\ handle'[m] = bound[m]
                                         /\ origin'[m] # None} |-> origin'[n]])

\* What q, which comes after r, has kept of it.
Follows(r, q) ==
    Unfinished(q.at) =>
        /\ Unfinished(r.at) /\ q.roots = r.roots /\ q.removing = r.removing /\ q.plan = r.plan
        /\ q.record = r.record /\ q.revision = r.revision /\ q.artifact = r.artifact
Continues(r, q) ==
    /\ Follows(r, q)
    /\ q.at \in Executing => /\ r.at \in Executing /\ q.pending = r.pending
                             /\ q.drops = r.drops /\ q.base = r.base
    /\ q.took => r.took

\* Nobody whom the Host works for takes hold.
LEMMA NobodyCommits ==
    ASSUME \A p \in Operations : op[p].at # "applying" \/ op[p].took \/ ~op'[p].took
    PROVE  CommitFits
BY DEF CommitFits

LEMMA InitFits == Init => CInv
<1> SUFFICES ASSUME Init PROVE CInv
  OBVIOUS
<1>1. \A o \in Operations : op[o].at = "free"
  BY FreeFacts DEF Init
<1> QED BY <1>1 DEF Init, CInv, Unfinished, Matches, Executing

\* Registrations only go on: what was captured of them stays true of them.
LEMMA CapturesStay ==
    ASSUME IInv, CInv, \A p \in Operations : Follows(op[p], op'[p]),
           op' \in [Operations -> OpRecords],
           \A n \in Names : record[n] \in Nat /\ record'[n] \in Nat
                            /\ revision[n] \in Nat /\ revision'[n] \in Nat,
           \A n \in Names : /\ record[n] <= record'[n]
                            /\ record'[n] = record[n] => revision[n] <= revision'[n]
                            /\ n \in registered' /\ record'[n] = record[n]
                                 /\ revision'[n] = revision[n] =>
                                 n \in registered /\ selected'[n] = selected[n],
           \A n \in registered' : selected'[n] \in Artifacts,
           \A p \in Operations : Matches(op[p])'
    PROVE  CInv'
<1> SUFFICES ASSUME NEW p \in Operations, Unfinished(op'[p].at)
             PROVE  Least(op'[p]) /\ Captured(op[p])'
  BY DEF CInv
<1>1. /\ Unfinished(op[p].at) /\ op'[p].roots = op[p].roots /\ op'[p].removing = op[p].removing
      /\ op'[p].plan = op[p].plan /\ op'[p].record = op[p].record
      /\ op'[p].revision = op[p].revision /\ op'[p].artifact = op[p].artifact
  BY DEF Follows
<1>2. Least(op[p]) /\ Captured(op[p]) /\ op[p] \in OpRecords
  BY <1>1, OpType DEF CInv
<1>3. Least(op'[p])
  BY <1>1, <1>2 DEF Least, Needs
<1>4. Captured(op[p])'
  <2> SUFFICES ASSUME NEW n \in op[p].plan
               PROVE  /\ op[p].artifact[n] \in Artifacts /\ op[p].record[n] <= record'[n]
                      /\ op[p].record[n] = record'[n] => op[p].revision[n] <= revision'[n]
                      /\ n \in registered' /\ op[p].record[n] = record'[n]
                           /\ op[p].revision[n] = revision'[n] => selected'[n] = op[p].artifact[n]
    BY <1>1 DEF Captured
  <2>1. n \in Names /\ op[p].record[n] \in Nat /\ op[p].revision[n] \in Nat
    BY <1>2 DEF OpRecords
  <2>2. /\ op[p].artifact[n] \in Artifacts /\ op[p].record[n] <= record[n]
        /\ op[p].record[n] = record[n] => op[p].revision[n] <= revision[n]
        /\ n \in registered /\ op[p].record[n] = record[n] /\ op[p].revision[n] = revision[n] =>
             selected[n] = op[p].artifact[n]
    BY <1>2 DEF Captured
  <2> QED BY <2>1, <2>2
<1> QED BY <1>3, <1>4

\* Registrations and the Host stay as they are.
LEMMA Continued ==
    ASSUME IInv, CInv, \A p \in Operations : Continues(op[p], op'[p]),
           op' \in [Operations -> OpRecords],
           UNCHANGED <<registered, record, revision, selected, bound, handle, origin, hostRevision>>
    PROVE  CInv' /\ CommitFits
<1>1. ASSUME NEW p \in Operations PROVE Matches(op[p])'
  <2> SUFFICES ASSUME op'[p].at \in Executing, hostRevision = op'[p].base
               PROVE  Matches(op[p])'
    BY DEF Matches
  <2>1. /\ op[p].at \in Executing /\ op'[p].pending = op[p].pending
        /\ op'[p].drops = op[p].drops /\ op'[p].base = op[p].base
        /\ op'[p].plan = op[p].plan /\ op'[p].removing = op[p].removing
        /\ op'[p].artifact = op[p].artifact
    BY DEF Continues, Follows, Executing, Unfinished
  <2>2. Matches(op[p])
    BY DEF CInv
  <2>3. Result(op[p])' = Result(op[p])
    BY <2>1 DEF Result, ActiveNames, Active, Installed
  <2> QED BY <2>1, <2>2, <2>3 DEF Matches, Active, Installed, Sound
<1>2. CInv'
  <2>1. \A n \in Names : record[n] \in Nat /\ revision[n] \in Nat
    BY DEF IInv, Types
  <2>2. \A n \in registered : n \in Names /\ selected[n] \in Artifacts
    BY DEF IInv, Types, CInv
  <2>3. \A p \in Operations : Follows(op[p], op'[p])
    BY DEF Continues
  <2> QED BY <1>1, <2>1, <2>2, <2>3, CapturesStay
<1>3. CommitFits
  BY DEF Continues, CommitFits
<1> QED BY <1>2, <1>3

\* One operation goes on.
LEMMA OneContinues ==
    ASSUME IInv, CInv, NEW o \in Operations, NEW new \in OpRecords, op' = [op EXCEPT ![o] = new],
           Continues(op[o], new),
           UNCHANGED <<registered, record, revision, selected, bound, handle, origin, hostRevision>>
    PROVE  CInv' /\ CommitFits
<1>1. op \in [Operations -> OpRecords]
  BY DEF IInv, Types
<1>2. op' \in [Operations -> OpRecords]
  BY <1>1
<1>3. ASSUME NEW p \in Operations PROVE Continues(op[p], op'[p])
  <2>1. CASE p = o
    BY <1>1, <2>1
  <2>2. CASE p # o
    BY <1>1, <2>2 DEF Continues, Follows
  <2> QED BY <2>1, <2>2
<1> QED BY <1>2, <1>3, Continued

LEMMA ThrownContinues ==
    ASSUME IInv, CInv, NEW o \in Operations, op' = Thrown(o), Unfinished(op[o].at),
           UNCHANGED <<registered, record, revision, selected, bound, handle, origin, hostRevision>>
    PROVE  CInv' /\ CommitFits
<1> DEFINE new == [op[o] EXCEPT !.at = "settling", !.outcome = "error"]
<1>1. op[o] \in OpRecords /\ op' = [op EXCEPT ![o] = new]
  BY OpType DEF Thrown, IInv, Types
<1>2. /\ new \in OpRecords /\ new.at = "settling" /\ new.roots = op[o].roots
      /\ new.removing = op[o].removing /\ new.plan = op[o].plan /\ new.record = op[o].record
      /\ new.revision = op[o].revision /\ new.artifact = op[o].artifact
      /\ new.took = op[o].took
  BY <1>1 DEF OpRecords, Points, Outcomes
<1> HIDE DEF new
<1>3. Continues(op[o], new)
  BY <1>2 DEF Continues, Follows, Executing
<1> QED BY <1>1, <1>2, <1>3, OneContinues

\* An operation ends.
LEMMA EndContinues ==
    ASSUME IInv, CInv, NEW o \in Operations, NEW new \in OpRecords, op' = [op EXCEPT ![o] = new],
           ~Unfinished(new.at), new.took => op[o].took,
           UNCHANGED <<registered, record, revision, selected, bound, handle, origin, hostRevision>>
    PROVE  CInv' /\ CommitFits
<1>1. Continues(op[o], new)
  BY DEF Continues, Follows, Executing, Unfinished
<1> QED BY <1>1, OneContinues

\* Signals are aborted.
LEMMA AbortContinues ==
    ASSUME IInv, CInv, NEW S, op' = Aborted(S),
           UNCHANGED <<registered, record, revision, selected, bound, handle, origin, hostRevision>>
    PROVE  CInv' /\ CommitFits
<1>1. op' \in [Operations -> OpRecords] /\ \A p \in Operations : Alike(op'[p], op[p])
  BY AbortedFacts
<1>2. \A p \in Operations : Continues(op[p], op'[p])
  BY <1>1 DEF Alike, Continues, Follows, Executing, Unfinished
<1> QED BY <1>1, <1>2, Continued

\* One operation goes on and keeps all it captured and staged.
Kept(r, q) ==
    /\ q.roots = r.roots /\ q.removing = r.removing /\ q.plan = r.plan
    /\ q.record = r.record /\ q.revision = r.revision /\ q.artifact = r.artifact
    /\ q.pending = r.pending /\ q.drops = r.drops /\ q.base = r.base /\ q.took = r.took

LEMMA KeptContinues ==
    ASSUME IInv, CInv, NEW o \in Operations, NEW new \in OpRecords, op' = [op EXCEPT ![o] = new],
           Kept(op[o], new), Unfinished(op[o].at),
           new.at \in Executing => op[o].at \in Executing,
           UNCHANGED <<registered, record, revision, selected, bound, handle, origin, hostRevision>>
    PROVE  CInv' /\ CommitFits
<1>1. Continues(op[o], new)
  BY DEF Kept, Continues, Follows
<1> QED BY <1>1, OneContinues

LEMMA LoadNextFits == ASSUME IInv, CInv, NEW o \in Operations, LoadNext(o)
                      PROVE  CInv' /\ CommitFits
<1>1. op[o].at = "loading" /\ op[o] \in OpRecords
      /\ UNCHANGED <<registered, record, revision, selected, bound, handle, origin, hostRevision>>
  BY OpType DEF LoadNext, records, host
<1>2. PICK n \in op[o].todo :
        \/ op' = Thrown(o)
        \/ op' = [op EXCEPT ![o] = [op[o] EXCEPT !.todo = op[o].todo \ {n}]]
        \/ op' = [op EXCEPT ![o] = [op[o] EXCEPT !.at = "waiting", !.todo = op[o].todo \ {n},
                                                 !.loading = op[o].artifact[n]]]
  BY DEF LoadNext
<1>3. CASE op' = Thrown(o)
  BY <1>1, <1>3, ThrownContinues DEF Unfinished
<1>4. CASE op' = [op EXCEPT ![o] = [op[o] EXCEPT !.todo = op[o].todo \ {n}]]
  <2> DEFINE new == [op[o] EXCEPT !.todo = op[o].todo \ {n}]
  <2>1. new \in OpRecords /\ new.at = "loading" /\ Kept(op[o], new)
    BY <1>1 DEF OpRecords, Kept
  <2> HIDE DEF new
  <2>2. op' = [op EXCEPT ![o] = new]
    BY <1>4 DEF new
  <2> QED BY <1>1, <2>1, <2>2, KeptContinues DEF Unfinished, Executing
<1>5. CASE op' = [op EXCEPT ![o] = [op[o] EXCEPT !.at = "waiting", !.todo = op[o].todo \ {n},
                                                !.loading = op[o].artifact[n]]]
  <2> DEFINE new == [op[o] EXCEPT !.at = "waiting", !.todo = op[o].todo \ {n},
                                  !.loading = op[o].artifact[n]]
  <2>1. op[o].artifact[n] \in Artifacts \union {None}
    BY <1>1 DEF OpRecords
  <2>2. new \in OpRecords /\ new.at = "waiting" /\ Kept(op[o], new)
    BY <1>1, <2>1 DEF OpRecords, Points, Kept
  <2> HIDE DEF new
  <2>3. op' = [op EXCEPT ![o] = new]
    BY <1>5 DEF new
  <2> QED BY <1>1, <2>2, <2>3, KeptContinues DEF Unfinished, Executing
<1> QED BY <1>2, <1>3, <1>4, <1>5

LEMMA LoadSucceedsFits == ASSUME IInv, CInv, NEW o \in Operations, LoadSucceeds(o)
                          PROVE  CInv' /\ CommitFits
<1> DEFINE new == [op[o] EXCEPT !.at = "loading", !.loading = None,
                                !.loaded = op[o].loaded \union {op[o].loading}]
<1>1. op[o].at = "waiting" /\ op[o] \in OpRecords /\ op' = [op EXCEPT ![o] = new]
      /\ UNCHANGED <<registered, record, revision, selected, bound, handle, origin, hostRevision>>
  BY OpType DEF LoadSucceeds, records, host
<1>2. new \in OpRecords /\ new.at = "loading" /\ Kept(op[o], new)
  BY <1>1 DEF OpRecords, Points, Kept
<1> HIDE DEF new
<1> QED BY <1>1, <1>2, KeptContinues DEF Unfinished, Executing

LEMMA ReadyFits == ASSUME IInv, CInv, NEW o \in Operations, Ready(o)
                   PROVE  CInv' /\ CommitFits
<1> DEFINE new == [op[o] EXCEPT !.at = "ready"]
<1>1. op[o].at = "loading" /\ op[o] \in OpRecords /\ (op' = Thrown(o) \/ op' = [op EXCEPT ![o] = new])
      /\ UNCHANGED <<registered, record, revision, selected, bound, handle, origin, hostRevision>>
  BY OpType DEF Ready, records, host
<1>2. new \in OpRecords /\ new.at = "ready" /\ Kept(op[o], new)
  BY <1>1 DEF OpRecords, Points, Kept
<1> HIDE DEF new
<1>3. CASE op' = Thrown(o)
  BY <1>1, <1>3, ThrownContinues DEF Unfinished
<1>4. CASE op' = [op EXCEPT ![o] = new]
  BY <1>1, <1>2, <1>4, KeptContinues DEF Unfinished, Executing
<1> QED BY <1>1, <1>3, <1>4

\* The activation fails, wherever this is noticed.
LEMMA FailuresFit ==
    ASSUME IInv, CInv, NEW o \in Operations, Refused(o) \/ ExecuteFails(o)
    PROVE  CInv' /\ CommitFits
<1>1. op' = Thrown(o) /\ Unfinished(op[o].at)
      /\ UNCHANGED <<registered, record, revision, selected, bound, handle, origin, hostRevision>>
  BY DEF Refused, ExecuteFails, Begun, Unfinished, records, host
<1> QED BY <1>1, ThrownContinues

LEMMA PlannedFits == ASSUME IInv, CInv, NEW o \in Operations, Planned(o)
                     PROVE  CInv' /\ CommitFits
<1>1. op[o].at = "planning" /\ op[o] \in OpRecords
      /\ UNCHANGED <<registered, record, revision, selected, bound, handle, origin, hostRevision>>
  BY OpType DEF Planned, records, host
<1>2. PICK R \in SUBSET Names :
        \/ op' = Thrown(o)
        \/ op' = [op EXCEPT ![o] = [op[o] EXCEPT !.at = "admitting", !.restarts = R]]
  BY DEF Planned
<1>3. CASE op' = Thrown(o)
  BY <1>1, <1>3, ThrownContinues DEF Unfinished
<1>4. CASE op' = [op EXCEPT ![o] = [op[o] EXCEPT !.at = "admitting", !.restarts = R]]
  <2> DEFINE new == [op[o] EXCEPT !.at = "admitting", !.restarts = R]
  <2>1. new \in OpRecords /\ new.at = "admitting" /\ Kept(op[o], new)
    BY <1>1 DEF OpRecords, Points, Kept
  <2> HIDE DEF new
  <2>2. op' = [op EXCEPT ![o] = new]
    BY <1>4 DEF new
  <2> QED BY <1>1, <2>1, <2>2, KeptContinues DEF Unfinished, Executing
<1> QED BY <1>2, <1>3, <1>4

LEMMA AdmittedFits == ASSUME IInv, CInv, NEW o \in Operations, Admitted(o)
                      PROVE  CInv' /\ CommitFits
<1> DEFINE new == [op[o] EXCEPT !.at = "admitted", !.granted = Admission(o)]
<1>1. op[o].at = "admitting" /\ hostRevision = op[o].base /\ op[o] \in OpRecords /\ Fit(op[o])
      /\ op' = [op EXCEPT ![o] = new]
      /\ UNCHANGED <<registered, record, revision, selected, bound, handle, origin, hostRevision>>
  BY OpType DEF Admitted, Interrupted, records, host, IInv, Fitness
<1>2. Admission(o) \subseteq Artifacts \union {None}
  <2>1. \A n \in Names : origin[n] \in Artifacts \union {None}
                         /\ op[o].artifact[n] \in Artifacts \union {None}
    BY <1>1 DEF IInv, Types, OpRecords
  <2>2. op[o].pending \subseteq Names /\ op[o].restarts \subseteq Names
    BY <1>1 DEF OpRecords
  <2> QED BY <2>1, <2>2 DEF Admission, Active
<1>3. new \in OpRecords /\ new.at = "admitted" /\ Kept(op[o], new)
  BY <1>1, <1>2 DEF OpRecords, Points, Kept
<1> HIDE DEF new
<1> QED BY <1>1, <1>3, KeptContinues DEF Unfinished, Executing

LEMMA HandoffFits == ASSUME IInv, CInv, NEW o \in Operations, Handoff(o)
                     PROVE  CInv' /\ CommitFits
<1> DEFINE new == [op[o] EXCEPT !.at = "applying", !.handed = TRUE]
<1>1. op[o].at = "admitted" /\ op[o] \in OpRecords /\ (op' = Thrown(o) \/ op' = [op EXCEPT ![o] = new])
      /\ UNCHANGED <<registered, record, revision, selected, bound, handle, origin, hostRevision>>
  BY OpType DEF Handoff, records, host
<1>2. new \in OpRecords /\ new.at = "applying" /\ Kept(op[o], new)
  BY <1>1 DEF OpRecords, Points, Kept
<1> HIDE DEF new
<1>3. CASE op' = Thrown(o)
  BY <1>1, <1>3, ThrownContinues DEF Unfinished
<1>4. CASE op' = [op EXCEPT ![o] = new]
  BY <1>1, <1>2, <1>4, KeptContinues DEF Unfinished, Executing
<1> QED BY <1>1, <1>3, <1>4

LEMMA SettleFits == ASSUME IInv, CInv, NEW o \in Operations, Settle(o)
                    PROVE  CInv' /\ CommitFits
<1> DEFINE verdict == IF op[o].aborted /\ op[o].outcome # "ok" THEN "aborted" ELSE op[o].outcome
           new == [Free EXCEPT !.at = "done", !.outcome = verdict,
                               !.handed = op[o].handed, !.took = op[o].took]
<1>1. op[o] \in OpRecords /\ op' = [op EXCEPT ![o] = new]
      /\ UNCHANGED <<registered, record, revision, selected, bound, handle, origin, hostRevision>>
  BY OpType DEF Settle, records, host
<1>2. verdict \in Outcomes
  BY <1>1 DEF OpRecords, Outcomes
<1> HIDE DEF verdict
<1>3. new \in OpRecords /\ new.at = "done" /\ new.took = op[o].took
  BY <1>1, <1>2, FreeFacts DEF Free, OpRecords, Points
<1> HIDE DEF new
<1> QED BY <1>1, <1>3, EndContinues DEF Unfinished

LEMMA CallFits ==
    ASSUME IInv, CInv, NEW o \in Operations, NEW R \in SUBSET Names, NEW D \in SUBSET Names,
           Call(o, R, D)
    PROVE  CInv' /\ CommitFits
<1> DEFINE captured == [n \in Names |-> IF n \in R \union D THEN record[n] ELSE 0]
           new == [op[o] EXCEPT !.at = "called", !.roots = R, !.removing = D,
                                !.record = captured]
<1>1. op[o] \in OpRecords /\ op' = [op EXCEPT ![o] = new]
      /\ UNCHANGED <<registered, record, revision, selected, bound, handle, origin, hostRevision>>
  BY OpType DEF Call, records, host
<1>2. captured \in [Names -> Nat]
  BY DEF IInv, Types
<1> HIDE DEF captured
<1>3. new \in OpRecords /\ new.at = "called" /\ new.took = op[o].took
  BY <1>1, <1>2 DEF OpRecords, Points
<1> HIDE DEF new
<1> QED BY <1>1, <1>3, EndContinues DEF Unfinished

LEMMA CancelFits == ASSUME IInv, CInv, NEW o \in Operations, Cancel(o)
                    PROVE  CInv' /\ CommitFits
<1> DEFINE ended == [Free EXCEPT !.at = "done", !.outcome = "aborted"]
<1>1. /\ op' = [op EXCEPT ![o] = ended] \/ op' = Aborted({o})
      /\ UNCHANGED <<registered, record, revision, selected, bound, handle, origin, hostRevision>>
  BY DEF Cancel, records, host
<1>2. ended \in OpRecords /\ ended.at = "done" /\ ~ended.took
  BY FreeFacts DEF Free, OpRecords, Points, Outcomes
<1> HIDE DEF ended
<1> QED BY <1>1, <1>2, EndContinues, AbortContinues DEF Unfinished

LEMMA DisposeFits == ASSUME IInv, CInv, Dispose PROVE CInv' /\ CommitFits
BY AbortContinues DEF Dispose, records, host

\* Nothing that the invariant speaks of changes.
LEMMA RestFits ==
    ASSUME IInv, CInv,
           UNCHANGED <<registered, record, revision, selected, bound, handle, origin,
                       hostRevision, op>>
    PROVE  CInv' /\ CommitFits
<1>1. op' \in [Operations -> OpRecords]
  BY DEF IInv, Types
<1>2. \A p \in Operations : Continues(op[p], op'[p])
  BY DEF Continues, Follows
<1> QED BY <1>1, <1>2, Continued

-----------------------------------------------------------------------------
(* A plan is made, and found to be still the plan.                         *)

\* What a valid plan is made of is the least set that has its roots and what
\* they need: what is needed is there, as all of it fits together.
LEMMA PlanIsLeast ==
    ASSUME NEW r, \A n \in r.plan : r.artifact[n] = selected[n],
           r.plan = Selections(r.roots, r.removing), r.roots \subseteq registered,
           ValidPlan(r.roots, r.removing)
    PROVE  Least(r)
<1> DEFINE R == r.roots
           D == r.removing
           S == r.plan
           all == {T \in SUBSET registered : R \ D \subseteq T /\ Closed(T, D)}
<1>1. S = {n \in registered : \A T \in all : n \in T}
  BY DEF Selections
<1>2. R \intersect D = {} /\ Sound(Candidate(S, D))
  BY DEF ValidPlan
<1>3. \A T \in all : T \subseteq registered /\ R \subseteq T /\ Closed(T, D)
  BY <1>2
<1>4. \A T \in SUBSET registered : R \subseteq T /\ Closed(T, D) => T \in all
  BY <1>2
<1> HIDE DEF all
<1>5. R \subseteq S
  BY <1>1, <1>3
<1>6. Needs(r, S)
  <2> SUFFICES ASSUME NEW n \in S, NEW d \in DOMAIN Deps[selected[n]] PROVE d \in S
    BY DEF Needs
  <2>1. d \in S \union (registered \ D)
    <3>1. n \in DOMAIN Candidate(S, D) /\ Candidate(S, D)[n] = selected[n]
          /\ DOMAIN Candidate(S, D) \subseteq S \union (registered \ D)
      BY DEF Candidate, ActiveNames
    <3> QED BY <1>2, <3>1 DEF Sound
  <2>2. ASSUME d \in registered \ D PROVE d \in S
    <3>1. \A T \in all : n \in T /\ Closed(T, D)
      BY <1>1, <1>3
    <3>2. \A T \in all : d \in T
      BY <2>2, <3>1 DEF Closed
    <3> QED BY <1>1, <2>2, <3>2
  <2> QED BY <2>1, <2>2
<1>7. ASSUME NEW T \in SUBSET S, R \subseteq T, Needs(r, T) PROVE T = S
  <2>1. Closed(T, D)
    BY <1>7 DEF Closed, Needs
  <2>2. T \in all
    BY <1>1, <1>4, <1>7, <2>1
  <2> QED BY <1>1, <2>2
<1> QED BY <1>2, <1>5, <1>6, <1>7 DEF Least

\* While what it captured is still selected, it would be captured again.
LEMMA PlanIsStillThePlan ==
    ASSUME NEW r, Least(r), r.plan \intersect r.removing = {}, r.plan \subseteq registered,
           \A n \in r.plan : r.artifact[n] = selected[n]
    PROVE  Selections(r.roots, r.removing) = r.plan
<1> DEFINE R == r.roots
           D == r.removing
           S == Selections(R, D)
           all == {T \in SUBSET registered : R \ D \subseteq T /\ Closed(T, D)}
<1>1. S = {n \in registered : \A T \in all : n \in T}
  BY DEF Selections
<1>2. \A T \in all : R \subseteq T /\ Closed(T, D)
  BY DEF Least
<1>3. r.plan \in all
  <2>1. R \ D \subseteq r.plan
    BY DEF Least
  <2>2. Closed(r.plan, D)
    BY DEF Least, Needs, Closed
  <2> QED BY <2>1, <2>2
<1> HIDE DEF all, S
<1>4. S \subseteq r.plan
  BY <1>1, <1>3
<1>5. R \subseteq S
  <2>1. R \subseteq registered
    BY DEF Least
  <2> QED BY <1>1, <1>2, <2>1
<1>6. Needs(r, S)
  <2> SUFFICES ASSUME NEW n \in S, NEW d \in DOMAIN Deps[r.artifact[n]] PROVE d \in S
    BY DEF Needs
  <2>1. n \in r.plan /\ r.artifact[n] = selected[n]
    BY <1>4
  <2>2. d \in r.plan
    BY <2>1 DEF Least, Needs
  <2>3. d \in registered \ D
    BY <2>2
  <2>4. \A T \in all : d \in T
    BY <1>1, <1>2, <2>1, <2>3 DEF Closed
  <2> QED BY <1>1, <2>3, <2>4
<1>7. S = r.plan
  BY <1>4, <1>5, <1>6 DEF Least
<1> QED BY <1>7 DEF S

LEMMA BeginFits == ASSUME IInv, CInv, NEW o \in Operations, Begin(o)
                   PROVE  CInv' /\ CommitFits
<1> DEFINE R == op[o].roots
           D == op[o].removing
           S == Selections(R, D)
           records0 == [n \in Names |-> IF n \in S \union D THEN record[n] ELSE 0]
           revisions0 == [n \in Names |-> IF n \in S \union D THEN revision[n] ELSE 0]
           artifacts0 == [n \in Names |-> IF n \in S THEN selected[n] ELSE None]
           captured == [op[o] EXCEPT !.at = "loading", !.plan = S, !.todo = S,
                           !.record = records0, !.revision = revisions0, !.artifact = artifacts0]
           ended == [Free EXCEPT !.at = "done", !.outcome = "error"]
<1>1. op[o].at = "called" /\ op[o] \in OpRecords
      /\ UNCHANGED <<registered, record, revision, selected, bound, handle, origin, hostRevision>>
  BY OpType DEF Begin, host
<1>2. ended \in OpRecords /\ ended.at = "done" /\ ~ended.took
  BY FreeFacts DEF Free, OpRecords, Points, Outcomes
<1>3. \/ op' = [op EXCEPT ![o] = ended]
      \/ op' = [op EXCEPT ![o] = captured] /\ Resolved(o) /\ ValidPlan(R, D)
  BY DEF Begin
<1>4. CASE op' = [op EXCEPT ![o] = ended]
  <2> HIDE DEF ended
  <2> QED BY <1>1, <1>2, <1>4, EndContinues DEF Unfinished
<1>5. CASE op' = [op EXCEPT ![o] = captured] /\ Resolved(o) /\ ValidPlan(R, D)
  <2>1. R \subseteq registered /\ registered \subseteq Names
    BY <1>5 DEF Resolved, IInv, Types
  <2>2. S \subseteq registered
    BY <2>1, SelectionsStay
  <2> HIDE DEF S
  <2>3. /\ records0 \in [Names -> Nat] /\ revisions0 \in [Names -> Nat]
        /\ artifacts0 \in [Names -> Artifacts \union {None}]
    BY DEF IInv, Types
  <2>4. \A n \in S : records0[n] = record[n] /\ revisions0[n] = revision[n]
                     /\ artifacts0[n] = selected[n]
    BY <2>1, <2>2
  <2> HIDE DEF records0, revisions0, artifacts0
  <2>5. /\ captured \in OpRecords /\ captured.at = "loading" /\ captured.plan = S
        /\ captured.roots = R /\ captured.removing = D /\ captured.record = records0
        /\ captured.revision = revisions0 /\ captured.artifact = artifacts0
    BY <1>1, <2>1, <2>2, <2>3 DEF OpRecords, Points
  <2> HIDE DEF captured
  <2>6. Least(captured)
    BY <1>5, <2>1, <2>4, <2>5, PlanIsLeast DEF S
  <2>7. Captured(captured)
    <3>1. \A n \in S : /\ record[n] \in Nat /\ revision[n] \in Nat /\ selected[n] \in Artifacts
      BY <2>1, <2>2 DEF IInv, Types, CInv
    <3> QED BY <2>4, <2>5, <3>1 DEF Captured
  <2>8. op \in [Operations -> OpRecords]
    BY DEF IInv, Types
  <2>9. op' \in [Operations -> OpRecords] /\ op'[o] = captured
        /\ \A p \in Operations \ {o} : op'[p] = op[p]
    BY <1>5, <2>5, <2>8
  <2>10. \A n \in registered' : selected'[n] \in Artifacts
    BY <1>1 DEF CInv
  <2>11. Least(op[o])' /\ Captured(op[o])' /\ Matches(op[o])'
    <3>1. op'[o].at \notin Executing
      BY <2>5, <2>9 DEF Executing
    <3> QED BY <1>1, <2>6, <2>7, <2>9, <3>1 DEF Least, Needs, Captured, Matches
  <2>12. ASSUME NEW p \in Operations \ {o}
         PROVE  /\ (Unfinished(op[p].at) => Least(op[p]) /\ Captured(op[p]))'
                /\ Matches(op[p])'
    <3>1. op'[p] = op[p] /\ Matches(op[p])
          /\ (Unfinished(op[p].at) => Least(op[p]) /\ Captured(op[p]))
      BY <2>9 DEF CInv
    <3>2. Matches(op[p])'
      <4>1. (Result(op[p]))' = Result(op[p])
        BY <1>1, <3>1 DEF Result, ActiveNames, Active, Installed
      <4>2. \A n \in Names : Active(n)' = Active(n)
        BY <1>1 DEF Active, Installed
      <4>3. (Sound(Result(op[p])))' <=> Sound(Result(op[p]))
        BY <4>1 DEF Sound
      <4> QED BY <1>1, <3>1, <4>2, <4>3 DEF Matches, Active, Installed
    <3>3. (Unfinished(op[p].at) => Least(op[p]) /\ Captured(op[p]))'
      BY <1>1, <3>1 DEF Unfinished, Least, Needs, Captured
    <3> QED BY <3>2, <3>3
  <2>13. CInv'
    BY <2>10, <2>11, <2>12 DEF CInv
  <2>14. CommitFits
    <3>1. op[o].at # "applying"
      BY DEF Begin
    <3> QED BY <2>9, <3>1, NobodyCommits
  <2> QED BY <2>13, <2>14
<1> QED BY <1>3, <1>4, <1>5

-----------------------------------------------------------------------------
(* Steps that change registrations or the Host.                            *)

\* No activation is executing, or only the one that ends.
LEMMA NobodyMatches ==
    ASSUME \A p \in Operations : op'[p].at \notin Executing
    PROVE  \A p \in Operations : Matches(op[p])'
BY DEF Matches

\* The Host refuses: whoever executed does so no more.
LEMMA HostRefusesFits == ASSUME IInv, CInv, NEW o \in Operations, HostRefuses(o)
                         PROVE  CInv' /\ CommitFits
<1> DEFINE new == [op[o] EXCEPT !.at = "settling", !.outcome = "error"]
<1>1. op[o].at = "applying" /\ op' = Thrown(o)
      /\ UNCHANGED <<registered, record, revision, selected>>
  BY DEF HostRefuses, records
<1>2. op[o] \in OpRecords /\ op \in [Operations -> OpRecords]
  BY DEF IInv, Types
<1>3. new \in OpRecords /\ new.at = "settling" /\ Kept(op[o], new)
  BY <1>2 DEF OpRecords, Points, Outcomes, Kept
<1>4. op' = [op EXCEPT ![o] = new]
  BY <1>1, <1>2 DEF Thrown
<1> HIDE DEF new
<1>5. op' \in [Operations -> OpRecords] /\ op'[o] = new
      /\ \A p \in Operations \ {o} : op'[p] = op[p]
  BY <1>2, <1>3, <1>4
<1>6. \A p \in Operations \ {o} : op[p].at \notin Holding
  BY <1>1 DEF IInv, Roles, Holding
<1>7. \A p \in Operations : op'[p].at \notin Executing
  BY <1>3, <1>5, <1>6 DEF Holding, Executing
<1>8. \A p \in Operations : Follows(op[p], op'[p])
  <2>1. Follows(op[o], new)
    BY <1>1, <1>3 DEF Follows, Kept, Unfinished
  <2> QED BY <1>5, <2>1 DEF Follows
<1>9. CInv'
  <2>1. \A n \in Names : record[n] \in Nat /\ revision[n] \in Nat
    BY DEF IInv, Types
  <2>2. \A n \in registered : n \in Names /\ selected[n] \in Artifacts
    BY DEF IInv, Types, CInv
  <2>3. \A p \in Operations : Matches(op[p])'
    BY <1>7, NobodyMatches
  <2> QED BY <1>1, <1>5, <1>8, <2>1, <2>2, <2>3, CapturesStay
<1>10. CommitFits
  <2>1. \A p \in Operations \ {o} : op[p].at # "applying"
    BY <1>6 DEF Holding
  <2>2. op'[o].took = op[o].took
    BY <1>3, <1>5 DEF Kept
  <2> QED BY <2>1, <2>2, NobodyCommits
<1> QED BY <1>9, <1>10

LEMMA SelectFits == ASSUME IInv, CInv, NEW A \in SUBSET Artifacts, Select(A)
                    PROVE  CInv' /\ CommitFits
<1> DEFINE new == Introduced(A)
           changed == new \union Reselected(A)
           choice(n) == CHOOSE a \in A : NameOf[a] = n
           over == {o \in Operations : \E n \in changed : Touches(o, n)}
<1>1. /\ executing = None /\ registered' = registered \union new
      /\ record' = [n \in Names |-> IF n \in new THEN record[n] + 1 ELSE record[n]]
      /\ revision' = [n \in Names |-> CASE n \in new     -> 1
                                        [] n \in changed \ new -> revision[n] + 1
                                        [] OTHER        -> revision[n]]
      /\ selected' = [n \in Names |-> IF n \in changed THEN choice(n) ELSE selected[n]]
      /\ op' = Aborted(over)
  BY DEF Select, QueueIdle
<1>2. \A n \in changed : choice(n) \in Artifacts
  <2>1. \A n \in changed : \E a \in A : NameOf[a] = n
    BY DEF Introduced, Reselected
  <2> QED BY <2>1
<1>3. new \subseteq Names /\ changed \subseteq Names /\ new \subseteq changed
      /\ registered \subseteq Names
  BY NamesApart DEF Introduced, Reselected, IInv, Types
<1> HIDE DEF new, changed, choice, over
<1>4. op' \in [Operations -> OpRecords] /\ \A p \in Operations : Alike(op'[p], op[p])
  BY <1>1, AbortedFacts
<1>5. \A p \in Operations : /\ op[p].at # "applying"
                             /\ op'[p].at \notin Holding /\ Follows(op[p], op'[p])
  <2>1. \A p \in Operations : op[p].at \notin Holding
    BY <1>1, NamesApart DEF IInv, Roles
  <2> QED BY <1>4, <2>1 DEF Alike, Holding, Follows, Unfinished
<1>6. \A n \in Names : record[n] \in Nat /\ revision[n] \in Nat
  BY DEF IInv, Types
<1>7. \A n \in Names : /\ n \in new => record'[n] = record[n] + 1 /\ revision'[n] = 1
                       /\ n \in changed \ new => /\ record'[n] = record[n]
                                                 /\ revision'[n] = revision[n] + 1
                       /\ n \notin changed => /\ record'[n] = record[n]
                                              /\ revision'[n] = revision[n]
                                              /\ selected'[n] = selected[n]
  BY <1>1, <1>3
<1>8. \A n \in Names : record'[n] \in Nat /\ revision'[n] \in Nat
  BY <1>3, <1>6, <1>7
<1>9. \A n \in Names : /\ record[n] <= record'[n]
                       /\ record'[n] = record[n] => revision[n] <= revision'[n]
                       /\ n \in registered' /\ record'[n] = record[n]
                            /\ revision'[n] = revision[n] =>
                            n \in registered /\ selected'[n] = selected[n]
  BY <1>1, <1>3, <1>6, <1>7
<1>10. \A n \in registered' : selected'[n] \in Artifacts
  BY <1>1, <1>2, <1>3 DEF CInv
<1>11. CInv'
  <2>1. \A p \in Operations : Matches(op[p])'
    BY <1>5, NobodyMatches DEF Holding, Executing
  <2> QED BY <1>4, <1>5, <1>6, <1>8, <1>9, <1>10, <2>1, CapturesStay
<1>12. CommitFits
  BY <1>5, NobodyCommits
<1> QED BY <1>11, <1>12

\* The removals of an activation take effect.
LEMMA CommitSelectionsFits ==
    ASSUME IInv, CInv, NEW o \in Operations, NEW waiting, CommitSelections(o, waiting),
           op[o].at \in {"ready", "applied"}, executing \in {None, o}
    PROVE  CInv' /\ CommitFits
<1> DEFINE D == op[o].removing
           over == {p \in Operations \ {o} : \E n \in D : Touches(p, n)}
           new == [op[o] EXCEPT !.at = "settling", !.outcome = "ok"]
<1>1. /\ registered' = registered \ D /\ selected' = Forgotten(D, selected)
      /\ op' = [Aborted(over) EXCEPT ![o].at = "settling", ![o].outcome = "ok"]
      /\ UNCHANGED <<record, revision, handle, origin, hostRevision>>
  BY DEF CommitSelections, host
<1>2. /\ Aborted(over) \in [Operations -> OpRecords] /\ Aborted(over)[o] = op[o]
      /\ \A p \in Operations : Alike(Aborted(over)[p], op[p])
  BY AbortedFacts
<1>3. op[o] \in OpRecords
  BY OpType
<1>4. /\ new \in OpRecords /\ new.at = "settling" /\ new.roots = op[o].roots
      /\ new.removing = op[o].removing /\ new.plan = op[o].plan /\ new.record = op[o].record
      /\ new.revision = op[o].revision /\ new.artifact = op[o].artifact
  BY <1>3 DEF OpRecords, Points, Outcomes
<1>5. op' = [Aborted(over) EXCEPT ![o] = new]
  BY <1>1, <1>2
<1> HIDE DEF new, over
<1>6. op' \in [Operations -> OpRecords] /\ op'[o] = new
      /\ \A p \in Operations \ {o} : Alike(op'[p], op[p])
  BY <1>2, <1>4, <1>5
<1>7. \A p \in Operations : /\ op[p].at # "applying"
                             /\ op'[p].at \notin Holding /\ Follows(op[p], op'[p])
  <2>1. \A p \in Operations \ {o} : op[p].at \notin Holding
    BY NamesApart DEF IInv, Roles
  <2>2. \A p \in Operations \ {o} : /\ op[p].at # "applying"
                                      /\ op'[p].at \notin Holding /\ Follows(op[p], op'[p])
    BY <1>6, <2>1 DEF Alike, Holding, Follows, Unfinished
  <2>3. op'[o].at \notin Holding /\ Follows(op[o], op'[o])
    BY <1>4, <1>6 DEF Holding, Follows, Unfinished
  <2> QED BY <2>2, <2>3
<1>8. /\ \A n \in Names : record[n] \in Nat /\ revision[n] \in Nat
      /\ registered \subseteq Names /\ \A n \in registered : selected[n] \in Artifacts
  BY DEF IInv, Types, CInv
<1>9. \A n \in registered' : n \in registered /\ selected'[n] = selected[n]
  BY <1>1, <1>8 DEF Forgotten
<1>10. CInv'
  <2>1. \A p \in Operations : Matches(op[p])'
    BY <1>7, NobodyMatches DEF Holding, Executing
  <2> QED BY <1>1, <1>6, <1>7, <1>8, <1>9, <2>1, CapturesStay
<1>11. CommitFits
  BY <1>7, NobodyCommits
<1> QED BY <1>10, <1>11

LEMMA NothingToDoFits == ASSUME IInv, CInv, NEW o \in Operations, NothingToDo(o)
                         PROVE  CInv' /\ CommitFits
<1>1. op[o].at = "ready" /\ executing = None /\ CommitSelections(o, Tail(queue))
  BY DEF NothingToDo, Begun, Turn
<1> QED BY <1>1, CommitSelectionsFits

LEMMA AppliedFits == ASSUME IInv, CInv, NEW o \in Operations, Applied(o)
                     PROVE  CInv' /\ CommitFits
<1>1. op[o].at = "applied" /\ CommitSelections(o, queue)
  BY DEF Applied
<1>2. executing = o
  BY <1>1 DEF IInv, Roles, Holding
<1> QED BY <1>1, <1>2, CommitSelectionsFits

\* A release runs when every activation has ended, and leaves no registration.
LEMMA ReleaseSucceedsFits == ASSUME IInv, CInv, ReleaseSucceeds
                             PROVE  CInv' /\ CommitFits
<1>1. registered' = {} /\ op' = op /\ \A o \in Operations : ~Unfinished(op[o].at)
  BY DEF ReleaseSucceeds, IInv, Roles
<1>2. \A o \in Operations : Matches(op[o])'
  BY <1>1, NobodyMatches DEF Unfinished, Executing
<1>3. CommitFits
  BY <1>1, NobodyCommits DEF Unfinished
<1> QED BY <1>1, <1>2, <1>3 DEF CInv, Unfinished

\* A release that fails has been alone, too.
LEMMA ReleaseFailsFits == ASSUME IInv, CInv, ReleaseFails
                          PROVE  CInv' /\ CommitFits
<1>1. /\ UNCHANGED <<registered, selected, op>>
      /\ \A o \in Operations : ~Unfinished(op[o].at)
  BY DEF ReleaseFails, records, IInv, Roles
<1>2. \A o \in Operations : Matches(op[o])'
  BY <1>1, NobodyMatches DEF Unfinished, Executing
<1>3. CommitFits
  BY <1>1, NobodyCommits DEF Unfinished
<1> QED BY <1>1, <1>2, <1>3 DEF CInv, Unfinished

\* What outsiders commit gives the Host a revision that no activation has planned for.
LEMMA OutsideFits ==
    ASSUME IInv, CInv, hostRevision' = hostRevision + 1, UNCHANGED <<records, op>>
    PROVE  CInv' /\ CommitFits
<1>1. \A p \in Operations : Follows(op[p], op'[p])
  BY DEF Follows
<1>2. op' \in [Operations -> OpRecords] /\ hostRevision \in Nat
  BY DEF IInv, Types
<1>3. \A n \in Names : record[n] \in Nat /\ revision[n] \in Nat
  BY DEF IInv, Types
<1>4. ASSUME NEW p \in Operations PROVE Matches(op[p])'
  <2>1. op[p].at \in Executing => op[p].base <= hostRevision
    BY DEF IInv, Fitness, Fit, Holding, Executing
  <2>2. op[p].base \in Nat
    BY OpType DEF OpRecords
  <2>3. op[p].at \in Executing => op[p].base # hostRevision'
    BY <1>2, <2>1, <2>2
  <2> QED BY <2>3 DEF Matches
<1>5. CInv'
  <2>1. UNCHANGED <<registered, record, revision, selected>>
    BY DEF records
  <2>2. \A n \in registered : n \in Names /\ selected[n] \in Artifacts
    BY DEF IInv, Types, CInv
  <2> QED BY <1>1, <1>2, <1>3, <1>4, <2>1, <2>2, CapturesStay
<1>6. CommitFits
  BY NobodyCommits
<1> QED BY <1>5, <1>6

-----------------------------------------------------------------------------
(* An execution begins, and the Host commits it.                           *)

\* What is bound anew is not installed before or after.
LEMMA BindingKeepsInstalled ==
    ASSUME IInv, NEW o \in Operations, NEW staged,
           bound' = [n \in Names |-> IF n \in staged /\ ~Installed(n) THEN o ELSE bound[n]],
           UNCHANGED <<registered, handle, origin>>
    PROVE  \A n \in Names : Installed(n)' = Installed(n) /\ Active(n)' = Active(n)
<1> SUFFICES ASSUME NEW n \in Names PROVE Installed(n)' <=> Installed(n)
  BY DEF Active, Installed
<1>1. bound'[n] = IF n \in staged /\ ~Installed(n) THEN o ELSE bound[n]
  OBVIOUS
<1>2. handle[n] # None => n \in registered /\ bound[n] = handle[n]
  BY DEF IInv, NoOrphanInstallation
<1> QED BY <1>1, <1>2, NamesApart DEF Installed

\* What is staged at the turn of an activation is the plan checked at that turn.
LEMMA ExecuteFits == ASSUME IInv, CInv, NEW o \in Operations, Execute(o)
                     PROVE  CInv' /\ CommitFits
<1> DEFINE new == [op[o] EXCEPT !.at = "planning", !.base = hostRevision,
                                !.pending = ToInstall(o), !.drops = ToRemove(o)]
<1>1. op[o].at = "ready" /\ executing = None /\ Startable(o)
      /\ UNCHANGED <<registered, record, revision, selected, handle, origin, hostRevision>>
  BY DEF Execute, Begun, Turn, host
<1>2. PICK staged \in SUBSET ToInstall(o) :
        /\ bound' = [n \in Names |-> IF n \in staged /\ ~Installed(n) THEN o ELSE bound[n]]
        /\ \/ op' = [op EXCEPT ![o] = new] /\ staged = ToInstall(o)
           \/ op' = Thrown(o)
  BY DEF Execute
<1>3. op[o] \in OpRecords /\ Fit(op[o]) /\ op \in [Operations -> OpRecords]
      /\ hostRevision \in Nat /\ registered \subseteq Names
  BY DEF IInv, Types, Fitness
<1>4. Least(op[o]) /\ Captured(op[o])
  BY <1>1 DEF CInv, Unfinished
<1>5. /\ ToInstall(o) \subseteq op[o].plan /\ ToRemove(o) \subseteq op[o].removing
      /\ op[o].plan \subseteq Names /\ op[o].plan \intersect op[o].removing = {}
  BY <1>3 DEF ToInstall, ToRemove, OpRecords, Fit
<1>6. /\ new \in OpRecords /\ new.at = "planning" /\ new.base = hostRevision
      /\ new.pending = ToInstall(o) /\ new.drops = ToRemove(o) /\ new.plan = op[o].plan
      /\ new.removing = op[o].removing /\ new.roots = op[o].roots /\ new.record = op[o].record
      /\ new.revision = op[o].revision /\ new.artifact = op[o].artifact
  <2>1. op[o].removing \subseteq Names
    BY <1>3 DEF OpRecords
  <2> QED BY <1>3, <1>5, <2>1 DEF OpRecords, Points
<1> HIDE DEF new
<1>7. /\ Thrown(o) \in [Operations -> OpRecords] /\ Thrown(o)[o].at = "settling"
      /\ \A p \in Operations \ {o} : Thrown(o)[p] = op[p]
      /\ Kept(op[o], Thrown(o)[o])
  <2> DEFINE failed == [op[o] EXCEPT !.at = "settling", !.outcome = "error"]
  <2>1. Thrown(o) = [op EXCEPT ![o] = failed]
    BY <1>3 DEF Thrown
  <2>2. failed \in OpRecords /\ failed.at = "settling" /\ Kept(op[o], failed)
    BY <1>3 DEF OpRecords, Points, Outcomes, Kept
  <2> HIDE DEF failed
  <2> QED BY <1>3, <2>1, <2>2
<1>8. /\ op' \in [Operations -> OpRecords] /\ \A p \in Operations \ {o} : op'[p] = op[p]
      /\ \/ op'[o] = new /\ staged = ToInstall(o)
         \/ op'[o] = Thrown(o)[o]
  <2>1. CASE op' = [op EXCEPT ![o] = new] /\ staged = ToInstall(o)
    BY <1>3, <1>6, <2>1
  <2>2. CASE op' = Thrown(o)
    BY <1>7, <2>2
  <2> QED BY <1>2, <2>1, <2>2
<1>9. \A p \in Operations : Follows(op[p], op'[p]) /\ op[p].at # "applying"
  <2>1. \A p \in Operations \ {o} : op[p].at \notin Holding
    BY <1>1, NamesApart DEF IInv, Roles
  <2>2. ASSUME NEW p \in Operations \ {o} PROVE Follows(op[p], op'[p]) /\ op[p].at # "applying"
    BY <1>8, <2>1 DEF Follows, Holding
  <2>3. Follows(op[o], op'[o]) /\ op[o].at # "applying"
    BY <1>1, <1>6, <1>7, <1>8 DEF Follows, Kept, Unfinished
  <2> QED BY <2>2, <2>3
<1>10. \A n \in Names : Installed(n)' = Installed(n) /\ Active(n)' = Active(n)
  BY <1>1, <1>2, BindingKeepsInstalled
<1>11. ASSUME op'[o] = new, staged = ToInstall(o) PROVE Matches(op[o])'
  <2>1. /\ op[o].plan \subseteq registered
        /\ \A n \in op[o].plan : op[o].artifact[n] = selected[n]
    BY <1>1, <1>4 DEF Startable, PlanCurrent, Current, Captured
  <2>2. Selections(op[o].roots, op[o].removing) = op[o].plan
    BY <1>4, <1>5, <2>1, PlanIsStillThePlan
  <2>3. Sound(Candidate(op[o].plan, op[o].removing))
    BY <1>1, <2>2 DEF Startable, ValidPlan
  <2>4. Candidate(op[o].plan, op[o].removing) = Result(op[o])
    BY <2>1 DEF Candidate, Result
  <2>5. Result(op[o])' = Result(op[o])
    <3>1. op'[o].plan = op[o].plan /\ op'[o].removing = op[o].removing
          /\ op'[o].artifact = op[o].artifact
      BY <1>6, <1>11
    <3> QED BY <1>1, <1>3, <1>5, <1>10, <3>1 DEF Result, ActiveNames
  <2>6. \A n \in new.pending : bound'[n] # None
    BY <1>2, <1>5, <1>6, <1>11, NamesApart DEF Installed
  <2>7. \A n \in new.plan \ new.pending : Active(n)' = new.artifact[n]
    BY <1>5, <1>6, <1>10 DEF ToInstall, Reuses
  <2> QED BY <1>1, <1>5, <1>6, <1>11, <2>3, <2>4, <2>5, <2>6, <2>7 DEF Matches
<1>12. \A p \in Operations : Matches(op[p])'
  <2>1. \A p \in Operations \ {o} : op[p].at \notin Executing
    BY <1>1, NamesApart DEF IInv, Roles, Holding, Executing
  <2>2. op'[o] = Thrown(o)[o] => op'[o].at \notin Executing
    BY <1>7 DEF Executing
  <2> QED BY <1>8, <1>11, <2>1, <2>2 DEF Matches
<1>13. CInv'
  <2>1. \A n \in Names : record[n] \in Nat /\ revision[n] \in Nat
    BY DEF IInv, Types
  <2>2. \A n \in registered : n \in Names /\ selected[n] \in Artifacts
    BY <1>3 DEF CInv
  <2> QED BY <1>1, <1>8, <1>9, <1>12, <2>1, <2>2, CapturesStay
<1>14. CommitFits
  BY <1>9, NobodyCommits
<1> QED BY <1>13, <1>14

\* The Host commits the plan that was staged, on the revision it was made for.
LEMMA HostCommitsFits ==
    ASSUME IInv, CInv, NEW o \in Operations, HostCommits(o) \/ HostCommitFails(o)
    PROVE  CInv' /\ CommitFits
<1> DEFINE r == op[o]
           left == {m \in registered : bound[m] # None /\ handle'[m] = bound[m]
                                       /\ origin'[m] # None}
<1>0. op \in [Operations -> OpRecords]
  BY DEF IInv, Types
<1>1. /\ r.at = "applying" /\ hostRevision = r.base
      /\ hostRevision' \in {hostRevision + 1, hostRevision + 2}
      /\ handle' = [n \in Names |-> CASE n \in r.pending -> bound[n]
                                      [] n \in r.drops   -> None
                                      [] OTHER           -> handle[n]]
      /\ origin' = [n \in Names |-> CASE n \in r.pending -> r.artifact[n]
                                      [] n \in r.drops   -> None
                                      [] OTHER           -> origin[n]]
      /\ UNCHANGED <<registered, record, revision, selected, bound>>
  BY <1>0, AdvanceFacts DEF records
<1>2. r \in OpRecords /\ Fit(r) /\ op \in [Operations -> OpRecords]
      /\ hostRevision \in Nat /\ registered \subseteq Names
  BY DEF IInv, Types, Fitness
<1>3. PICK new : Advanced(r, new) /\ op' = [op EXCEPT ![o] = new]
  BY <1>0, AdvanceFacts
<1>4. op' \in [Operations -> OpRecords] /\ op'[o] = new
      /\ \A p \in Operations \ {o} : op'[p] = op[p]
  BY <1>1, <1>2, <1>3 DEF Advanced
<1>5. \A p \in Operations \ {o} : op[p].at \notin Executing /\ op[p].at # "applied"
  BY <1>1 DEF IInv, Roles, Holding, Executing
<1>6. \A p \in Operations : Matches(op[p])'
  <2>1. op'[o].base # hostRevision'
    BY <1>1, <1>2, <1>3, <1>4 DEF Advanced
  <2> QED BY <1>4, <1>5, <2>1 DEF Matches
<1>7. \A p \in Operations : Follows(op[p], op'[p])
  <2>1. Follows(r, new)
    BY <1>1, <1>3 DEF Follows, Advanced, Unfinished
  <2> QED BY <1>4, <2>1 DEF Follows
<1>8. CInv'
  <2>1. \A n \in Names : record[n] \in Nat /\ revision[n] \in Nat
    BY DEF IInv, Types
  <2>2. \A n \in registered : n \in Names /\ selected[n] \in Artifacts
    BY <1>2 DEF CInv
  <2> QED BY <1>1, <1>4, <1>6, <1>7, <2>1, <2>2, CapturesStay
<1>9. /\ Sound(Result(r)) /\ r.drops \subseteq r.removing
      /\ \A n \in r.pending : bound[n] # None
      /\ \A n \in r.plan \ r.pending : Active(n) = r.artifact[n]
  BY <1>1 DEF CInv, Matches, Executing
<1>10. /\ \A n \in r.plan : r.artifact[n] \in Artifacts
       /\ r.pending \subseteq r.plan /\ r.plan \intersect r.removing = {}
       /\ r.plan \subseteq registered
       /\ \A n \in r.removing : handle[n] # None => n \in r.drops
  BY <1>1, <1>2 DEF CInv, Captured, Unfinished, Fit, Holding
<1>11. /\ \A n \in r.pending : handle'[n] = bound[n] /\ origin'[n] = r.artifact[n]
       /\ \A n \in r.drops \ r.pending : n \in Names => handle'[n] = None
       /\ \A n \in Names \ (r.pending \union r.drops) : /\ handle'[n] = handle[n]
                                                         /\ origin'[n] = origin[n]
  <2>1. r.pending \subseteq Names /\ r.pending \intersect r.drops = {}
    BY <1>2, <1>9, <1>10
  <2>2. ASSUME NEW n \in r.pending PROVE handle'[n] = bound[n] /\ origin'[n] = r.artifact[n]
    <3>1. n \in Names
      BY <2>1
    <3>2. handle'[n] = CASE n \in r.pending -> bound[n]
                         [] n \in r.drops   -> None
                         [] OTHER           -> handle[n]
      BY <1>1, <3>1
    <3>3. origin'[n] = CASE n \in r.pending -> r.artifact[n]
                         [] n \in r.drops   -> None
                         [] OTHER           -> origin[n]
      BY <1>1, <3>1
    <3> QED BY <2>1, <3>2, <3>3
  <2>3. ASSUME NEW n \in Names \ r.pending
        PROVE  /\ n \in r.drops => handle'[n] = None
               /\ n \notin r.drops => handle'[n] = handle[n] /\ origin'[n] = origin[n]
    BY <1>1
  <2> QED BY <2>2, <2>3
<1>12. ASSUME NEW n \in left
       PROVE  n \in DOMAIN Result(r) /\ Result(r)[n] = origin'[n]
  <2>1. n \in registered /\ n \in Names /\ bound[n] # None /\ handle'[n] = bound[n]
        /\ origin'[n] # None
    BY <1>2
  <2>2. CASE n \in r.pending
    BY <1>10, <1>11, <2>2 DEF Result
  <2>3. CASE n \notin r.pending
    <3>1. n \notin r.drops
      BY <1>11, <2>1, <2>3
    <3>2. handle[n] = bound[n] /\ origin'[n] = origin[n]
      BY <1>11, <2>1, <2>3, <3>1
    <3>3. Active(n) = origin'[n] /\ n \notin r.removing
      BY <1>10, <2>1, <3>1, <3>2 DEF Active, Installed
    <3>4. n \in ActiveNames(registered \ r.removing)
      BY <2>1, <3>3 DEF ActiveNames
    <3>5. n \in r.plan => r.artifact[n] = Active(n)
      BY <1>9, <2>3
    <3> QED BY <3>3, <3>4, <3>5 DEF Result
  <2> QED BY <2>2, <2>3
<1>13. ASSUME NEW n \in DOMAIN Result(r) PROVE n \in left
  <2>1. n \in r.plan \/ (n \in registered \ r.removing /\ Active(n) # None)
    BY DEF Result, ActiveNames
  <2>2. CASE n \in r.pending
    BY <1>9, <1>10, <1>11, <2>2, NamesApart
  <2>3. CASE n \notin r.pending
    <3>1. n \in registered /\ n \in Names /\ n \notin r.drops /\ Active(n) # None
      BY <1>2, <1>9, <1>10, <2>1, <2>3, NamesApart
    <3>2. Installed(n) /\ Active(n) = origin[n]
      BY <3>1 DEF Active
    <3> QED BY <1>11, <2>3, <3>1, <3>2 DEF Installed
  <2> QED BY <2>2, <2>3
<1> HIDE DEF left, r
<1>14. [n \in left |-> origin'[n]] = Result(r)
  <2>1. DOMAIN Result(r) = left
    BY <1>12, <1>13
  <2>2. Result(r) = [n \in DOMAIN Result(r) |-> Result(r)[n]]
    BY DEF Result
  <2> QED BY <1>12, <2>1, <2>2
<1>15. Sound([n \in left |-> origin'[n]])
  BY <1>9, <1>14
<1>16. CommitFits
  BY <1>4, <1>5, <1>15 DEF CommitFits, Executing, left
<1> QED BY <1>8, <1>16

-----------------------------------------------------------------------------
LEMMA StepsFit == IInv /\ CInv /\ [Next]_vars => CInv' /\ CommitFits
<1> SUFFICES ASSUME IInv, CInv, [Next]_vars PROVE CInv' /\ CommitFits
  OBVIOUS
<1>1. ASSUME NEW A \in (SUBSET Artifacts) \ {{}}, Select(A) PROVE CInv' /\ CommitFits
  BY <1>1, SelectFits
<1>2. ASSUME NEW o \in Operations, NEW R \in SUBSET Names, NEW D \in SUBSET Names, Call(o, R, D)
      PROVE  CInv' /\ CommitFits
  BY <1>2, CallFits
<1>3. ASSUME NEW o \in Operations,
             Cancel(o) \/ LoadSucceeds(o) \/ Refused(o) \/ Planned(o) \/ Admitted(o)
      PROVE  CInv' /\ CommitFits
  BY <1>3, CancelFits, LoadSucceedsFits, FailuresFit, PlannedFits, AdmittedFits
<1>4. ASSUME NEW o \in Operations, Machine(o) PROVE CInv' /\ CommitFits
  BY <1>4, BeginFits, LoadNextFits, ReadyFits, FailuresFit, NothingToDoFits, ExecuteFits,
     HandoffFits, HostCommitsFits, HostRefusesFits, AppliedFits, SettleFits DEF Machine, Interrupt
<1>5. CASE Dispose
  BY <1>5, DisposeFits
<1>6. CASE Release
  <2>1. CASE ReleaseSucceeds
    BY <2>1, ReleaseSucceedsFits
  <2>2. CASE ReleaseFails
    BY <2>2, ReleaseFailsFits
  <2>3. CASE DisposalReady \/ ReleaseBegins
    BY <2>3, RestFits DEF DisposalReady, ReleaseBegins, records, host
  <2> QED BY <1>6, <2>1, <2>2, <2>3 DEF Release
<1>7. CASE OutsideCommit \/ GroupRemoved \/ HostQuarantined
  BY <1>7, OutsideFits DEF OutsideCommit, GroupRemoved, HostQuarantined
<1>8. CASE UNCHANGED vars
  BY <1>8, RestFits DEF vars, records, host
<1> QED BY <1>1, <1>2, <1>3, <1>4, <1>5, <1>6, <1>7, <1>8 DEF Next

\* What the Host commits for a platform fits together, though it was compiled,
\* authorised and applied after the plan was checked (platform.ts 387-388).
THEOREM CommitsFit == Spec => CommitsAreSound
<1>1. Init => CInv
  BY InitFits
<1>2. IInv /\ CInv /\ [Next]_vars => CInv'
  BY StepsFit
<1>3. IInv /\ CInv /\ [Next]_vars => [CommitFits]_vars
  BY StepsFit
<1>4. Spec => [][CommitFits]_vars
  BY <1>1, <1>2, <1>3, Invariance, PTL DEF Spec
<1> QED BY <1>4 DEF CommitsAreSound, CommitFits


-----------------------------------------------------------------------------
(* Platform implements Deliveries.                                         *)

\* The points at which an activation is asked for and not entrusted.
Early == {"called", "loading", "waiting", "ready", "planning", "admitting", "admitted"}

\* Only what has begun is cancelled, failures are named, and a platform that
\* closes has cancelled all it had not decided.
Tells(r, phase) ==
    /\ r.at \in {"free", "called"} => ~r.aborted
    /\ r.at = "settling" => r.aborted \/ r.outcome \in {"ok", "error"}
    /\ Unfinished(r.at) /\ r.at # "settling" /\ ~r.aborted => phase = "active"
Telling == \A o \in Operations : Tells(op[o], status)

DInv == IInv /\ CInv /\ Telling

Called(r) == Unfinished(r.at) /\ r.aborted

\* A step of a platform is one of what it promises, or none.
Keeps == Promised!Next \/ UNCHANGED Promised!vars

\* Who is cancelled, before and after a step.
LEMMA Seen ==
    /\ Withdrawn = {o \in Operations : Called(op[o])}
    /\ Withdrawn' = {o \in Operations : Called(op'[o])}
BY DEF Withdrawn, Pending, Called, Unfinished

\* The same operation to whoever asked for it.
Same(r, q) == RequestOf(q) = RequestOf(r) /\ WishOf(q) = WishOf(r)
              /\ AnswerOf(q) = AnswerOf(r) /\ (Called(q) <=> Called(r))

LEMMA Untold ==
    ASSUME \A p \in Operations : Same(op[p], op'[p]), quarantined' \in {quarantined, TRUE},
           UNCHANGED <<status, registered, selected, record, handle, origin>>
    PROVE  Keeps
<1>1. Request' = Request /\ Wish' = Wish /\ Verdict' = Verdict
  BY DEF Same, Request, Wish, Verdict
<1>2. Withdrawn' = Withdrawn
  <2>1. \A p \in Operations : Called(op'[p]) <=> Called(op[p])
    BY DEF Same
  <2> QED BY <2>1, Seen
<1>3. Selection' = Selection /\ Running' = Running
  BY DEF Selection, Running
<1>4. CASE quarantined' = quarantined
  BY <1>1, <1>2, <1>3, <1>4 DEF Keeps, Promised!vars
<1>5. CASE quarantined' = TRUE
  <2>1. Promised!Break
    BY <1>1, <1>2, <1>3, <1>5 DEF Promised!Break
  <2> QED BY <2>1 DEF Keeps, Promised!Next
<1> QED BY <1>4, <1>5

\* One operation goes on; the others are the same.
LEMMA OneMoves ==
    ASSUME DInv, NEW o \in Operations, NEW new \in OpRecords, op' = [op EXCEPT ![o] = new]
    PROVE  /\ Request' = [Request EXCEPT ![o] = RequestOf(new)]
           /\ Wish' = [Wish EXCEPT ![o] = WishOf(new)]
           /\ Verdict' = [Verdict EXCEPT ![o] = AnswerOf(new)]
           /\ Withdrawn' = IF Called(new) THEN Withdrawn \union {o} ELSE Withdrawn \ {o}
           /\ Tells(new, status') /\ status' = status => Telling'
<1>1. op \in [Operations -> OpRecords]
  BY DEF DInv, IInv, Types
<1>2. op'[o] = new /\ \A p \in Operations \ {o} : op'[p] = op[p]
  BY <1>1
<1>3. Request' = [Request EXCEPT ![o] = RequestOf(new)]
  <2>1. /\ Request' = [p \in Operations |-> RequestOf(op'[p])]
        /\ Request = [p \in Operations |-> RequestOf(op[p])]
    BY DEF Request
  <2> QED BY <1>2, <2>1
<1>4. Wish' = [Wish EXCEPT ![o] = WishOf(new)]
  <2>1. /\ Wish' = [p \in Operations |-> WishOf(op'[p])]
        /\ Wish = [p \in Operations |-> WishOf(op[p])]
    BY DEF Wish
  <2> QED BY <1>2, <2>1
<1>5. Verdict' = [Verdict EXCEPT ![o] = AnswerOf(new)]
  <2>1. /\ Verdict' = [p \in Operations |-> AnswerOf(op'[p])]
        /\ Verdict = [p \in Operations |-> AnswerOf(op[p])]
    BY DEF Verdict
  <2> QED BY <1>2, <2>1
<1>6. Withdrawn' = IF Called(new) THEN Withdrawn \union {o} ELSE Withdrawn \ {o}
  <2>1. \A p \in Operations \ {o} : Called(op'[p]) <=> Called(op[p])
    BY <1>2
  <2>2. Called(op'[o]) <=> Called(new)
    BY <1>2
  <2> HIDE DEF Called
  <2> QED BY <2>1, <2>2, Seen
<1>7. Tells(new, status') /\ status' = status => Telling'
  BY <1>2 DEF DInv, Telling
<1> QED BY <1>3, <1>4, <1>5, <1>6, <1>7

\* An operation that is asked for: nobody knows how far it has got.
LEMMA EarlyFacts ==
    ASSUME NEW r \in OpRecords, Honest(r), r.at \in Early
    PROVE  ~r.handed /\ ~r.took /\ RequestOf(r) = "open" /\ AnswerOf(r) = "none"
           /\ r.outcome = "none"
BY DEF Honest, Early, RequestOf, AnswerOf

LEMMA QuietMaps ==
    ASSUME DInv, NEW o \in Operations, NEW new \in OpRecords, op' = [op EXCEPT ![o] = new],
           op[o].at \in Early \ {"called"}, new.at \in (Early \ {"called"}) \union {"settling"},
           new.at = "settling" => new.outcome = "error",
           new.roots = op[o].roots, new.removing = op[o].removing, new.record = op[o].record,
           new.aborted = op[o].aborted, new.handed = op[o].handed, new.took = op[o].took,
           UNCHANGED <<status, registered, selected, record, handle, origin, quarantined>>
    PROVE  Keeps /\ Telling'
<1>1. op[o] \in OpRecords /\ Honest(op[o]) /\ Tells(op[o], status)
      /\ op \in [Operations -> OpRecords]
  BY DEF DInv, IInv, Types, Honesty, Telling
<1>2. /\ ~op[o].handed /\ ~op[o].took
      /\ RequestOf(op[o]) = "open" /\ AnswerOf(op[o]) = "none"
  BY <1>1, EarlyFacts
<1>3. RequestOf(new) = "open" /\ AnswerOf(new) = "none"
  BY <1>2 DEF RequestOf, AnswerOf, Early
<1>4. WishOf(new) = WishOf(op[o])
  BY DEF WishOf, Early
<1>5. Called(new) <=> Called(op[o])
  BY DEF Called, Unfinished, Early
<1>6. Same(op[o], new)
  BY <1>2, <1>3, <1>4, <1>5 DEF Same
<1>7. \A p \in Operations : Same(op[p], op'[p])
  BY <1>1, <1>6 DEF Same
<1>8. Tells(new, status)
  BY <1>1 DEF Tells, Early, Unfinished
<1> QED BY <1>7, <1>8, Untold, OneMoves

LEMMA ThrownMaps ==
    ASSUME DInv, NEW o \in Operations, op' = Thrown(o), op[o].at \in Early \ {"called"},
           UNCHANGED <<status, registered, selected, record, handle, origin, quarantined>>
    PROVE  Keeps /\ Telling'
<1> DEFINE new == [op[o] EXCEPT !.at = "settling", !.outcome = "error"]
<1>1. op[o] \in OpRecords /\ op \in [Operations -> OpRecords]
  BY DEF DInv, IInv, Types
<1>2. op' = [op EXCEPT ![o] = new]
  BY <1>1 DEF Thrown
<1>3. /\ new \in OpRecords /\ new.at = "settling" /\ new.outcome = "error"
      /\ new.roots = op[o].roots /\ new.removing = op[o].removing /\ new.record = op[o].record
      /\ new.aborted = op[o].aborted /\ new.handed = op[o].handed /\ new.took = op[o].took
  BY <1>1 DEF OpRecords, Points, Outcomes
<1> HIDE DEF new
<1> QED BY <1>2, <1>3, QuietMaps

\* Signals abort: whoever is cancelled had not been entrusted.
LEMMA AbortMaps ==
    ASSUME DInv, NEW S, NEW p \in Operations, NEW phase,
           phase = status \/ (phase = "disposing" /\ status = "active" /\ p \in S
                              /\ op[p].at \notin {"applying", "applied"})
    PROVE  LET q == Aborted(S)[p] IN
           /\ RequestOf(q) = RequestOf(op[p]) /\ WishOf(q) = WishOf(op[p])
           /\ AnswerOf(q) = AnswerOf(op[p])
           /\ Called(op[p]) => Called(q)
           /\ Called(q) /\ ~Called(op[p]) => RequestOf(op[p]) \in {"open", "fulfilled"}
           /\ Tells(q, phase)
<1> DEFINE q == Aborted(S)[p]
           new == [op[p] EXCEPT !.aborted = TRUE,
                                !.at = IF op[p].at = "ready" THEN "settling" ELSE op[p].at]
<1>1. op[p] \in OpRecords /\ Honest(op[p]) /\ Tells(op[p], status)
  BY DEF DInv, IInv, Types, Honesty, Telling
<1>2. q = IF p \in S \intersect Cancellable THEN new ELSE op[p]
  BY DEF Aborted
<1>3. CASE p \notin S \intersect Cancellable
  <2>1. q = op[p]
    BY <1>2, <1>3
  <2>2. Tells(q, phase)
    <3>1. CASE phase = status
      BY <1>1, <2>1, <3>1
    <3>2. CASE p \in S /\ op[p].at \notin {"applying", "applied"}
      <4>1. ~Unfinished(op[p].at) \/ op[p].handed
        BY <1>3, <3>2 DEF Cancellable, Pending, Unfinished
      <4>2. ~Unfinished(op[p].at) \/ op[p].at = "settling"
        BY <1>1, <3>2, <4>1 DEF Honest, Unfinished
      <4> QED BY <1>1, <2>1, <4>2 DEF Tells
    <3> QED BY <3>1, <3>2
  <2> QED BY <2>1, <2>2
<1>4. CASE p \in S \intersect Cancellable
  <2>1. Unfinished(op[p].at) /\ ~op[p].handed /\ ~op[p].took /\ p \in Pending
    BY <1>1, <1>4 DEF Cancellable, Pending, Unfinished, Honest
  <2>2. /\ new.aborted /\ new.handed = op[p].handed /\ new.outcome = op[p].outcome
        /\ new.took = op[p].took
        /\ new.roots = op[p].roots /\ new.removing = op[p].removing /\ new.record = op[p].record
        /\ new.at = IF op[p].at = "ready" THEN "settling" ELSE op[p].at
    BY <1>1 DEF OpRecords
  <2>3. q = new
    BY <1>2, <1>4
  <2> HIDE DEF new
  <2>4. op[p].at \notin {"free", "called", "done", "applying", "applied"}
    BY <1>1, <2>1 DEF Honest, Unfinished
  <2>5. op[p].at = "ready" => op[p].outcome = "none"
    BY <1>1 DEF Honest
  <2>6. RequestOf(new) = RequestOf(op[p]) /\ RequestOf(op[p]) \in {"open", "fulfilled"}
    BY <2>1, <2>2, <2>4, <2>5 DEF RequestOf
  <2>7. WishOf(new) = WishOf(op[p]) /\ AnswerOf(new) = AnswerOf(op[p])
    BY <2>2, <2>4 DEF WishOf, AnswerOf
  <2>8. Called(new) /\ Tells(new, phase)
    BY <2>2, <2>4 DEF Called, Tells, Unfinished
  <2> QED BY <2>3, <2>6, <2>7, <2>8
<1> QED BY <1>3, <1>4

\* What stays of the rest when one operation goes on.
LEMMA Unconcerned ==
    ASSUME UNCHANGED <<records, host, status>>
    PROVE  UNCHANGED <<status, registered, selected, record, handle, origin, quarantined>>
BY DEF records, host

LEMMA LoadingMaps ==
    ASSUME DInv, NEW o \in Operations, LoadNext(o) \/ LoadSucceeds(o) \/ Ready(o)
    PROVE  Keeps /\ Telling'
<1>1. /\ op[o] \in OpRecords /\ op[o].at \in {"loading", "waiting"}
      /\ UNCHANGED <<status, registered, selected, record, handle, origin, quarantined>>
  BY OpType, Unconcerned DEF DInv, LoadNext, LoadSucceeds, Ready, control
<1>2. PICK new :
        /\ op' = Thrown(o) \/ op' = [op EXCEPT ![o] = new]
        /\ new \in OpRecords /\ new.at \in {"loading", "waiting", "ready"} /\ Kept(op[o], new)
        /\ new.aborted = op[o].aborted /\ new.handed = op[o].handed
  <2>1. CASE LoadNext(o)
    <3>1. PICK n \in op[o].todo :
            \/ op' = Thrown(o)
            \/ op' = [op EXCEPT ![o] = [op[o] EXCEPT !.todo = op[o].todo \ {n}]]
            \/ op' = [op EXCEPT ![o] = [op[o] EXCEPT !.at = "waiting", !.todo = op[o].todo \ {n},
                                                     !.loading = op[o].artifact[n]]]
      BY <2>1 DEF LoadNext
    <3> DEFINE one == [op[o] EXCEPT !.todo = op[o].todo \ {n}]
               two == [op[o] EXCEPT !.at = "waiting", !.todo = op[o].todo \ {n},
                                    !.loading = op[o].artifact[n]]
    <3>2. one \in OpRecords /\ one.at = op[o].at /\ Kept(op[o], one)
          /\ one.aborted = op[o].aborted /\ one.handed = op[o].handed
      BY <1>1 DEF OpRecords, Kept
    <3>3. two \in OpRecords /\ two.at = "waiting" /\ Kept(op[o], two)
          /\ two.aborted = op[o].aborted /\ two.handed = op[o].handed
      <4>1. op[o].artifact[n] \in Artifacts \union {None}
        BY <1>1 DEF OpRecords
      <4> QED BY <1>1, <4>1 DEF OpRecords, Points, Kept
    <3>4. op' = Thrown(o) \/ op' = [op EXCEPT ![o] = one] \/ op' = [op EXCEPT ![o] = two]
      BY <3>1
    <3> HIDE DEF one, two
    <3> QED BY <1>1, <3>2, <3>3, <3>4
  <2>2. CASE LoadSucceeds(o)
    <3> DEFINE new == [op[o] EXCEPT !.at = "loading", !.loading = None,
                                    !.loaded = op[o].loaded \union {op[o].loading}]
    <3>1. new \in OpRecords /\ new.at = "loading" /\ Kept(op[o], new)
          /\ new.aborted = op[o].aborted /\ new.handed = op[o].handed
      BY <1>1 DEF OpRecords, Points, Kept
    <3>2. op' = [op EXCEPT ![o] = new]
      BY <2>2 DEF LoadSucceeds
    <3> HIDE DEF new
    <3> QED BY <3>1, <3>2
  <2>3. CASE Ready(o)
    <3> DEFINE new == [op[o] EXCEPT !.at = "ready"]
    <3>1. new \in OpRecords /\ new.at = "ready" /\ Kept(op[o], new)
          /\ new.aborted = op[o].aborted /\ new.handed = op[o].handed
      BY <1>1 DEF OpRecords, Points, Kept
    <3>2. op' = Thrown(o) \/ op' = [op EXCEPT ![o] = new]
      BY <2>3 DEF Ready
    <3> HIDE DEF new
    <3> QED BY <3>1, <3>2
  <2> QED BY <2>1, <2>2, <2>3
<1>3. CASE op' = Thrown(o)
  BY <1>1, <1>3, ThrownMaps DEF Early
<1>4. CASE op' = [op EXCEPT ![o] = new]
  BY <1>1, <1>2, <1>4, QuietMaps DEF Kept, Early
<1> QED BY <1>2, <1>3, <1>4

LEMMA PlanningMaps ==
    ASSUME DInv, NEW o \in Operations, Planned(o) \/ Admitted(o)
    PROVE  Keeps /\ Telling'
<1>1. /\ op[o] \in OpRecords /\ op[o].at \in {"planning", "admitting"}
      /\ UNCHANGED <<status, registered, selected, record, handle, origin, quarantined>>
  BY OpType, Unconcerned DEF DInv, Planned, Admitted, control
<1>2. PICK new :
        /\ op' = Thrown(o) \/ op' = [op EXCEPT ![o] = new]
        /\ new \in OpRecords /\ new.at \in {"admitting", "admitted"} /\ Kept(op[o], new)
        /\ new.aborted = op[o].aborted /\ new.handed = op[o].handed
  <2>1. CASE Planned(o)
    <3>1. PICK R \in SUBSET Names :
            \/ op' = Thrown(o)
            \/ op' = [op EXCEPT ![o] = [op[o] EXCEPT !.at = "admitting", !.restarts = R]]
      BY <2>1 DEF Planned
    <3> DEFINE new == [op[o] EXCEPT !.at = "admitting", !.restarts = R]
    <3>2. new \in OpRecords /\ new.at = "admitting" /\ Kept(op[o], new)
          /\ new.aborted = op[o].aborted /\ new.handed = op[o].handed
      BY <1>1 DEF OpRecords, Points, Kept
    <3>3. op' = Thrown(o) \/ op' = [op EXCEPT ![o] = new]
      BY <3>1
    <3> HIDE DEF new
    <3> QED BY <3>2, <3>3
  <2>2. CASE Admitted(o)
    <3> DEFINE new == [op[o] EXCEPT !.at = "admitted", !.granted = Admission(o)]
    <3>1. Admission(o) \subseteq Artifacts \union {None}
      <4>1. \A n \in Names : origin[n] \in Artifacts \union {None}
                             /\ op[o].artifact[n] \in Artifacts \union {None}
        BY <1>1 DEF DInv, IInv, Types, OpRecords
      <4>2. op[o].pending \subseteq Names /\ op[o].restarts \subseteq Names
        BY <1>1 DEF OpRecords
      <4> QED BY <4>1, <4>2 DEF Admission, Active
    <3>2. new \in OpRecords /\ new.at = "admitted" /\ Kept(op[o], new)
          /\ new.aborted = op[o].aborted /\ new.handed = op[o].handed
      BY <1>1, <3>1 DEF OpRecords, Points, Kept
    <3>3. op' = [op EXCEPT ![o] = new]
      BY <2>2 DEF Admitted
    <3> HIDE DEF new
    <3> QED BY <3>2, <3>3
  <2> QED BY <2>1, <2>2
<1>3. CASE op' = Thrown(o)
  BY <1>1, <1>3, ThrownMaps DEF Early
<1>4. CASE op' = [op EXCEPT ![o] = new]
  BY <1>1, <1>2, <1>4, QuietMaps DEF Kept, Early
<1> QED BY <1>2, <1>3, <1>4

LEMMA FailuresMap ==
    ASSUME DInv, NEW o \in Operations, Refused(o) \/ ExecuteFails(o)
    PROVE  Keeps /\ Telling'
<1>1. /\ op' = Thrown(o) /\ op[o].at \in Early \ {"called"}
      /\ UNCHANGED <<status, registered, selected, record, handle, origin, quarantined>>
  BY Unconcerned DEF Refused, ExecuteFails, Begun, Early
<1> QED BY <1>1, ThrownMaps

LEMMA ExecuteMaps == ASSUME DInv, NEW o \in Operations, Execute(o) PROVE Keeps /\ Telling'
<1> DEFINE new == [op[o] EXCEPT !.at = "planning", !.base = hostRevision,
                                !.pending = ToInstall(o), !.drops = ToRemove(o)]
<1>1. /\ op[o].at = "ready" /\ (op' = Thrown(o) \/ op' = [op EXCEPT ![o] = new])
      /\ UNCHANGED <<status, registered, selected, record, handle, origin, quarantined>>
  BY DEF Execute, Begun, host
<1>2. op[o] \in OpRecords /\ hostRevision \in Nat
  BY DEF DInv, IInv, Types
<1>3. /\ new \in OpRecords /\ new.at = "planning" /\ new.roots = op[o].roots
      /\ new.removing = op[o].removing /\ new.record = op[o].record
      /\ new.aborted = op[o].aborted /\ new.handed = op[o].handed /\ new.took = op[o].took
  <2>1. ToInstall(o) \subseteq Names /\ ToRemove(o) \subseteq Names
    BY <1>2 DEF OpRecords, ToInstall, ToRemove
  <2> QED BY <1>2, <2>1 DEF OpRecords, Points
<1> HIDE DEF new
<1>4. CASE op' = Thrown(o)
  BY <1>1, <1>4, ThrownMaps DEF Early
<1>5. CASE op' = [op EXCEPT ![o] = new]
  BY <1>1, <1>3, <1>5, QuietMaps DEF Early
<1> QED BY <1>1, <1>4, <1>5

-----------------------------------------------------------------------------
(* Steps that are seen.                                                    *)

\* What is registered, and who is at work, to those who only see the promise.
LEMMA SeenRegistrations ==
    ASSUME DInv
    PROVE  /\ Promised!Registered = registered
           /\ \A n \in registered : n \in Names /\ Selection[n] = selected[n]
<1>1. registered \subseteq Names /\ \A n \in registered : selected[n] # None
  BY NamesApart DEF DInv, IInv, Types, CInv
<1> QED BY <1>1 DEF Promised!Registered, Selection

LEMMA HostIsFree ==
    ASSUME \A p \in Operations : op[p].at \notin {"applying", "applied"}
    PROVE  ~Promised!Busy
<1>1. ASSUME NEW p \in Operations PROVE Request[p] \notin {"entrusted", "effective"}
  BY DEF Request, RequestOf
<1> QED BY <1>1 DEF Promised!Busy

LEMMA NobodyExecutes ==
    ASSUME DInv, executing = None
    PROVE  \A p \in Operations : op[p].at \notin Holding
BY NamesApart DEF DInv, IInv, Roles

\* An activation is still meant while what it captured is current.
LEMMA StillMeant ==
    ASSUME DInv, NEW o \in Operations, PlanCurrent(o), Unfinished(op[o].at)
    PROVE  /\ Promised!Meant(o) /\ op[o].roots \subseteq op[o].plan
           /\ Wish[o].roots = op[o].roots /\ Wish[o].removing = op[o].removing
<1>1. op[o].roots \subseteq op[o].plan /\ op[o] \in OpRecords
  BY OpType DEF DInv, CInv, Least
<1>2. \A n \in op[o].roots \union op[o].removing :
         n \in registered /\ n \in Names /\ op[o].record[n] = record[n]
  BY <1>1 DEF PlanCurrent, Current, OpRecords
<1>3. Wish[o] = [roots |-> op[o].roots, removing |-> op[o].removing, edition |->
                   [n \in Names |-> IF n \in op[o].roots \union op[o].removing
                                    THEN op[o].record[n] ELSE 0]]
  BY DEF Wish, WishOf, Unfinished
<1> QED BY <1>1, <1>2, <1>3, SeenRegistrations DEF Promised!Meant

LEMMA CallMaps ==
    ASSUME DInv, NEW o \in Operations, NEW R \in SUBSET Names, NEW D \in SUBSET Names,
           Call(o, R, D)
    PROVE  Keeps /\ Telling'
<1> DEFINE captured == [n \in Names |-> IF n \in R \union D THEN record[n] ELSE 0]
           new == [op[o] EXCEPT !.at = "called", !.roots = R, !.removing = D,
                                !.record = captured]
<1>1. /\ op[o].at = "free" /\ status = "active" /\ op' = [op EXCEPT ![o] = new]
      /\ R \union D # {} /\ R \subseteq registered /\ D \subseteq registered
      /\ UNCHANGED <<status, registered, selected, record, handle, origin, quarantined>>
  BY Unconcerned DEF Call
<1>2. op[o] \in OpRecords /\ Honest(op[o]) /\ Tells(op[o], status) /\ captured \in [Names -> Nat]
  BY DEF DInv, IInv, Types, Honesty, Telling
<1>3. /\ new \in OpRecords /\ new.at = "called" /\ new.roots = R /\ new.removing = D
      /\ new.record = captured /\ new.aborted = op[o].aborted
  <2> HIDE DEF captured
  <2> QED BY <1>2 DEF OpRecords, Points
<1>4. WishOf(new) = [roots |-> R, removing |-> D, edition |-> captured]
  BY <1>3 DEF WishOf
<1>5. RequestOf(new) = "open" /\ AnswerOf(new) = "none" /\ ~Called(new) /\ Tells(new, status)
  BY <1>1, <1>2, <1>3 DEF RequestOf, AnswerOf, Called, Unfinished, Tells
<1>6. Request[o] = "free" /\ Verdict[o] = "none" /\ o \notin Withdrawn
  BY <1>1, Seen DEF Request, RequestOf, Verdict, AnswerOf, Called, Unfinished
<1> HIDE DEF new, captured
<1>7. /\ Request' = [Request EXCEPT ![o] = "open"]
      /\ Wish' = [Wish EXCEPT ![o] = [roots |-> R, removing |-> D, edition |-> captured]]
      /\ Verdict' = [Verdict EXCEPT ![o] = "none"] /\ Withdrawn' = Withdrawn \ {o} /\ Telling'
  <2>1. op' = [op EXCEPT ![o] = new] /\ status' = status /\ Tells(new, status')
    BY <1>1, <1>5
  <2>2. /\ Request' = [Request EXCEPT ![o] = RequestOf(new)]
        /\ Wish' = [Wish EXCEPT ![o] = WishOf(new)]
        /\ Verdict' = [Verdict EXCEPT ![o] = AnswerOf(new)]
        /\ Withdrawn' = IF Called(new) THEN Withdrawn \union {o} ELSE Withdrawn \ {o}
        /\ Telling'
    BY <1>3, <2>1, OneMoves
  <2> QED BY <1>4, <1>5, <2>2
<1>8. Verdict' = Verdict /\ Withdrawn' = Withdrawn
  BY <1>6, <1>7 DEF Verdict
<1>9. Selection' = Selection /\ Running' = Running
  BY <1>1 DEF Selection, Running
<1>10. R \in SUBSET Promised!Registered /\ D \in SUBSET Promised!Registered
  BY <1>1, SeenRegistrations
<1>11. Promised!Ask(o)
  BY <1>1, <1>6, <1>7, <1>8, <1>9, <1>10 DEF Promised!Ask, Promised!Moves, captured
<1> QED BY <1>7, <1>11 DEF Keeps, Promised!Next

\* The answer of an activation.
LEMMA AnswerMaps ==
    ASSUME DInv, NEW o \in Operations, NEW new \in OpRecords, op' = [op EXCEPT ![o] = new],
           new.at = "done",
           \/ RequestOf(op[o]) = "fulfilled" /\ new.outcome = "ok"
           \/ RequestOf(op[o]) \in {"rejected", "stranded"} /\ new.outcome = "error"
           \/ RequestOf(op[o]) = "open" /\ new.outcome = "aborted"
           \/ RequestOf(op[o]) = "open" /\ new.outcome = "error" /\ ~Called(op[o]),
           UNCHANGED <<status, registered, selected, record, handle, origin, quarantined>>
    PROVE  Keeps /\ Telling'
<1>1. RequestOf(new) = "answered" /\ AnswerOf(new) = new.outcome /\ ~Called(new)
      /\ WishOf(new) = Promised!Nothing /\ Tells(new, status)
  BY DEF RequestOf, AnswerOf, Called, Unfinished, WishOf, Promised!Nothing, Tells
<1>2. /\ Request' = [Request EXCEPT ![o] = "answered"]
      /\ Wish' = [Wish EXCEPT ![o] = Promised!Nothing]
      /\ Verdict' = [Verdict EXCEPT ![o] = new.outcome] /\ Withdrawn' = Withdrawn \ {o}
      /\ Telling'
  BY <1>1, OneMoves
<1>3. Selection' = Selection /\ Running' = Running
  BY DEF Selection, Running
<1>4. Request[o] = RequestOf(op[o]) /\ (o \in Withdrawn <=> Called(op[o]))
  BY Seen DEF Request
<1>5. Promised!Answer(o)
  BY <1>2, <1>3, <1>4 DEF Promised!Answer, Promised!Moves
<1> QED BY <1>2, <1>5 DEF Keeps, Promised!Next

LEMMA SettleMaps == ASSUME DInv, NEW o \in Operations, Settle(o) PROVE Keeps /\ Telling'
<1> DEFINE verdict == IF op[o].aborted /\ op[o].outcome # "ok" THEN "aborted" ELSE op[o].outcome
           new == [Free EXCEPT !.at = "done", !.outcome = verdict,
                               !.handed = op[o].handed, !.took = op[o].took]
<1>1. /\ op[o].at = "settling" /\ op' = [op EXCEPT ![o] = new]
      /\ UNCHANGED <<status, registered, selected, record, handle, origin, quarantined>>
  BY DEF Settle, host, control
<1>2. op[o] \in OpRecords /\ Honest(op[o]) /\ Tells(op[o], status)
  BY DEF DInv, IInv, Types, Honesty, Telling
<1>3. verdict \in Outcomes
  BY <1>2 DEF OpRecords, Outcomes
<1>4. \/ op[o].outcome = "ok" /\ verdict = "ok"
      \/ op[o].outcome # "ok" /\ op[o].aborted /\ verdict = "aborted"
      \/ op[o].outcome = "error" /\ ~op[o].aborted /\ verdict = "error"
  BY <1>1, <1>2 DEF Tells
<1> HIDE DEF verdict
<1>5. new \in OpRecords /\ new.at = "done" /\ new.outcome = verdict
  BY <1>2, <1>3, FreeFacts DEF Free, OpRecords, Points
<1> HIDE DEF new
<1>6. /\ op[o].outcome = "ok" => RequestOf(op[o]) = "fulfilled"
      /\ op[o].outcome # "ok" /\ op[o].handed => RequestOf(op[o]) \in {"rejected", "stranded"}
      /\ op[o].outcome # "ok" /\ ~op[o].handed => RequestOf(op[o]) = "open"
  <2>1. op[o].took => op[o].handed
    BY <1>2 DEF Honest
  <2> QED BY <1>1, <2>1 DEF RequestOf
<1>7. op[o].aborted => ~op[o].handed
  BY <1>1, <1>2 DEF Honest
<1>8. ~op[o].aborted => ~Called(op[o])
  BY DEF Called
<1> QED BY <1>1, <1>4, <1>5, <1>6, <1>7, <1>8, AnswerMaps

LEMMA BeginMaps == ASSUME DInv, NEW o \in Operations, Begin(o) PROVE Keeps /\ Telling'
<1> DEFINE R == op[o].roots
           D == op[o].removing
           S == Selections(R, D)
           captured == [op[o] EXCEPT
               !.at = "loading", !.plan = S, !.todo = S,
               !.record = [n \in Names |-> IF n \in S \union D THEN record[n] ELSE 0],
               !.revision = [n \in Names |-> IF n \in S \union D THEN revision[n] ELSE 0],
               !.artifact = [n \in Names |-> IF n \in S THEN selected[n] ELSE None]]
           ended == [Free EXCEPT !.at = "done", !.outcome = "error"]
<1>1. op[o].at = "called"
      /\ UNCHANGED <<status, registered, selected, record, handle, origin, quarantined>>
  BY DEF Begin, host
<1>2. op[o] \in OpRecords /\ Honest(op[o]) /\ Tells(op[o], status)
      /\ op \in [Operations -> OpRecords]
  BY DEF DInv, IInv, Types, Honesty, Telling
<1>3. ~op[o].aborted /\ RequestOf(op[o]) = "open" /\ ~Called(op[o]) /\ AnswerOf(op[o]) = "none"
      /\ ~op[o].handed
  BY <1>1, <1>2, EarlyFacts DEF Tells, Called, Early
<1>4. \/ op' = [op EXCEPT ![o] = ended]
      \/ op' = [op EXCEPT ![o] = captured] /\ status = "active" /\ Resolved(o)
  BY DEF Begin
<1>5. CASE op' = [op EXCEPT ![o] = ended]
  <2>1. ended \in OpRecords /\ ended.at = "done" /\ ended.outcome = "error"
    BY FreeFacts DEF Free, OpRecords, Points, Outcomes
  <2> HIDE DEF ended
  <2> QED BY <1>1, <1>3, <1>5, <2>1, AnswerMaps
<1>6. CASE op' = [op EXCEPT ![o] = captured] /\ status = "active" /\ Resolved(o)
  <2>1. CInv' /\ IInv'
    BY BeginFits, BeginStep DEF DInv
  <2>2. op'[o] = captured /\ \A p \in Operations \ {o} : op'[p] = op[p]
    BY <1>2, <1>6
  <2>3. /\ captured.at = "loading" /\ captured.roots = R /\ captured.removing = D
        /\ captured.plan = S /\ captured.aborted = op[o].aborted
        /\ captured.handed = op[o].handed
        /\ captured.record = [n \in Names |-> IF n \in S \union D THEN record[n] ELSE 0]
    BY <1>2 DEF OpRecords
  <2>4. R \subseteq S
    <3>1. Least(op'[o])
      BY <2>1, <2>2, <2>3 DEF CInv, Unfinished
    <3> QED BY <2>2, <2>3, <3>1 DEF Least
  <2>5. \A n \in R \union D : op[o].record[n] = record[n]
    BY <1>6 DEF Resolved
  <2>6. op'[o] \in OpRecords
    BY <2>1 DEF IInv, Types
  <2> HIDE DEF captured, S
  <2>7. [n \in Names |-> IF n \in R \union D THEN captured.record[n] ELSE 0]
        = [n \in Names |-> IF n \in R \union D THEN op[o].record[n] ELSE 0]
    BY <2>3, <2>4, <2>5
  <2>8. WishOf(captured) = WishOf(op[o])
    BY <1>1, <2>3, <2>7 DEF WishOf
  <2>9. RequestOf(captured) = "open" /\ AnswerOf(captured) = "none" /\ ~Called(captured)
        /\ Tells(captured, status)
    BY <1>3, <1>6, <2>3 DEF RequestOf, AnswerOf, Called, Tells
  <2>10. Same(op[o], captured)
    BY <1>3, <2>8, <2>9 DEF Same
  <2>11. \A p \in Operations : Same(op[p], op'[p])
    BY <2>2, <2>10 DEF Same
  <2>12. Telling'
    BY <1>1, <2>2, <2>9 DEF DInv, Telling
  <2> QED BY <1>1, <2>11, <2>12, Untold
<1> QED BY <1>4, <1>5, <1>6

LEMMA HandoffMaps == ASSUME DInv, NEW o \in Operations, Handoff(o) PROVE Keeps /\ Telling'
<1> DEFINE new == [op[o] EXCEPT !.at = "applying", !.handed = TRUE]
<1>1. op[o].at = "admitted"
      /\ UNCHANGED <<status, registered, selected, record, handle, origin, quarantined>>
  BY Unconcerned DEF Handoff
<1>2. op[o] \in OpRecords /\ Honest(op[o]) /\ Tells(op[o], status)
  BY DEF DInv, IInv, Types, Honesty, Telling
<1>3. CASE op' = Thrown(o)
  BY <1>1, <1>3, ThrownMaps DEF Early
<1>4. CASE PlanCurrent(o) /\ ~op[o].aborted /\ op' = [op EXCEPT ![o] = new]
  <2>1. /\ new \in OpRecords /\ new.at = "applying" /\ new.roots = op[o].roots
        /\ new.removing = op[o].removing /\ new.record = op[o].record
        /\ new.aborted = op[o].aborted /\ new.took = op[o].took
    BY <1>2 DEF OpRecords, Points
  <2> HIDE DEF new
  <2>2. status = "active" /\ ~op[o].took /\ Request[o] = "open" /\ Verdict[o] = "none" /\ o \notin Withdrawn
    BY <1>1, <1>2, <1>4, EarlyFacts, Seen
       DEF Tells, Unfinished, Early, Request, Verdict, Called
  <2>3. RequestOf(new) = "entrusted" /\ WishOf(new) = WishOf(op[o]) /\ AnswerOf(new) = "none"
        /\ ~Called(new) /\ Tells(new, status)
    BY <1>1, <1>4, <2>1, <2>2 DEF RequestOf, WishOf, AnswerOf, Called, Tells
  <2>4. /\ Request' = [Request EXCEPT ![o] = "entrusted"]
        /\ Wish' = [Wish EXCEPT ![o] = WishOf(op[o])]
        /\ Verdict' = [Verdict EXCEPT ![o] = "none"] /\ Withdrawn' = Withdrawn \ {o} /\ Telling'
    BY <1>1, <1>4, <2>1, <2>3, OneMoves
  <2>5. Wish' = Wish /\ Verdict' = Verdict /\ Withdrawn' = Withdrawn
    BY <2>2, <2>4 DEF Wish, Verdict
  <2>6. Selection' = Selection /\ Running' = Running
    BY <1>1 DEF Selection, Running
  <2>7. ~Promised!Busy
    <3>1. executing = o
      BY <1>1 DEF DInv, IInv, Roles, Holding
    <3>2. \A p \in Operations : op[p].at \notin {"applying", "applied"}
      BY <1>1, <3>1 DEF DInv, IInv, Roles, Holding
    <3> QED BY <3>2, HostIsFree
  <2>8. Promised!Meant(o)
    BY <1>1, <1>4, StillMeant DEF Unfinished
  <2>9. Promised!Entrust(o)
    BY <1>1, <2>2, <2>4, <2>5, <2>6, <2>7, <2>8 DEF Promised!Entrust, Promised!Moves
  <2> QED BY <2>4, <2>9 DEF Keeps, Promised!Next
<1> QED BY <1>3, <1>4 DEF Handoff

LEMMA HostRefusesMaps == ASSUME DInv, NEW o \in Operations, HostRefuses(o) PROVE Keeps /\ Telling'
<1> DEFINE new == [op[o] EXCEPT !.at = "settling", !.outcome = "error"]
<1>1. op[o].at = "applying" /\ op' = Thrown(o) /\ quarantined' \in {quarantined, TRUE}
      /\ UNCHANGED <<status, registered, selected, record, handle, origin>>
  BY DEF HostRefuses, MayBreak, records
<1>2. op[o] \in OpRecords /\ Honest(op[o]) /\ op \in [Operations -> OpRecords]
  BY DEF DInv, IInv, Types, Honesty
<1>3. op' = [op EXCEPT ![o] = new]
  BY <1>1, <1>2 DEF Thrown
<1>4. /\ new \in OpRecords /\ new.at = "settling" /\ new.outcome = "error"
      /\ new.roots = op[o].roots /\ new.removing = op[o].removing /\ new.record = op[o].record
      /\ new.aborted = op[o].aborted /\ new.handed = op[o].handed /\ new.took = op[o].took
  BY <1>2 DEF OpRecords, Points, Outcomes
<1> HIDE DEF new
<1>5. op[o].handed /\ ~op[o].aborted
  BY <1>1, <1>2 DEF Honest
<1>6. WishOf(new) = WishOf(op[o]) /\ AnswerOf(new) = "none" /\ AnswerOf(op[o]) = "none"
      /\ ~Called(new) /\ ~Called(op[o]) /\ Tells(new, status)
  BY <1>1, <1>4, <1>5 DEF WishOf, AnswerOf, Called, Tells
<1>7. Telling'
  <2>1. status' = status /\ Tells(new, status')
    BY <1>1, <1>6
  <2> QED BY <1>3, <1>4, <2>1, OneMoves
<1>8. CASE op[o].took
  <2>1. RequestOf(new) = "stranded" /\ RequestOf(op[o]) = "stranded"
    BY <1>1, <1>4, <1>8 DEF RequestOf
  <2>2. Same(op[o], new)
    BY <1>6, <2>1 DEF Same
  <2>3. \A p \in Operations : Same(op[p], op'[p])
    BY <1>2, <1>3, <2>2 DEF Same
  <2> QED BY <1>1, <1>7, <2>3, Untold
<1>9. CASE ~op[o].took
  <2>1. RequestOf(new) = "rejected" /\ RequestOf(op[o]) = "entrusted"
    BY <1>1, <1>4, <1>5, <1>9 DEF RequestOf
  <2>2. /\ Request' = [Request EXCEPT ![o] = "rejected"]
        /\ Wish' = [Wish EXCEPT ![o] = WishOf(op[o])]
        /\ Verdict' = [Verdict EXCEPT ![o] = "none"] /\ Withdrawn' = Withdrawn \ {o}
    BY <1>3, <1>4, <1>6, <2>1, OneMoves
  <2>3. Request[o] = "entrusted" /\ Verdict[o] = "none" /\ o \notin Withdrawn
    BY <1>6, <2>1, Seen DEF Request, Verdict
  <2>4. Wish' = Wish /\ Verdict' = Verdict /\ Withdrawn' = Withdrawn
    BY <2>2, <2>3 DEF Wish, Verdict
  <2>5. Selection' = Selection /\ Running' = Running
    BY <1>1 DEF Selection, Running
  <2>6. Promised!Reject(o)
    BY <1>1, <2>2, <2>3, <2>4, <2>5 DEF Promised!Reject, Promised!Moves
  <2> QED BY <1>7, <2>6 DEF Keeps, Promised!Next
<1> QED BY <1>8, <1>9

\* What an activation needs, to those who only see the promise, is its plan.
LEMMA SeenPlan ==
    ASSUME DInv, NEW o \in Operations, PlanCurrent(o), Unfinished(op[o].at)
    PROVE  /\ Selections(op[o].roots, op[o].removing) = op[o].plan
           /\ Promised!Needed(op[o].roots, op[o].removing) = op[o].plan
           /\ op[o].plan \subseteq registered /\ op[o].plan \intersect op[o].removing = {}
           /\ \A n \in op[o].plan : selected[n] = op[o].artifact[n] /\ Selection[n] = selected[n]
<1>1. Least(op[o]) /\ Captured(op[o]) /\ op[o].plan \intersect op[o].removing = {}
  BY DEF DInv, CInv, IInv, Fitness, Fit
<1>2. \A n \in op[o].plan : n \in registered /\ selected[n] = op[o].artifact[n]
  BY <1>1 DEF PlanCurrent, Current, Captured
<1>3. Selections(op[o].roots, op[o].removing) = op[o].plan
  BY <1>1, <1>2, PlanIsStillThePlan
<1>4. Promised!Needed(op[o].roots, op[o].removing) = Selections(op[o].roots, op[o].removing)
  <2>1. Promised!Registered = registered /\ \A n \in registered : Selection[n] = selected[n]
    BY SeenRegistrations
  <2>2. ASSUME NEW S \in SUBSET registered, NEW D
        PROVE  Promised!Closed(S, D) <=> Closed(S, D)
    BY <2>1 DEF Promised!Closed, Closed
  <2> QED BY <2>1, <2>2 DEF Promised!Needed, Selections
<1> QED BY <1>1, <1>2, <1>3, <1>4, SeenRegistrations

\* What the delivery of an activation leaves running.
LEMMA SeenDelivery ==
    ASSUME DInv, NEW o \in Operations, PlanCurrent(o), Unfinished(op[o].at)
    PROVE  Promised!Delivery(o) =
             [n \in Names |-> IF n \in op[o].removing THEN None
                              ELSE IF n \in op[o].plan THEN op[o].artifact[n] ELSE Running[n]]
<1>1. /\ Wish[o].roots = op[o].roots /\ Wish[o].removing = op[o].removing
  BY StillMeant
<1>2. /\ Promised!Needed(op[o].roots, op[o].removing) = op[o].plan
      /\ \A n \in op[o].plan : Selection[n] = op[o].artifact[n]
  BY SeenPlan
<1> QED BY <1>1, <1>2 DEF Promised!Delivery

\* What is sound fits.
LEMMA SoundFits ==
    ASSUME NEW c, Sound(c), NEW r, DOMAIN c = {n \in Names : r[n] # None},
           \A n \in DOMAIN c : c[n] = r[n]
    PROVE  Promised!Fits(r)
<1> DEFINE used == {n \in Names : r[n] # None}
<1>1. \A n \in used : \A d \in DOMAIN Deps[r[n]] : d \in used /\ r[d] \in Deps[r[n]][d]
  BY DEF Sound
<1>2. ASSUME NEW X \in (SUBSET used) \ {{}} PROVE \E n \in X : X \intersect DOMAIN Deps[r[n]] = {}
  <2>1. X \in (SUBSET DOMAIN c) \ {{}}
    OBVIOUS
  <2>2. PICK n \in X : X \intersect DOMAIN Deps[c[n]] = {}
    BY <2>1 DEF Sound
  <2>3. c[n] = r[n]
    OBVIOUS
  <2> QED BY <2>2, <2>3
<1> QED BY <1>1, <1>2 DEF Promised!Fits

LEMMA RunningIsActive == ASSUME IInv PROVE \A n \in Names : Running[n] = Active(n)
BY DEF Running, Active, Installed, IInv, NoOrphanInstallation

LEMMA HostCommitsMaps ==
    ASSUME DInv, NEW o \in Operations, HostCommits(o) \/ HostCommitFails(o)
    PROVE  Keeps /\ Telling'
<1> DEFINE r == op[o]
           left == {m \in registered : bound[m] # None /\ handle'[m] = bound[m]
                                       /\ origin'[m] # None}
<1>0. op \in [Operations -> OpRecords]
  BY DEF DInv, IInv, Types
<1>1. /\ r.at = "applying" /\ hostRevision = r.base /\ ~quarantined
      /\ handle' = [n \in Names |-> CASE n \in r.pending -> bound[n]
                                      [] n \in r.drops   -> None
                                      [] OTHER           -> handle[n]]
      /\ origin' = [n \in Names |-> CASE n \in r.pending -> r.artifact[n]
                                      [] n \in r.drops   -> None
                                      [] OTHER           -> origin[n]]
      /\ UNCHANGED <<status, registered, record, selected, bound>>
  BY <1>0, AdvanceFacts DEF records
<1>2. r \in OpRecords /\ Fit(r) /\ Honest(r) /\ Tells(r, status) /\ registered \subseteq Names
      /\ Matches(r) /\ op \in [Operations -> OpRecords]
  BY DEF DInv, IInv, Types, Fitness, Honesty, Telling, CInv
<1>3. IInv' /\ CommitFits
  BY HostCommitsStep, HostCommitsFits DEF DInv
<1>4. PlanCurrent(o)
  BY <1>1, <1>2 DEF Fit, PlanCurrent, Current
<1>5. /\ r.drops \subseteq r.removing /\ r.pending \subseteq r.plan
      /\ r.plan \intersect r.removing = {} /\ r.plan \subseteq Names
      /\ \A n \in r.pending : bound[n] # None
      /\ \A n \in r.plan \ r.pending : Active(n) = r.artifact[n]
      /\ \A n \in r.removing : handle[n] # None => n \in r.drops
  BY <1>1, <1>2 DEF Matches, Fit, Executing, Holding, OpRecords
<1>6. PICK new : /\ Advanced(r, new) /\ op' = [op EXCEPT ![o] = new]
                 /\ quarantined' = IF new.at = "applied" THEN quarantined ELSE TRUE
  BY <1>0, AdvanceFacts
<1>6a. /\ new \in OpRecords /\ new.at \in {"applied", "applying"} /\ new.roots = r.roots
       /\ new.removing = r.removing /\ new.record = r.record /\ new.aborted = r.aborted
       /\ new.took
  BY <1>6 DEF Advanced
<1>6b. ~r.took
  BY <1>1, <1>2 DEF Fit, OpRecords, IInv, DInv, Types
<1> HIDE DEF r
<1>7. ASSUME NEW n \in Names
      PROVE  Running'[n] = IF n \in r.removing THEN None
                           ELSE IF n \in r.plan THEN r.artifact[n] ELSE Running[n]
  <2>1. Running'[n] = (IF handle'[n] = None THEN None ELSE origin'[n])
        /\ Running[n] = (IF handle[n] = None THEN None ELSE origin[n])
    BY DEF Running
  <2>2. CASE n \in r.pending
    <3>1. handle'[n] = bound[n] /\ origin'[n] = r.artifact[n]
      BY <1>1, <1>5, <2>2
    <3> QED BY <1>5, <2>1, <2>2, <3>1
  <2>3. CASE n \in r.drops
    <3>1. handle'[n] = None
      BY <1>1, <1>5, <2>3
    <3> QED BY <1>5, <2>1, <2>3, <3>1
  <2>4. CASE n \notin r.pending /\ n \notin r.drops
    <3>1. handle'[n] = handle[n] /\ origin'[n] = origin[n]
      BY <1>1, <2>4
    <3>2. Running[n] = Active(n)
      BY RunningIsActive DEF DInv
    <3> QED BY <1>5, <2>1, <2>4, <3>1, <3>2
  <2> QED BY <2>2, <2>3, <2>4
<1>8. Running' = Promised!Delivery(o)
  <2>1. Unfinished(op[o].at)
    BY <1>1 DEF r, Unfinished
  <2>2. Running' = [n \in Names |-> Running'[n]]
    BY DEF Running
  <2> QED BY <1>4, <1>7, <2>1, <2>2, SeenDelivery DEF r
<1>9. Promised!Fits(Running')
  <2>1. Sound([n \in left |-> origin'[n]])
    <3>1. op'[o] = new
      BY <1>2, <1>6
    <3> QED BY <1>1, <1>3, <1>6a, <1>6b, <3>1 DEF CommitFits, r
  <2>2. \A n \in Names : handle'[n] # None => n \in registered /\ bound[n] = handle'[n]
    BY <1>1, <1>3 DEF IInv, NoOrphanInstallation
  <2>3. \A n \in Names : Running'[n] = IF handle'[n] = None THEN None ELSE origin'[n]
    BY DEF Running
  <2>4. left = {n \in Names : Running'[n] # None} /\ \A n \in left : origin'[n] = Running'[n]
    BY <1>2, <2>2, <2>3
  <2> HIDE DEF left
  <2> QED BY <2>1, <2>4, SoundFits
<1>10. /\ Request[o] = "entrusted" /\ Verdict[o] = "none" /\ o \notin Withdrawn
       /\ ~r.aborted /\ status = "active"
  BY <1>1, <1>2, <1>6b, Seen DEF Request, RequestOf, Verdict, AnswerOf, Called, Honest, Tells,
                                 Unfinished, r
<1>11. /\ RequestOf(new) = IF new.at = "applied" THEN "effective" ELSE "stranded"
       /\ WishOf(new) = WishOf(r) /\ AnswerOf(new) = "none"
       /\ ~Called(new) /\ Tells(new, status)
  BY <1>1, <1>6a, <1>10 DEF RequestOf, WishOf, AnswerOf, Called, Tells
<1>12. /\ Request' = [Request EXCEPT ![o] = RequestOf(new)]
       /\ Wish' = [Wish EXCEPT ![o] = WishOf(r)]
       /\ Verdict' = [Verdict EXCEPT ![o] = "none"] /\ Withdrawn' = Withdrawn \ {o} /\ Telling'
  <2>1. status' = status /\ Tells(new, status')
    BY <1>1, <1>11
  <2> QED BY <1>6, <1>6a, <1>11, <2>1, OneMoves
<1>13. Wish' = Wish /\ Verdict' = Verdict /\ Withdrawn' = Withdrawn
  BY <1>10, <1>12 DEF Wish, Verdict, r
<1>14. Selection' = Selection
  BY <1>1 DEF Selection
<1>15. Promised!Meant(o)
  <2>1. Unfinished(op[o].at)
    BY <1>1 DEF r, Unfinished
  <2> QED BY <1>4, <2>1, StillMeant
<1>16. Promised!Delivered(o)
  BY <1>1, <1>8, <1>9, <1>10, <1>13, <1>14, <1>15 DEF Promised!Delivered
<1>17. CASE new.at = "applied"
  <2>1. Promised!Deliver(o)
    BY <1>6, <1>11, <1>12, <1>16, <1>17 DEF Promised!Deliver, Promised!Moves
  <2> QED BY <1>12, <2>1 DEF Keeps, Promised!Next
<1>18. CASE new.at = "applying"
  <2>1. Promised!Strand(o)
    BY <1>6, <1>11, <1>12, <1>16, <1>18 DEF Promised!Strand, Promised!Moves
  <2> QED BY <1>12, <2>1 DEF Keeps, Promised!Next
<1> QED BY <1>6a, <1>17, <1>18

\* The end of an activation that is delivered: others are cancelled by it.
LEMMA CommitSelectionsMaps ==
    ASSUME DInv, NEW o \in Operations, NEW waiting, CommitSelections(o, waiting),
           op[o].at \in {"ready", "applied"}
    PROVE  /\ Request' = [Request EXCEPT ![o] = "fulfilled"]
           /\ Wish' = Wish /\ Verdict' = Verdict /\ Promised!Cancels
           /\ Selection' = Promised!Unregistered(Wish[o].removing)
           /\ Running' = Running /\ record' = record /\ status' = status
           /\ quarantined' = quarantined /\ Telling'
<1> DEFINE D == op[o].removing
           over == {p \in Operations \ {o} : \E n \in D : Touches(p, n)}
           new == [op[o] EXCEPT !.at = "settling", !.outcome = "ok"]
<1>1. /\ registered' = registered \ D /\ selected' = Forgotten(D, selected)
      /\ op' = [Aborted(over) EXCEPT ![o].at = "settling", ![o].outcome = "ok"]
      /\ UNCHANGED <<record, handle, origin, status, quarantined>>
  BY DEF CommitSelections, host
<1>2. /\ Aborted(over) \in [Operations -> OpRecords] /\ Aborted(over)[o] = op[o]
  BY AbortedFacts DEF DInv
<1>3. op[o] \in OpRecords /\ Tells(op[o], status)
  BY DEF DInv, IInv, Types, Telling
<1>4. /\ new.at = "settling" /\ new.outcome = "ok" /\ new.roots = op[o].roots
      /\ new.removing = op[o].removing /\ new.record = op[o].record
      /\ new.aborted = op[o].aborted
  BY <1>3 DEF OpRecords
<1>5. op' = [Aborted(over) EXCEPT ![o] = new]
  BY <1>1, <1>2
<1> HIDE DEF new, over
<1>6. op'[o] = new /\ \A p \in Operations \ {o} : op'[p] = Aborted(over)[p]
  BY <1>2, <1>5
<1>7. RequestOf(new) = "fulfilled" /\ WishOf(new) = WishOf(op[o])
      /\ AnswerOf(new) = AnswerOf(op[o]) /\ (Called(new) <=> Called(op[o])) /\ Tells(new, status)
  BY <1>4 DEF RequestOf, WishOf, AnswerOf, Called, Unfinished, Tells
<1>8. ASSUME NEW p \in Operations \ {o}
      PROVE  /\ RequestOf(op'[p]) = RequestOf(op[p]) /\ WishOf(op'[p]) = WishOf(op[p])
             /\ AnswerOf(op'[p]) = AnswerOf(op[p])
             /\ Called(op[p]) => Called(op'[p])
             /\ Called(op'[p]) /\ ~Called(op[p]) => RequestOf(op[p]) \in {"open", "fulfilled"}
             /\ Tells(op'[p], status)
  BY <1>6, AbortMaps
<1>9. Request' = [Request EXCEPT ![o] = "fulfilled"]
  <2>1. /\ Request' = [p \in Operations |-> RequestOf(op'[p])]
        /\ Request = [p \in Operations |-> RequestOf(op[p])]
    BY DEF Request
  <2> QED BY <1>6, <1>7, <1>8, <2>1
<1>10. Wish' = Wish /\ Verdict' = Verdict
  <2>1. \A p \in Operations : WishOf(op'[p]) = WishOf(op[p]) /\ AnswerOf(op'[p]) = AnswerOf(op[p])
    BY <1>6, <1>7, <1>8
  <2> QED BY <2>1 DEF Wish, Verdict
<1>11. Promised!Cancels
  <2>1. ASSUME NEW p \in Operations
        PROVE  /\ Called(op[p]) => Called(op'[p])
               /\ Called(op'[p]) /\ ~Called(op[p]) => RequestOf(op[p]) \in {"open", "fulfilled"}
    BY <1>6, <1>7, <1>8
  <2>2. \A p \in Operations : Request[p] = RequestOf(op[p])
    BY DEF Request
  <2> QED BY <2>1, <2>2, Seen DEF Promised!Cancels
<1>12. Selection' = Promised!Unregistered(Wish[o].removing)
  <2>1. Wish[o].removing = D
    BY DEF Wish, WishOf
  <2> HIDE DEF D
  <2>2. \A n \in Names : selected'[n] = IF n \in D THEN None ELSE selected[n]
    BY <1>1 DEF Forgotten
  <2> QED BY <1>1, <2>1, <2>2 DEF Selection, Promised!Unregistered
<1>13. Running' = Running
  BY <1>1 DEF Running
<1>14. Telling'
  BY <1>1, <1>6, <1>7, <1>8 DEF Telling
<1> QED BY <1>1, <1>9, <1>10, <1>11, <1>12, <1>13, <1>14

LEMMA AppliedMaps == ASSUME DInv, NEW o \in Operations, Applied(o) PROVE Keeps /\ Telling'
<1>1. op[o].at = "applied" /\ CommitSelections(o, queue)
  BY DEF Applied
<1>2. Request[o] = "effective"
  BY <1>1 DEF Request, RequestOf
<1>3. Promised!Complete(o) /\ Telling'
  BY <1>1, <1>2, CommitSelectionsMaps DEF Promised!Complete, Promised!Moves
<1> QED BY <1>3 DEF Keeps, Promised!Next

LEMMA NothingToDoMaps == ASSUME DInv, NEW o \in Operations, NothingToDo(o) PROVE Keeps /\ Telling'
<1> DEFINE r == op[o]
<1>1. /\ r.at = "ready" /\ executing = None /\ status = "active" /\ ~r.aborted
      /\ PlanCurrent(o) /\ ValidPlan(r.roots, r.removing)
      /\ ToInstall(o) = {} /\ ToRemove(o) = {} /\ CommitSelections(o, Tail(queue))
  BY DEF NothingToDo, Begun, Turn, Startable
<1>2. r \in OpRecords /\ Unfinished(r.at) /\ Honest(r)
  BY <1>1 DEF DInv, IInv, Types, Unfinished, Honesty
<1>3. \A n \in Names : Running[n] = Active(n)
  BY RunningIsActive DEF DInv
<1>4. \A n \in r.plan : Active(n) = r.artifact[n]
  BY <1>1 DEF ToInstall, Reuses
<1>5. \A n \in r.removing : n \in Names /\ Active(n) = None
  BY <1>1, <1>2 DEF ToRemove, Active, OpRecords
<1>6. Running = Promised!Delivery(o)
  <2>1. \A n \in Names : Running[n] = IF n \in r.removing THEN None
                          ELSE IF n \in r.plan THEN r.artifact[n] ELSE Running[n]
    BY <1>3, <1>4, <1>5
  <2>2. Running = [n \in Names |-> Running[n]]
    BY DEF Running
  <2> QED BY <1>1, <1>2, <2>1, <2>2, SeenDelivery
<1>7. Promised!Fits(Running)
  <2>1. /\ Selections(r.roots, r.removing) = r.plan /\ r.plan \subseteq registered
        /\ \A n \in r.plan : selected[n] = r.artifact[n]
    BY <1>1, <1>2, SeenPlan
  <2> DEFINE c == Candidate(r.plan, r.removing)
  <2>2. Sound(c)
    BY <1>1, <2>1 DEF ValidPlan
  <2>3. registered \subseteq Names /\ \A n \in registered : selected[n] # None
    BY NamesApart DEF DInv, IInv, Types, CInv
  <2>4. \A n \in Names : Active(n) # None => n \in registered
    BY DEF Active, Installed
  <2>5. DOMAIN c = r.plan \union ActiveNames(registered \ r.removing)
        /\ \A n \in DOMAIN c : c[n] = IF n \in r.plan THEN selected[n] ELSE Active(n)
    BY DEF Candidate
  <2> HIDE DEF c
  <2>6. DOMAIN c = {n \in Names : Running[n] # None}
    BY <1>3, <1>4, <1>5, <2>1, <2>3, <2>4, <2>5 DEF ActiveNames
  <2>7. \A n \in DOMAIN c : c[n] = Running[n]
    BY <1>3, <1>4, <2>1, <2>3, <2>5, <2>6
  <2> QED BY <2>2, <2>6, <2>7, SoundFits
<1>8. ~Promised!Busy
  <2>1. \A p \in Operations : op[p].at \notin {"applying", "applied"}
    BY <1>1, NobodyExecutes DEF Holding
  <2> QED BY <2>1, HostIsFree
<1>9. Request[o] = "open" /\ o \notin Withdrawn
  BY <1>1, <1>2, EarlyFacts, Seen DEF Request, Early, Called
<1>10. Promised!Meant(o)
  BY <1>1, <1>2, StillMeant
<1>11. Promised!Confirm(o) /\ Telling'
  BY <1>1, <1>6, <1>7, <1>8, <1>9, <1>10, CommitSelectionsMaps
     DEF Promised!Confirm, Promised!Moves
<1> QED BY <1>11 DEF Keeps, Promised!Next

\* A step that aborts signals, to those who only see the promise.
LEMMA AbortedMaps ==
    ASSUME DInv, NEW S, op' = Aborted(S),
           \/ status' = status
           \/ /\ status' = "disposing" /\ status = "active"
              /\ \A p \in Operations : op[p].at \notin {"free", "called", "done"} =>
                    p \in S /\ op[p].at \notin {"applying", "applied"}
    PROVE  /\ Request' = Request /\ Wish' = Wish /\ Verdict' = Verdict
           /\ Promised!Cancels /\ Telling'
<1>1. \A p \in Operations : op'[p] = Aborted(S)[p]
  OBVIOUS
<1>2. ASSUME NEW p \in Operations
      PROVE  /\ RequestOf(op'[p]) = RequestOf(op[p]) /\ WishOf(op'[p]) = WishOf(op[p])
             /\ AnswerOf(op'[p]) = AnswerOf(op[p])
             /\ Called(op[p]) => Called(op'[p])
             /\ Called(op'[p]) /\ ~Called(op[p]) => RequestOf(op[p]) \in {"open", "fulfilled"}
             /\ Tells(op'[p], status')
  <2>1. CASE status' = status \/ (p \in S /\ op[p].at \notin {"applying", "applied"})
    BY <1>1, <2>1, AbortMaps
  <2>2. CASE status' # status /\ op[p].at \in {"free", "called", "done"}
    <3>1. /\ RequestOf(op'[p]) = RequestOf(op[p]) /\ WishOf(op'[p]) = WishOf(op[p])
          /\ AnswerOf(op'[p]) = AnswerOf(op[p])
          /\ Called(op[p]) => Called(op'[p])
          /\ Called(op'[p]) /\ ~Called(op[p]) => RequestOf(op[p]) \in {"open", "fulfilled"}
          /\ Tells(op'[p], status)
      BY <1>1, AbortMaps
    <3>2. op'[p] = op[p]
      BY <1>1, <2>2 DEF Aborted, Cancellable, Pending
    <3>3. Tells(op'[p], status')
      BY <2>2, <3>1, <3>2 DEF Tells, Unfinished
    <3> QED BY <3>1, <3>3
  <2>3. status' = status \/ (p \in S /\ op[p].at \notin {"applying", "applied"})
        \/ (status' # status /\ op[p].at \in {"free", "called", "done"})
    <3>1. CASE status' = status
      BY <3>1
    <3>2. CASE status' # status
      <4>1. op[p].at \notin {"free", "called", "done"} =>
                p \in S /\ op[p].at \notin {"applying", "applied"}
        BY <3>2
      <4> QED BY <3>2, <4>1
    <3> QED BY <3>1, <3>2
  <2> QED BY <2>1, <2>2, <2>3
<1>3. Request' = Request /\ Wish' = Wish /\ Verdict' = Verdict
  BY <1>2 DEF Request, Wish, Verdict
<1>4. Promised!Cancels
  <2>1. \A p \in Operations : Request[p] = RequestOf(op[p])
    BY DEF Request
  <2> QED BY <1>2, <2>1, Seen DEF Promised!Cancels
<1>5. Telling'
  BY <1>2 DEF Telling
<1> QED BY <1>3, <1>4, <1>5

LEMMA CancelMaps == ASSUME DInv, NEW o \in Operations, Cancel(o) PROVE Keeps /\ Telling'
<1> DEFINE ended == [Free EXCEPT !.at = "done", !.outcome = "aborted"]
<1>1. /\ op' = IF op[o].at = "called" THEN [op EXCEPT ![o] = ended] ELSE Aborted({o})
      /\ UNCHANGED <<status, registered, selected, record, handle, origin, quarantined>>
  BY Unconcerned DEF Cancel
<1>2. CASE op[o].at = "called"
  <2>1. ended \in OpRecords /\ ended.at = "done" /\ ended.outcome = "aborted"
    BY FreeFacts DEF Free, OpRecords, Points, Outcomes
  <2> HIDE DEF ended
  <2>2. RequestOf(op[o]) = "open"
    BY <1>2 DEF RequestOf
  <2>3. op' = [op EXCEPT ![o] = ended]
    BY <1>1, <1>2
  <2> QED BY <1>1, <2>1, <2>2, <2>3, AnswerMaps
<1>3. CASE op[o].at # "called"
  <2>1. /\ Request' = Request /\ Wish' = Wish /\ Verdict' = Verdict
        /\ Promised!Cancels /\ Telling'
    BY <1>1, <1>3, AbortedMaps
  <2>2. Selection' = Selection /\ Running' = Running
    BY <1>1 DEF Selection, Running
  <2>3. Promised!Cancel
    BY <1>1, <2>1, <2>2 DEF Promised!Cancel
  <2> QED BY <2>1, <2>3 DEF Keeps, Promised!Next
<1> QED BY <1>2, <1>3

\* dispose() is refused while the Host works for an activation.
LEMMA DisposeMaps == ASSUME DInv, Dispose PROVE Keeps /\ Telling'
<1>1. /\ status = "active" /\ status' = "disposing" /\ op' = Aborted(Pending)
      /\ executing = None \/ executing \in Cancellable
      /\ UNCHANGED <<registered, selected, record, handle, origin, quarantined>>
  BY DEF Dispose, records, host
<1>2. \A p \in Operations : op[p].at \notin {"applying", "applied"}
  <2> SUFFICES ASSUME NEW p \in Operations, op[p].at \in {"applying", "applied"} PROVE FALSE
    OBVIOUS
  <2>1. executing = p
    BY DEF DInv, IInv, Roles, Holding
  <2>2. op[p].handed
    BY DEF DInv, IInv, Honesty, Honest
  <2> QED BY <1>1, <2>1, <2>2, NamesApart DEF Cancellable
<1>3. /\ Request' = Request /\ Wish' = Wish /\ Verdict' = Verdict
      /\ Promised!Cancels /\ Telling'
  <2>1. \A p \in Operations : op[p].at \notin {"free", "called", "done"} =>
            p \in Pending /\ op[p].at \notin {"applying", "applied"}
    BY <1>2 DEF Pending
  <2> QED BY <1>1, <2>1, AbortedMaps
<1>4. Selection' = Selection /\ Running' = Running
  BY <1>1 DEF Selection, Running
<1>5. Promised!Shut
  BY <1>1, <1>2, <1>3, <1>4, HostIsFree DEF Promised!Shut
<1> QED BY <1>3, <1>5 DEF Keeps, Promised!Next

LEMMA SelectMaps == ASSUME DInv, NEW A \in SUBSET Artifacts, Select(A) PROVE Keeps /\ Telling'
<1> DEFINE new == Introduced(A)
           changed == new \union Reselected(A)
           choice(n) == CHOOSE a \in A : NameOf[a] = n
           over == {o \in Operations : \E n \in changed : Touches(o, n)}
<1>1. /\ status = "active" /\ executing = None /\ changed # {}
      /\ \A a, b \in A : NameOf[a] = NameOf[b] => a = b
      /\ registered' = registered \union new
      /\ record' = [n \in Names |-> IF n \in new THEN record[n] + 1 ELSE record[n]]
      /\ selected' = [n \in Names |-> IF n \in changed THEN choice(n) ELSE selected[n]]
      /\ op' = Aborted(over)
      /\ UNCHANGED <<status, handle, origin, quarantined>>
  BY DEF Select, QueueIdle, host, control
<1>2. /\ new \subseteq Names /\ new \intersect registered = {} /\ registered \subseteq Names
      /\ Reselected(A) \subseteq registered
  BY NamesApart DEF Introduced, Reselected, DInv, IInv, Types
<1>3. \A n \in changed : choice(n) \in A /\ NameOf[choice(n)] = n
  <2>1. \A n \in changed : \E a \in A : NameOf[a] = n
    BY DEF Introduced, Reselected
  <2> QED BY <2>1
<1>4. \A n \in Reselected(A) : choice(n) # selected[n]
  <2> SUFFICES ASSUME NEW n \in Reselected(A) PROVE choice(n) # selected[n]
    OBVIOUS
  <2>1. PICK a \in A : NameOf[a] = n /\ selected[n] # a
    BY DEF Reselected
  <2>2. choice(n) \in A /\ NameOf[choice(n)] = n
    BY <1>3
  <2> HIDE DEF choice
  <2> QED BY <1>1, <2>1, <2>2
<1> DEFINE chosen == [n \in changed |-> choice(n)]
<1> HIDE DEF choice, over
<1>5. /\ Request' = Request /\ Wish' = Wish /\ Verdict' = Verdict
      /\ Promised!Cancels /\ Telling'
  BY <1>1, AbortedMaps
<1>6. Running' = Running
  BY <1>1 DEF Running
<1>7. Promised!Registered = registered /\ \A n \in registered : Selection[n] = selected[n]
  BY SeenRegistrations
<1>8. \A n \in new : Selection[n] = None
  BY <1>2 DEF Selection
<1>9. chosen \in [changed -> Artifacts] /\ changed \in (SUBSET Names) \ {{}}
  <2>1. \A n \in changed : choice(n) \in Artifacts
    BY <1>3
  <2>2. changed \subseteq Names
    BY <1>2
  <2> HIDE DEF changed
  <2>3. chosen \in [changed -> Artifacts]
    BY <2>1
  <2> HIDE DEF chosen
  <2>4. changed \in SUBSET Names /\ changed # {}
    BY <1>1, <2>2
  <2> QED BY <2>3, <2>4
<1>10. \A n \in changed : NameOf[chosen[n]] = n /\ chosen[n] # Selection[n]
  <2> SUFFICES ASSUME NEW n \in changed PROVE NameOf[chosen[n]] = n /\ chosen[n] # Selection[n]
    OBVIOUS
  <2>1. chosen[n] = choice(n) /\ choice(n) # None
    BY <1>3, NamesApart
  <2>2. CASE n \in new
    BY <1>3, <1>8, <2>1, <2>2
  <2>3. CASE n \in Reselected(A)
    BY <1>2, <1>3, <1>4, <1>7, <2>1, <2>3
  <2> QED BY <2>2, <2>3
<1>11. Selection' = [n \in Names |-> IF n \in changed THEN chosen[n] ELSE Selection[n]]
  <2> SUFFICES ASSUME NEW n \in Names
               PROVE  (IF n \in registered' THEN selected'[n] ELSE None)
                      = IF n \in changed THEN chosen[n] ELSE Selection[n]
    BY DEF Selection
  <2>1. selected'[n] = IF n \in changed THEN choice(n) ELSE selected[n]
    BY <1>1
  <2>2. Selection[n] = IF n \in registered THEN selected[n] ELSE None
    BY DEF Selection
  <2> QED BY <1>1, <1>2, <2>1, <2>2
<1>12. record' = [n \in Names |-> IF n \in changed \ Promised!Registered THEN record[n] + 1
                                  ELSE record[n]]
  <2>1. changed \ Promised!Registered = new
    BY <1>2, <1>7
  <2> QED BY <1>1, <2>1
<1>13. ~Promised!Busy
  <2>1. \A p \in Operations : op[p].at \notin {"applying", "applied"}
    BY <1>1, NobodyExecutes DEF Holding
  <2> QED BY <2>1, HostIsFree
<1> HIDE DEF changed, chosen, new
<1>14. Promised!Choose
  BY <1>1, <1>5, <1>6, <1>9, <1>10, <1>11, <1>12, <1>13 DEF Promised!Choose
<1> QED BY <1>5, <1>14 DEF Keeps, Promised!Next

\* Nobody who asked something is concerned.
LEMMA UnseenMaps ==
    ASSUME DInv, quarantined' \in {quarantined, TRUE},
           UNCHANGED <<op, status, registered, selected, record, handle, origin>>
    PROVE  Keeps /\ Telling'
<1>1. \A p \in Operations : Same(op[p], op'[p])
  BY DEF Same
<1>2. Telling'
  BY DEF DInv, Telling
<1> QED BY <1>1, <1>2, Untold

\* When a disposal releases, every activation has ended.
LEMMA ReleaseMaps == ASSUME DInv, ReleaseSucceeds \/ ReleaseFails PROVE Keeps /\ Telling'
<1>1. /\ disposal = "releasing" /\ UNCHANGED <<op, record>>
      /\ status = "disposing" /\ \A p \in Operations : ~Unfinished(op[p].at)
  BY DEF ReleaseSucceeds, ReleaseFails, records, DInv, IInv, Roles
<1>2. ~Promised!Busy
  <2>1. \A p \in Operations : op[p].at \notin {"applying", "applied"}
    BY <1>1 DEF Unfinished
  <2> QED BY <2>1, HostIsFree
<1>3. /\ Request' = Request /\ Wish' = Wish /\ Verdict' = Verdict /\ Withdrawn' = Withdrawn
  BY <1>1 DEF Request, Wish, Verdict, Withdrawn, Pending
<1>4. Telling'
  BY <1>1 DEF DInv, Telling, Tells
<1>5. ASSUME Removes PROVE ~quarantined /\ Running' = [n \in Names |-> None]
  <2>1. \A n \in Names : handle'[n] = None
    BY <1>1, <1>5, RemovesFacts DEF DInv
  <2> QED BY <1>5, <2>1 DEF Removes, Running
<1>6. CASE ReleaseFails
  <2>1. status' = "active" /\ UNCHANGED <<registered, selected>>
    BY <1>6 DEF ReleaseFails, records
  <2>2. Selection' = Selection
    BY <2>1 DEF Selection
  <2>3. \/ Running' = Running /\ quarantined' \in {quarantined, TRUE}
        \/ Running' = [n \in Names |-> None] /\ ~quarantined /\ quarantined' = TRUE
    <3>1. CASE MayBreak /\ UNCHANGED <<handle, origin>>
      BY <3>1 DEF MayBreak, Running
    <3>2. CASE Removes /\ quarantined' = TRUE
      BY <1>5, <3>2
    <3> QED BY <1>6, <3>1, <3>2 DEF ReleaseFails
  <2>4. Promised!Reopen
    BY <1>1, <1>2, <1>3, <2>1, <2>2, <2>3 DEF Promised!Reopen
  <2> QED BY <1>4, <2>4 DEF Keeps, Promised!Next
<1>7. CASE ReleaseSucceeds
  <2>1. status' = "disposed" /\ registered' = {} /\ quarantined' = quarantined
    BY <1>7 DEF ReleaseSucceeds
  <2>2. /\ Running' = [n \in Names |-> None]
        /\ quarantined => Running' = Running
    <3>1. CASE release.names = {} /\ UNCHANGED <<handle, origin>>
      <4>1. \A n \in Names : handle[n] = None
        BY <1>1, <3>1 DEF DInv, IInv, Emptying
      <4> QED BY <3>1, <4>1 DEF Running
    <3>2. CASE Removes
      BY <1>5, <3>2
    <3> QED BY <1>7, <3>1, <3>2 DEF ReleaseSucceeds
  <2>3. Selection' = [n \in Names |-> None]
    BY <2>1 DEF Selection
  <2>4. Promised!Close
    BY <1>1, <1>2, <1>3, <2>1, <2>2, <2>3 DEF Promised!Close
  <2> QED BY <1>4, <2>4 DEF Keeps, Promised!Next
<1> QED BY <1>6, <1>7

LEMMA OutsideMaps == ASSUME DInv, OutsideCommit PROVE Keeps /\ Telling'
<1>1. /\ UNCHANGED <<op, status, registered, selected, record, quarantined>> /\ ~quarantined
      /\ \/ UNCHANGED <<handle, origin>>
         \/ \E n \in Names : /\ origin' = [origin EXCEPT ![n] = None]
                             /\ handle' \in {handle, [handle EXCEPT ![n] = None]}
  BY DEF OutsideCommit, records, control
<1>2. CASE UNCHANGED <<handle, origin>>
  BY <1>1, <1>2, UnseenMaps
<1>3. ASSUME NEW n \in Names, origin' = [origin EXCEPT ![n] = None],
             handle' \in {handle, [handle EXCEPT ![n] = None]}
      PROVE  Keeps /\ Telling'
  <2>1. /\ origin \in [Names -> Artifacts \union {None}]
        /\ handle \in [Names -> Operations \union {None}]
    BY DEF DInv, IInv, Types
  <2>2. /\ origin'[n] = None
        /\ \A m \in Names \ {n} : origin'[m] = origin[m] /\ handle'[m] = handle[m]
    BY <1>3, <2>1
  <2>3. Running' = [Running EXCEPT ![n] = None]
    BY <2>2 DEF Running
  <2>4. /\ Request' = Request /\ Wish' = Wish /\ Verdict' = Verdict /\ Withdrawn' = Withdrawn
        /\ Selection' = Selection
    BY <1>1 DEF Request, Wish, Verdict, Withdrawn, Pending, Selection
  <2>5. Telling'
    BY <1>1 DEF DInv, Telling
  <2>6. Promised!Intrude
    BY <1>1, <2>3, <2>4 DEF Promised!Intrude
  <2> QED BY <2>5, <2>6 DEF Keeps, Promised!Next
<1> QED BY <1>1, <1>2, <1>3

LEMMA DeliveriesInit == Init => Promised!Init /\ Telling
<1> SUFFICES ASSUME Init PROVE Promised!Init /\ Telling
  OBVIOUS
<1>1. \A o \in Operations : op[o] = Free
  BY DEF Init
<1>2. Free.at = "free" /\ ~Free.aborted
  BY DEF Free
<1>3. RequestOf(Free) = "free" /\ WishOf(Free) = Promised!Nothing /\ AnswerOf(Free) = "none"
      /\ ~Called(Free) /\ Tells(Free, status)
  BY <1>2 DEF RequestOf, WishOf, Promised!Nothing, AnswerOf, Called, Unfinished, Tells
<1>4. /\ Request = [o \in Operations |-> "free"] /\ Wish = [o \in Operations |-> Promised!Nothing]
      /\ Verdict = [o \in Operations |-> "none"]
  BY <1>1, <1>3 DEF Request, Wish, Verdict
<1>5. Withdrawn = {}
  BY <1>1, <1>2 DEF Withdrawn, Pending
<1>6. /\ status = "active" /\ record = [n \in Names |-> 0]
      /\ Selection = [n \in Names |-> None] /\ Running = [n \in Names |-> None]
      /\ quarantined = FALSE
  BY DEF Init, Selection, Running
<1>7. Telling
  BY <1>1, <1>3 DEF Telling
<1> QED BY <1>4, <1>5, <1>6, <1>7 DEF Promised!Init

\* Every step of a platform is a step of what it promises, or is not seen.
LEMMA DeliveriesStep == DInv /\ [Next]_vars => Keeps /\ Telling'
<1> SUFFICES ASSUME DInv, [Next]_vars PROVE Keeps /\ Telling'
  OBVIOUS
<1>1. ASSUME NEW A \in (SUBSET Artifacts) \ {{}}, Select(A) PROVE Keeps /\ Telling'
  BY <1>1, SelectMaps
<1>2. ASSUME NEW o \in Operations, NEW R \in SUBSET Names, NEW D \in SUBSET Names, Call(o, R, D)
      PROVE  Keeps /\ Telling'
  BY <1>2, CallMaps
<1>3. ASSUME NEW o \in Operations,
             Cancel(o) \/ LoadSucceeds(o) \/ Refused(o) \/ Planned(o) \/ Admitted(o)
      PROVE  Keeps /\ Telling'
  BY <1>3, CancelMaps, LoadingMaps, FailuresMap, PlanningMaps
<1>4. ASSUME NEW o \in Operations, Machine(o) PROVE Keeps /\ Telling'
  BY <1>4, BeginMaps, LoadingMaps, FailuresMap, NothingToDoMaps, ExecuteMaps, HandoffMaps,
     HostCommitsMaps, HostRefusesMaps, AppliedMaps, SettleMaps DEF Machine, Interrupt
<1>5. CASE Dispose
  BY <1>5, DisposeMaps
<1>6. CASE Release
  <2>1. CASE ReleaseSucceeds \/ ReleaseFails
    BY <2>1, ReleaseMaps
  <2>2. CASE DisposalReady \/ ReleaseBegins
    BY <2>2, UnseenMaps DEF DisposalReady, ReleaseBegins, records, host
  <2> QED BY <1>6, <2>1, <2>2 DEF Release
<1>7. CASE OutsideCommit
  BY <1>7, OutsideMaps
<1>8. CASE GroupRemoved \/ HostQuarantined \/ UNCHANGED vars
  BY <1>8, UnseenMaps DEF GroupRemoved, HostQuarantined, vars, records, host, control
<1> QED BY <1>1, <1>2, <1>3, <1>4, <1>5, <1>6, <1>7, <1>8 DEF Next

\* A platform keeps its promise: an activation takes effect whole and at most
\* once, between its call and its answer, as selected just then, and the answer
\* is the truth, but for the error of a Host that broke over it (platform.ts
\* 268-330, 383-468, engine.ts 485-490).
THEOREM PromiseOfDelivery == Spec => ImplementsDeliveries
<1>1. Init => Promised!Init /\ Telling /\ CInv
  BY DeliveriesInit, InitFits
<1>2. IInv /\ (CInv /\ Telling) /\ [Next]_vars => (CInv /\ Telling)'
  BY DeliveriesStep, StepsFit DEF DInv
<1>3. IInv /\ (CInv /\ Telling) /\ [Next]_vars => [Promised!Next]_(Promised!vars)
  BY DeliveriesStep DEF DInv, Keeps
<1>4. Spec => Promised!Init /\ [][Promised!Next]_(Promised!vars)
  BY <1>1, <1>2, <1>3, Invariance, PTL DEF Spec
<1> QED BY <1>4 DEF ImplementsDeliveries, Promised!Spec

-----------------------------------------------------------------------------
(* Loading, for any artifacts, waiters and numbers of loads.               *)

\* None is not a load, and loads are numbers.
LEMMA LoadFacts ==
           /\ None \notin Loads /\ Loads \subseteq Nat
           /\ \A n \in 0..MaxLoads : n < MaxLoads => n + 1 \in Loads
           /\ MaxLoads \in Nat
BY LoadAssumption DEF Loads

LEMMA LoadsBegin == ASSUME LoadingInit PROVE LoadInv
BY LoadFacts, LoadAssumption
   DEF LoadingInit, LoadInv, LoadTypes, States, Steps, Results, StartedInOrder,
       Known, Live, Answered,
       Attended, Silent, Waiting

\* A caller joins what is known.
LEMMA LoadJoined ==
    ASSUME LoadInv, NEW w \in Waiters, NEW a \in Artifacts, Join(w, a)
    PROVE  LoadInv'
<1>1. cache[a] \in Loads /\ state[cache[a]] \in {"running", "settled"}
  BY DEF Join, Joinable, LoadInv, LoadTypes, Known, States
<1>2. /\ result[cache[a]] \in Results
      /\ state[cache[a]] = "settled" => result[cache[a]] # "none"
  BY <1>1 DEF LoadInv, LoadTypes, Answered
<1>3. LoadTypes'
  BY <1>1, <1>2 DEF Join, LoadInv, LoadTypes
<1>4. StartedInOrder' /\ Known' /\ Answered' /\ Silent'
  BY <1>1 DEF Join, LoadInv, LoadTypes, StartedInOrder, Known, Answered, Silent
<1>5. Live'
  BY <1>1 DEF Join, LoadInv, LoadTypes, Live
<1>6. \A l \in Loads : w \notin waiters[l]
  BY LoadFacts DEF Join, LoadInv, Attended
<1>7. Attended'
  <2>1. CASE state[cache[a]] = "settled"
    <3>1. /\ told' = [told EXCEPT ![w] = result[cache[a]]]
          /\ on' = [on EXCEPT ![w] = cache[a]] /\ UNCHANGED <<waiters, state>>
      BY <2>1 DEF Join
    <3>2. told'[w] # "none" /\ on'[w] # None
      BY <1>1, <1>2, <2>1, <3>1, LoadFacts DEF LoadInv, LoadTypes
    <3>3. \A x \in Waiters \ {w} : on'[x] = on[x] /\ told'[x] = told[x]
      BY <3>1 DEF LoadInv, LoadTypes
    <3> QED BY <1>6, <3>1, <3>2, <3>3 DEF LoadInv, LoadTypes, Attended, Waiting
  <2>2. CASE state[cache[a]] = "running"
    <3>1. /\ waiters' = [waiters EXCEPT ![cache[a]] = @ \union {w}]
          /\ on' = [on EXCEPT ![w] = cache[a]] /\ UNCHANGED <<told, state>>
      BY <2>2 DEF Join
    <3>2. told[w] = "none"
      BY DEF Join, LoadInv, Attended
    <3> QED BY <1>1, <1>6, <2>2, <3>1, <3>2 DEF LoadInv, LoadTypes, Attended, Waiting
  <2> QED BY <1>1, <2>1, <2>2
<1> QED BY <1>3, <1>4, <1>5, <1>7 DEF LoadInv

\* A new load has a number of its own and takes the place of a cancelled one.
LEMMA LoadStarted ==
    ASSUME LoadInv, NEW w \in Waiters, NEW a \in Artifacts, Start(w, a)
    PROVE  LoadInv'
<1> DEFINE l == started + 1
<1>1. l \in Loads /\ l # None /\ l > started /\ l \in 0..MaxLoads
  BY LoadFacts, LoadAssumption DEF Start, LoadInv, LoadTypes, Loads
<1>2. state[l] = "none" /\ waiters[l] = {} /\ step[l] = "none"
  BY <1>1 DEF LoadInv, StartedInOrder
<1>3. \A x \in Artifacts : cache[x] # l
  BY <1>1, <1>2 DEF LoadInv, Known
<1>4. LoadTypes'
  BY <1>1 DEF Start, LoadInv, LoadTypes, States, Steps
<1>5. StartedInOrder'
  BY <1>1, LoadFacts DEF Start, LoadInv, LoadTypes, StartedInOrder
<1>6. Known' /\ Answered' /\ Silent'
  BY <1>1, <1>2, <1>3 DEF Start, LoadInv, LoadTypes, Known, Answered, Silent
<1>7. Live'
  <2> SUFFICES ASSUME NEW m \in Loads, state'[m] = "running"
               PROVE  /\ artifact'[m] \in Artifacts /\ cache'[artifact'[m]] = m
                      /\ waiters'[m] # {} /\ step'[m] # "over"
    BY DEF Live
  <2>1. CASE m = l
    BY <2>1, <1>1 DEF Start, LoadInv, LoadTypes
  <2>2. CASE m # l
    <3>1. state[m] = "running" /\ artifact'[m] = artifact[m]
      BY <2>2, <1>1 DEF Start, LoadInv, LoadTypes
    <3>2. artifact[m] # a
      BY <3>1, LoadFacts DEF Start, Joinable, LoadInv, Live
    <3> QED BY <2>2, <3>1, <3>2, <1>1 DEF Start, LoadInv, LoadTypes, Live
  <2> QED BY <2>1, <2>2
<1>8. Attended'
  <2>1. \A m \in Loads : w \notin waiters[m]
    BY LoadFacts DEF Start, LoadInv, Attended
  <2>2. told[w] = "none"
    BY DEF Start, LoadInv, Attended
  <2> QED BY <1>1, <1>2, <2>1, <2>2 DEF Start, LoadInv, LoadTypes, Attended, Waiting
<1> QED BY <1>4, <1>5, <1>6, <1>7, <1>8 DEF LoadInv

\* Who leaves is told, and only the last one cancels.
LEMMA LoadAborted ==
    ASSUME LoadInv, NEW w \in Waiters, Abort(w)
    PROVE  LoadInv'
<1> DEFINE l == on[w]
<1>1. l \in Loads /\ state[l] = "running" /\ w \in waiters[l]
  BY DEF Abort, Waiting, LoadInv, LoadTypes, Attended
<1>2. LoadTypes'
  BY <1>1 DEF Abort, LoadInv, LoadTypes, States
<1>3. StartedInOrder' /\ Known' /\ Answered' /\ Silent'
  BY <1>1 DEF Abort, LoadInv, LoadTypes, StartedInOrder, Known, Answered, Silent
<1>4. Live'
  BY <1>1 DEF Abort, Abandoned, LoadInv, LoadTypes, Live
<1>5. Attended'
  BY <1>1 DEF Abort, Abandoned, LoadInv, LoadTypes, Attended, Waiting
<1> QED BY <1>2, <1>3, <1>4, <1>5 DEF LoadInv

\* When nobody waits nothing runs, so the modules may close.
LEMMA LoadsClosed == ASSUME LoadInv, Close PROVE LoadInv'
<1>1. \A l \in Loads : state[l] # "running"
  BY LoadFacts DEF Close, LoadInv, LoadTypes, Live, Attended, Waiting
<1> QED BY <1>1 DEF Close, LoadInv, LoadTypes, StartedInOrder, Known, Live, Answered,
                    Attended, Silent, Waiting

\* What #load does before it has ended touches only its own step and result.
LEMMA LoadProgress ==
    ASSUME LoadInv, NEW l \in Loads,
           Authorize(l) \/ Authorized(l) \/ Loaded(l) \/ Fails(l)
    PROVE  LoadInv'
<1>1. /\ state[l] \notin {"none", "settled"}
      /\ step'[l] \in {"authorizing", "loading", "ended"}
      /\ step'[l] = "ended" => result'[l] \in {"module", "error"}
      /\ \E s \in Steps : step' = [step EXCEPT ![l] = s]
      /\ \E r \in Results : result' = [result EXCEPT ![l] = r]
      /\ UNCHANGED <<open, placed, started, cache, artifact, state, waiters, on, told>>
  <2>1. CASE Authorize(l)
    BY <2>1 DEF Authorize, End, LoadInv, LoadTypes, StartedInOrder, Answered, Steps,
                Results
  <2>2. CASE Authorized(l)
    BY <2>2 DEF Authorized, End, LoadInv, LoadTypes, StartedInOrder, Answered, Steps,
                Results
  <2>3. CASE Loaded(l)
    BY <2>3 DEF Loaded, End, LoadInv, LoadTypes, StartedInOrder, Answered, Steps, Results
  <2>4. CASE Fails(l)
    BY <2>4 DEF Fails, End, LoadInv, LoadTypes, StartedInOrder, Answered, Steps, Results
  <2> QED BY <2>1, <2>2, <2>3, <2>4
<1>2. LoadTypes' /\ Known' /\ Attended' /\ Silent'
  BY <1>1 DEF LoadInv, LoadTypes, Known, Attended, Silent, Waiting
<1>3. StartedInOrder' /\ Live' /\ Answered'
  BY <1>1 DEF LoadInv, LoadTypes, StartedInOrder, Live, Answered
<1> QED BY <1>2, <1>3 DEF LoadInv

\* The reactions tell the waiters and leave the entries of other loads alone.
LEMMA LoadSettled ==
    ASSUME LoadInv, NEW l \in Loads, SettleLoad(l)
    PROVE  LoadInv'
<1>1. result[l] \in {"module", "error"} /\ state[l] # "none"
  BY DEF SettleLoad, LoadInv, LoadTypes, StartedInOrder, Answered, Results
<1>2. LoadTypes'
  BY DEF SettleLoad, Uncached, LoadInv, LoadTypes, States, Steps, Results
<1>3. StartedInOrder' /\ Silent' /\ Answered'
  BY <1>1 DEF SettleLoad, LoadInv, LoadTypes, StartedInOrder, Silent, Answered
<1>4. Known'
  BY <1>1 DEF SettleLoad, Uncached, LoadInv, LoadTypes, Known
<1>5. Live'
  BY LoadFacts DEF SettleLoad, Uncached, LoadInv, LoadTypes, Live
<1>6. Attended'
  BY <1>1, LoadFacts DEF SettleLoad, LoadInv, LoadTypes, Attended, Waiting
<1> QED BY <1>2, <1>3, <1>4, <1>5, <1>6 DEF LoadInv

\* Every step keeps the invariant.
LEMMA LoadsKeep == ASSUME LoadInv, [LoadingNext]_loadVars PROVE LoadInv'
<1>1. CASE UNCHANGED loadVars
  BY <1>1 DEF loadVars, LoadInv, LoadTypes, StartedInOrder, Known, Live, Answered, Attended,
              Silent, Waiting
<1>2. CASE \E w \in Waiters : Abort(w)
  BY <1>2, LoadAborted
<1>3. CASE \E w \in Waiters : \E a \in Artifacts : Join(w, a) \/ Start(w, a)
  BY <1>3, LoadJoined, LoadStarted
<1>4. CASE Close
  BY <1>4, LoadsClosed
<1>5. CASE Displaced
  BY <1>5 DEF Displaced, LoadInv, LoadTypes, StartedInOrder, Known, Live, Answered,
              Attended, Silent, Waiting
<1>6. CASE \E l \in Loads : Authorize(l) \/ Authorized(l) \/ Loaded(l) \/ Fails(l)
  BY <1>6, LoadProgress
<1>7. CASE \E l \in Loads : SettleLoad(l)
  BY <1>7, LoadSettled
<1> QED BY <1>1, <1>2, <1>3, <1>4, <1>5, <1>6, <1>7 DEF LoadingNext

\* LoadInv holds in every reachable state, whatever callers, authorisers and
\* loaders do (preparation.ts, loading.ts).
THEOREM LoadInvariance == LoadingSpec => []LoadInv
<1>1. LoadingInit => LoadInv
  BY LoadsBegin
<1>2. LoadInv /\ [LoadingNext]_loadVars => LoadInv'
  BY LoadsKeep
<1> QED BY <1>1, <1>2, PTL DEF LoadingSpec

-----------------------------------------------------------------------------
\* Whoever waits, waits for the one live load of the artifact, although others
\* leave it and cancelled loads end late (preparation.ts 58-78, loading.ts
\* 40-50).
THEOREM Sharing == LoadingSpec => []WaitersShareLiveWork
<1>1. LoadInv => WaitersShareLiveWork
  BY DEF LoadInv, LoadTypes, Live, Attended, WaitersShareLiveWork, Waiting
<1> QED BY <1>1, LoadInvariance, PTL

\* The loader is called only while somebody waits, the modules are open and the
\* destination is there; behind close() nothing runs (loading.ts 58-78).
THEOREM Wanted == LoadingSpec => NoUnwantedCall
<1> DEFINE Asked == \A l \in Loads : step[l] # "loading" /\ step'[l] = "loading" =>
                        waiters[l] # {} /\ open /\ placed
           Behind == ~open' => \A l \in Loads : state'[l] # "running"
<1>1. ASSUME LoadInv, [LoadingNext]_loadVars, NEW l \in Loads, step[l] # "loading", step'[l] = "loading"
      PROVE  Authorized(l)
  BY <1>1 DEF LoadingNext, loadVars, LoadInv, LoadTypes, Abort, Join, Start, Close,
              Displaced, Authorize,
              Authorized, Loaded, Fails, SettleLoad, End
<1>2. LoadInv /\ [LoadingNext]_loadVars => Asked
  <2> SUFFICES ASSUME LoadInv, [LoadingNext]_loadVars, NEW l \in Loads,
                      step[l] # "loading", step'[l] = "loading"
               PROVE  waiters[l] # {} /\ open /\ placed
    OBVIOUS
  <2>1. Authorized(l)
    BY <1>1
  <2>2. step[l] = "authorizing" /\ MayAsk(l)
    BY <2>1 DEF Authorized, End, LoadInv, LoadTypes
  <2>3. state[l] = "running"
    BY <2>2 DEF MayAsk, LoadInv, LoadTypes, StartedInOrder, Answered, States
  <2> QED BY <2>2, <2>3 DEF MayAsk, LoadInv, Live
<1>3. LoadInv' => Behind
  BY DEF LoadInv, Silent
<1>4. LoadInv /\ LoadInv' /\ [LoadingNext]_loadVars => [Asked /\ Behind]_loadVars
  BY <1>2, <1>3
<1> QED BY <1>4, LoadInvariance, PTL DEF LoadingSpec, NoUnwantedCall
=============================================================================
