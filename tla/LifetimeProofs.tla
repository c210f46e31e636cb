--------------------------- MODULE LifetimeProofs ---------------------------
(***************************************************************************)
(* Proofs about Lifetime for every ownership tree and every set of records: *)
(* every action preserves the invariant, and what follows from it.          *)
(***************************************************************************)
EXTENDS LifetimeOwnership, LifetimeInvariant, TLAPS

-----------------------------------------------------------------------------
(* What happens to records.                                                 *)

\* A step that only touches records keeps everything said of scopes.
LEMMA RecordFrame ==
  ASSUME IInv, UNCHANGED <<treeVars, calls, shutVars, reported>>
  PROVE  Lifecycle' /\ Descent' /\ Borrows' /\ Cancellation' /\ Offspring'
<1> USE DEF IInv, treeVars, shutVars
<1>1. Lifecycle'
  BY DEF Lifecycle, Settled, TimedOut
<1>2. Descent'
  BY DEF Descent, Attached
<1>3. Borrows'
  BY DEF Borrows
<1>4. Cancellation'
  BY DEF Cancellation, Cancelled, Covered, Attached
<1>5. Offspring'
  BY DEF Offspring, Attached
<1> QED BY <1>1, <1>2, <1>3, <1>4, <1>5

\* A record that an active scope takes on starts with nothing behind it:
\* what every admission (own, interrupt, spawn, acquire, stage) preserves.
LEMMA Registration ==
  ASSUME IInv, TypeOK',
         NEW s \in Scopes, NEW r \in Records, NEW k \in Kinds \ {"none"},
         NEW d \in DutiesOf(k) \ {"settled", "failed"}, AcceptsWork(s), Register(s, r, k, d),
         \/ k = "acquisition" /\ joining' = joining \union {r}
         \/ k # "acquisition" /\ joining' = joining,
         \/ Number(s, r)
         \/ k \in {"task", "acquisition"} /\ UNCHANGED <<id, sequence>>,
         \/ UNCHANGED visible
         \/ k = "publication" /\ d = "staged" /\ published /\ visible' = visible \union {r},
         UNCHANGED <<treeVars, calls, shutVars, reported>>
  PROVE  IInv'
<1> USE DEF IInv, TypeOK, treeVars, shutVars
<1>1. work[s] = "none" /\ completion[s] = "none" /\ phase[s] = "active"
  BY DEF Lifecycle, AcceptsWork
<1>2. kind[r] = "none" /\ r \notin joining
  BY DEF Kinds, Shape, DutiesOf, Register, Held
<1>3. /\ owner' = [owner EXCEPT ![r] = s]
      /\ kind' = [kind EXCEPT ![r] = k]
      /\ duty' = [duty EXCEPT ![r] = d]
  BY DEF Register
<1>4. \A t \in Scopes \ {s}, j \in Kinds \ {"none"} :
        Mine(t, j)' = Mine(t, j) /\ r \notin Mine(t, j)
  BY <1>2, <1>3 DEF Mine
<1>5. Shape'
  <2>1. \A q \in Records \ {r} : /\ duty'[q] = duty[q] /\ kind'[q] = kind[q]
                                 /\ owner'[q] = owner[q] /\ (q \in joining' <=> q \in joining)
    BY <1>3
  <2>2. /\ duty'[r] = d /\ kind'[r] = k /\ owner'[r] = s
        /\ k = "acquisition" => d = "working" /\ r \in joining'
        /\ k # "acquisition" => r \notin joining'
    BY <1>2, <1>3 DEF DutiesOf
  <2>3. d # "free"
    BY DEF DutiesOf, Held, Kinds
  <2> HIDE DEF TypeOK
  <2> SUFFICES ASSUME NEW q \in Records
      PROVE  /\ duty'[q] \in DutiesOf(kind'[q])
             /\ duty'[q] # "free" => phase'[owner'[q]] # "absent"
             /\ q \in joining' => \/ kind'[q] = "acquisition" /\ duty'[q] = "working"
                                  \/ kind'[q] = "cleanup" /\ duty'[q] = "releasing"
             /\ kind'[q] = "acquisition" /\ duty'[q] = "working" => q \in joining'
    BY DEF Shape, DutiesOf
  <2>4. CASE q = r
    BY <1>1, <2>2, <2>4
  <2>5. CASE q # r
    BY <2>1, <2>5 DEF Shape
  <2> QED BY <2>4, <2>5
<1>6. Numbering'
  <2>1. \A q \in Numbered : /\ q # r /\ id'[q] = id[q]
                            /\ owner'[q] = owner[q] /\ kind'[q] = kind[q]
    BY <1>2, <1>3 DEF Numbered, Number
  <2>2. CASE Number(s, r)
    <3>1. /\ id'[r] = sequence[s] + 1 /\ sequence'[s] = sequence[s] + 1
          /\ \A t \in Scopes \ {s} : sequence'[t] = sequence[t]
      BY <2>2 DEF Number
    <3>2. \A q \in Numbered : /\ id[q] <= sequence'[owner[q]]
                              /\ owner[q] = s => id[q] < id'[r]
      <4> SUFFICES ASSUME NEW q \in Numbered
                   PROVE  /\ id[q] <= sequence'[owner[q]]
                          /\ owner[q] = s => id[q] < id'[r]
        OBVIOUS
      <4>1. q \in Records /\ id[q] <= sequence[owner[q]]
        BY DEF Numbering, Numbered
      <4>2. id[q] \in Nat /\ owner[q] \in Scopes /\ sequence[owner[q]] \in Nat
        BY <4>1
      <4> HIDE DEF IInv, TypeOK
      <4>3. sequence[owner[q]] <= sequence'[owner[q]]
        BY <3>1, <4>2
      <4> QED BY <3>1, <4>1, <4>2, <4>3
    <3>3. Numbered' \subseteq Numbered \union {r} /\ owner'[r] = s
      BY <1>3 DEF Numbered
    <3>4. id'[r] <= sequence'[owner'[r]]
      BY <3>1, <3>3
    <3>5. \A q \in Numbered' : q = r \/ q \in Numbered
      BY <3>3
    <3> HIDE DEF IInv, TypeOK
    <3>6. \A q \in Numbered' : id'[q] <= sequence'[owner'[q]]
      BY <2>1, <3>2, <3>4, <3>5
    <3>7. \A p, q \in Numbered' : p # q /\ owner'[p] = owner'[q] => id'[p] # id'[q]
      <4> SUFFICES ASSUME NEW p \in Numbered', NEW q \in Numbered',
                          p # q, owner'[p] = owner'[q]
                   PROVE  id'[p] # id'[q]
        OBVIOUS
      <4>1. CASE p # r /\ q # r
        BY <2>1, <3>5, <4>1 DEF IInv, Numbering
      <4>2. \A n \in Numbered : id[n] \in Nat /\ id'[r] \in Nat
        BY DEF IInv, TypeOK, Numbered
      <4>3. CASE p = r /\ q # r
        BY <2>1, <3>2, <3>3, <3>5, <4>2, <4>3
      <4>4. CASE p # r /\ q = r
        BY <2>1, <3>2, <3>3, <3>5, <4>2, <4>4
      <4> QED BY <4>1, <4>3, <4>4
    <3> QED BY <3>6, <3>7 DEF Numbering
  <2>3. CASE k \in {"task", "acquisition"} /\ UNCHANGED <<id, sequence>>
    <3>1. Numbered' = Numbered
      BY <1>2, <1>3, <2>3 DEF Numbered
    <3> QED BY <2>1, <2>3, <3>1 DEF Numbering
  <2> QED BY <2>2, <2>3
<1>7. Reports'
  BY <1>3 DEF Reports, TimedOut, Settled
<1>8. Withdrawal'
  BY <1>1, <1>3 DEF Withdrawal, Mine
<1>9. Joins'
  <2> SUFFICES ASSUME NEW t \in Scopes
               PROVE  (InterruptsJoined(t) /\ TasksJoined(t) /\ AcquisitionsJoined(t))'
    BY DEF Joins
  <2>1. CASE t = s
    BY <1>1, <1>2, <1>3, <2>1
    DEF InterruptsJoined, TasksJoined, AcquisitionsJoined, Joins,
        PastAcquisitions, PastTasks, PastInterrupts
  <2>2. CASE t # s
    BY <1>2, <1>3, <1>4, <2>2
    DEF Kinds, InterruptsJoined, TasksJoined, AcquisitionsJoined, Joins
  <2> QED BY <2>1, <2>2
<1>10. Releases'
  <2>1. \A t \in Scopes \ {s} : \A q \in Mine(t, "cleanup") :
          duty'[q] = duty[q] /\ id'[q] = id[q]
    <3> SUFFICES ASSUME NEW t \in Scopes \ {s}, NEW q \in Mine(t, "cleanup")
                 PROVE  duty'[q] = duty[q] /\ id'[q] = id[q]
      OBVIOUS
    <3>1. q \in Records /\ q # r
      BY <1>4 DEF Kinds, Mine
    <3> QED BY <1>3, <3>1 DEF Number
  <2>2. ASSUME NEW t \in Scopes, work[t] = "cleanups" PROVE Released(t)'
    <3>1. t # s /\ Mine(t, "cleanup")' = Mine(t, "cleanup")
      BY <1>1, <1>4, <2>2 DEF Kinds
    <3>2. Released(t)
      BY <2>2 DEF Releases
    <3> QED BY <2>1, <3>1, <3>2 DEF Released
  <2>3. \A t \in Scopes : work[t] = "fulfilled" => Emptied(t)'
    BY <1>1, <1>3 DEF Releases, Emptied
  <2> QED BY <2>2, <2>3 DEF Releases
<1>11. Visibility'
  <2>1. ASSUME NEW q \in visible
        PROVE  /\ q # r /\ q \in Records /\ published /\ kind[q] = "publication"
               /\ duty[q] = "staged" /\ completion[owner[q]] = "none"
    BY <1>2, <2>1 DEF Visibility
  <2>2. ASSUME NEW q \in visible'
        PROVE  /\ published' /\ kind'[q] = "publication" /\ duty'[q] = "staged"
               /\ completion'[owner'[q]] = "none"
    <3>1. CASE q \in visible
      BY <1>3, <2>1, <3>1
    <3>2. CASE q \notin visible
      <4>1. q = r /\ k = "publication" /\ d = "staged" /\ published
        BY <2>2, <3>2
      <4> QED BY <1>1, <1>3, <4>1
    <3> QED BY <3>1, <3>2
  <2> QED BY <2>2 DEF Visibility
<1> HIDE DEF TypeOK
<1> QED BY <1>5, <1>6, <1>7, <1>8, <1>9, <1>10, <1>11, RecordFrame

\* use, own and defer preserve the invariant.
LEMMA OwnStep ==
  ASSUME IInv, TypeOK', NEW s \in Scopes, NEW r \in Records, Own(s, r) PROVE IInv'
  BY Registration DEF Own, Kinds, DutiesOf, Held

\* A registered interrupt preserves the invariant.
LEMMA InterruptStep ==
  ASSUME IInv, TypeOK', NEW s \in Scopes, NEW r \in Records, Interrupt(s, r) PROVE IInv'
  BY Registration DEF Interrupt, Kinds, DutiesOf, Held

\* A spawned task preserves the invariant.
LEMMA SpawnStep ==
  ASSUME IInv, TypeOK', NEW s \in Scopes, NEW r \in Records, Spawn(s, r) PROVE IInv'
  BY Registration DEF Spawn, Kinds, DutiesOf, Held

\* A begun acquisition preserves the invariant.
LEMMA AcquireStep ==
  ASSUME IInv, TypeOK', NEW s \in Scopes, NEW r \in Records, Acquire(s, r) PROVE IInv'
  BY Registration DEF Acquire, Kinds, DutiesOf, Held

\* A staged publication preserves the invariant.
LEMMA StageStep ==
  ASSUME IInv, TypeOK', NEW s \in Scopes, NEW r \in Records, Stage(s, r) PROVE IInv'
  BY Registration DEF Stage, Kinds, DutiesOf, Held

\* A record whose duty goes on or ends well disturbs no join: what early
\* releases, forgotten records and settled callbacks have in common.
LEMMA Progress ==
  ASSUME IInv, TypeOK', NEW r \in Records, NEW d \in {"releasing", "settled"},
         duty' = [duty EXCEPT ![r] = d],
         duty[r] \notin {"free", "settled", "failed"},
         d = "releasing" => duty[r] \in Held /\ kind[r] = "cleanup",
         joining' = joining \/ joining' = joining \ {r},
         d = "settled" => r \notin joining',
         visible' = visible \/ visible' = visible \ {r},
         duty[r] = "staged" => r \notin visible',
         UNCHANGED <<owner, kind, id, sequence>>,
         UNCHANGED <<treeVars, calls, shutVars, reported>>
  PROVE  IInv'
<1> USE DEF IInv, TypeOK, treeVars, shutVars
<1>1. Shape'
  BY DEF Shape, DutiesOf, Held
<1>2. Numbering'
  BY DEF Numbering, Numbered
<1>3. Reports'
  BY DEF Reports, TimedOut, Settled
<1>4. Withdrawal'
  BY DEF Withdrawal, Mine, Shape, DutiesOf
<1>5. Joins'
  <2> SUFFICES ASSUME NEW t \in Scopes
               PROVE  (InterruptsJoined(t) /\ TasksJoined(t) /\ AcquisitionsJoined(t))'
    BY DEF Joins
  <2>1. InterruptsJoined(t)'
    BY DEF Joins, InterruptsJoined, Mine
  <2>2. TasksJoined(t)'
    BY DEF Joins, TasksJoined, Mine
  <2>3. AcquisitionsJoined(t)'
    BY DEF Joins, AcquisitionsJoined
  <2> QED BY <2>1, <2>2, <2>3
<1>6. Releases'
  <2>1. ASSUME NEW t \in Scopes, work[t] = "cleanups" PROVE Released(t)'
    BY <2>1 DEF Releases, Released, Mine, Held
  <2>2. \A t \in Scopes : work[t] = "fulfilled" => Emptied(t)'
    BY DEF Releases, Emptied
  <2> QED BY <2>1, <2>2 DEF Releases
<1>7. Visibility'
  BY DEF Visibility, Held
<1> HIDE DEF TypeOK
<1> QED BY <1>1, <1>2, <1>3, <1>4, <1>5, <1>6, <1>7, RecordFrame

\* An early release preserves the invariant.
LEMMA ReleaseEarlyStep ==
  ASSUME IInv, TypeOK', NEW r \in Records, ReleaseEarly(r) PROVE IInv'
<1>1. kind[r] = "cleanup"
  BY DEF IInv, TypeOK, Kinds, Shape, DutiesOf, ReleaseEarly, Held
<1> QED BY <1>1, Progress DEF ReleaseEarly, Held

\* A forgotten record preserves the invariant.
LEMMA ForgetStep ==
  ASSUME IInv, TypeOK', NEW r \in Records, Forget(r) PROVE IInv'
<1>1. r \notin joining
  BY DEF IInv, Shape, Forget
<1> QED BY <1>1, Progress DEF Forget

\* A publication that detaches preserves the invariant.
LEMMA DetachStep ==
  ASSUME IInv, TypeOK', NEW r \in Records, Detach(r) PROVE IInv'
<1>1. r \notin joining
  BY DEF IInv, Shape, Detach
<1> QED BY <1>1, Progress DEF Detach

\* A release that succeeds preserves the invariant.
LEMMA ReleaseDoneStep ==
  ASSUME IInv, TypeOK', NEW r \in Records, ReleaseDone(r) PROVE IInv'
  BY Progress DEF ReleaseDone, Leave

\* A task that settles preserves the invariant.
LEMMA TaskSettlesStep ==
  ASSUME IInv, TypeOK', NEW r \in Records, TaskSettles(r) PROVE IInv'
<1>1. r \notin joining
  BY DEF IInv, Shape, TaskSettles
<1> QED BY <1>1, Progress DEF TaskSettles

\* An acquisition that rejects preserves the invariant.
LEMMA AcquireRejectsStep ==
  ASSUME IInv, TypeOK', NEW r \in Records, AcquireRejects(r) PROVE IInv'
  BY Progress DEF AcquireRejects, Leave

\* The release loop starts a release and preserves the invariant.
LEMMA CleanupStartsStep ==
  ASSUME IInv, TypeOK', NEW s \in Scopes, CleanupStarts(s) PROVE IInv'
<1> PICK r \in Newest(awaiting[s]) : duty[r] \in Held /\ duty' = [duty EXCEPT ![r] = "releasing"]
  BY DEF CleanupStarts
<1>1. r \in Records /\ kind[r] = "cleanup"
  BY DEF IInv, Releases, Released, Mine, Newest, CleanupStarts, At
<1> QED BY <1>1, Progress DEF CleanupStarts, Held

\* A late acquisition is adopted before any await has passed it, so the
\* new cleanup is in nobody's snapshot yet.
LEMMA AcquireResolvesStep ==
  ASSUME IInv, TypeOK', NEW r \in Records, AcquireResolves(r) PROVE IInv'
<1> USE DEF IInv, TypeOK, treeVars, shutVars
<1> DEFINE s == owner[r]
<1>1. /\ kind[r] = "acquisition" /\ duty[r] = "working" /\ r \in joining
      /\ work[s] \notin PastAcquisitions
  BY DEF AcquireResolves, Shape, Joins, AcquisitionsJoined
<1>2. /\ kind' = [kind EXCEPT ![r] = "cleanup"]
      /\ duty'[r] \in {"releasing", "adopted"}
      /\ \A q \in Records \ {r} : duty'[q] = duty[q]
      /\ joining' \subseteq joining /\ joining \subseteq joining' \union {r}
      /\ r \in joining' => duty'[r] = "releasing"
  BY DEF AcquireResolves, Leave
<1>3. \A t \in Scopes, k \in Kinds \ {"acquisition", "cleanup"} :
         Mine(t, k)' = Mine(t, k) /\ r \notin Mine(t, k)
  BY <1>1, <1>2 DEF AcquireResolves, Mine
<1>4. UNCHANGED <<owner, visible, published, work, awaiting, errors, completion>>
  BY DEF AcquireResolves
<1>5. Shape'
  BY <1>1, <1>2 DEF AcquireResolves, Shape, DutiesOf, Held
<1>6. Numbering'
  BY <1>1, <1>2 DEF AcquireResolves, Number, Numbering, Numbered
<1>7. Reports'
  BY <1>2 DEF AcquireResolves, Reports, TimedOut, Settled
<1>8. Withdrawal'
  <2>1. \A t \in Scopes : \A q \in Mine(t, "publication") : duty'[q] = duty[q]
    BY <1>2, <1>3 DEF Kinds, Mine
  <2> QED BY <1>4, <1>3, <2>1 DEF Withdrawal, Kinds
<1>9. Joins'
  <2> SUFFICES ASSUME NEW t \in Scopes
               PROVE  (InterruptsJoined(t) /\ TasksJoined(t) /\ AcquisitionsJoined(t))'
    BY DEF Joins
  <2>1. InterruptsJoined(t)'
    <3>1. \A q \in Mine(t, "interrupt") : duty'[q] = duty[q]
      BY <1>2, <1>3 DEF Kinds, Mine
    <3> QED BY <1>3, <1>4, <3>1 DEF Joins, InterruptsJoined, Kinds
  <2>2. TasksJoined(t)'
    <3>1. \A q \in Mine(t, "task") : duty'[q] = duty[q]
      BY <1>2, <1>3 DEF Kinds, Mine
    <3> QED BY <1>3, <1>4, <3>1 DEF Joins, TasksJoined, Kinds
  <2>3. AcquisitionsJoined(t)'
    BY <1>2 DEF AcquireResolves, Joins, AcquisitionsJoined
  <2> QED BY <2>1, <2>2, <2>3
<1>10. Releases'
  <2>1. ASSUME NEW t \in Scopes, work[t] = "cleanups" PROVE Released(t)'
    <3>1. t # s
      BY <1>1, <2>1 DEF PastAcquisitions
    <3>2. Mine(t, "cleanup")' = Mine(t, "cleanup") /\ r \notin Mine(t, "cleanup")
      BY <1>2, <3>1 DEF AcquireResolves, Mine
    <3>3. \A q \in Mine(t, "cleanup") : id'[q] = id[q] /\ duty'[q] = duty[q]
      BY <1>2, <3>2 DEF AcquireResolves, Number, Mine
    <3>4. Released(t)
      BY <2>1 DEF Releases
    <3> QED BY <3>2, <3>3, <3>4 DEF AcquireResolves, Released
  <2>2. \A t \in Scopes : work[t] = "fulfilled" => Emptied(t)'
    BY <1>1, <1>2 DEF AcquireResolves, Releases, Emptied, PastAcquisitions
  <2> QED BY <2>1, <2>2 DEF AcquireResolves, Releases
<1>11. Visibility'
  BY <1>1, <1>2 DEF AcquireResolves, Visibility
<1> HIDE DEF TypeOK
<1> QED BY <1>5, <1>6, <1>7, <1>8, <1>9, <1>10, <1>11, RecordFrame DEF AcquireResolves

-----------------------------------------------------------------------------
(* Every await of #finishShutdown.                                          *)

\* A step from one await of #finishShutdown to the next keeps everything
\* but the books of that scope.
LEMMA StageFrame ==
  ASSUME IInv, UNCHANGED <<treeVars, recordVars, calls, completion, reported>>,
         \A t \in Scopes : work[t] = "queued" => work'[t] = "queued"
  PROVE  Descent' /\ Borrows' /\ Cancellation' /\ Shape' /\ Numbering' /\ Visibility'
<1> USE DEF IInv, treeVars, recordVars
<1>1. Descent'
  BY DEF Descent, Attached
<1>2. Borrows'
  BY DEF Borrows
<1>3. Shape'
  BY DEF Shape, DutiesOf
<1>4. Numbering'
  BY DEF Numbering, Numbered
<1>5. Visibility'
  BY DEF Visibility
<1>6. Cancellation'
  BY DEF Cancellation, Cancelled, Covered, Attached
<1> QED BY <1>1, <1>2, <1>3, <1>4, <1>5, <1>6

\* When the interrupts are joined each is over, and a failed one is collected.
LEMMA InterruptsEndStep ==
  ASSUME IInv, TypeOK', NEW s \in Scopes, InterruptsEnd(s) PROVE IInv'
<1> USE DEF IInv, TypeOK, InterruptsEnd, At, treeVars, recordVars
<1>1. Lifecycle'
  BY DEF Lifecycle, Settled, TimedOut
<1>2. \A t \in Scopes : work[t] = "queued" => work'[t] = "queued"
  OBVIOUS
<1>3. Reports'
  <2>1. errors'[s] => errors[s] \/ s \in reported
    BY DEF Reports, Failed, Joins, InterruptsJoined, Mine
  <2>2. \A t \in Scopes : errors'[t] \/ TimedOut(t)' =>
          errors[t] \/ TimedOut(t) \/ (t = s /\ s \in reported)
    BY <2>1 DEF TimedOut, Settled
  <2>3. \A t \in Scopes : t \in Subtree[t]
    BY TreeAssumption
  <2> QED BY <2>2, <2>3 DEF Reports
<1>4. Withdrawal'
  BY DEF Withdrawal, Mine
<1>5. Joins'
  <2> SUFFICES ASSUME NEW t \in Scopes
               PROVE  (InterruptsJoined(t) /\ TasksJoined(t) /\ AcquisitionsJoined(t))'
    BY DEF Joins
  <2>1. CASE t = s
    <3>1. InterruptsJoined(t)'
      <4>1. \A r \in Mine(s, "interrupt") :
              duty[r] \in {"settled", "failed"} /\ (duty[r] = "failed" => errors'[s])
        <5> TAKE r \in Mine(s, "interrupt")
        <5>1. duty[r] \in {"owned", "releasing", "settled", "failed"}
          BY DEF Mine, Shape, DutiesOf
        <5>2. duty[r] # "owned" /\ (duty[r] # "settled" => r \in awaiting[s])
          BY DEF Joins, InterruptsJoined
        <5> QED BY <5>1, <5>2 DEF Failed
      <4>2. work'[s] = "tasks" /\ Mine(s, "interrupt")' = Mine(s, "interrupt") /\ duty' = duty
        BY DEF Mine
      <4> QED BY <2>1, <4>1, <4>2 DEF InterruptsJoined
    <3>2. TasksJoined(t)'
      BY <2>1 DEF Joins, TasksJoined, Mine, PastTasks, PastAcquisitions, Tasks, Owed
    <3>3. AcquisitionsJoined(t)'
      BY <2>1 DEF Joins, AcquisitionsJoined, PastAcquisitions
    <3> QED BY <3>1, <3>2, <3>3
  <2>2. CASE t # s
    BY <2>2 DEF Joins, InterruptsJoined, TasksJoined, AcquisitionsJoined, Mine
  <2> QED BY <2>1, <2>2
<1>6. Offspring'
  BY DEF Offspring, Attached
<1>7. Releases'
  BY DEF Releases, Released, Emptied, Mine
<1> HIDE DEF TypeOK
<1> QED BY <1>1, <1>2, <1>3, <1>4, <1>5, <1>6, <1>7, StageFrame

\* When the tasks are joined each is over.
LEMMA TasksEndStep ==
  ASSUME IInv, TypeOK', NEW s \in Scopes, TasksEnd(s) PROVE IInv'
<1> USE DEF IInv, TypeOK, TasksEnd, At, treeVars, recordVars
<1>1. Lifecycle'
  BY DEF Lifecycle, Settled, TimedOut
<1>2. \A t \in Scopes : work[t] = "queued" => work'[t] = "queued"
  OBVIOUS
<1>3. Reports'
  BY DEF Reports, TimedOut, Settled
<1>4. Withdrawal'
  BY DEF Withdrawal, Mine
<1>5. Joins'
  <2> SUFFICES ASSUME NEW t \in Scopes
               PROVE  (InterruptsJoined(t) /\ TasksJoined(t) /\ AcquisitionsJoined(t))'
    BY DEF Joins
  <2>1. CASE t = s
    <3>1. InterruptsJoined(t)'
      BY <2>1 DEF Joins, InterruptsJoined, Mine, PastInterrupts, PastTasks
    <3>2. TasksJoined(t)'
      BY <2>1 DEF Joins, TasksJoined, Mine, Shape, DutiesOf
    <3>3. AcquisitionsJoined(t)'
      BY <2>1 DEF Joins, AcquisitionsJoined, PastAcquisitions, Acquisitions
    <3> QED BY <3>1, <3>2, <3>3
  <2>2. CASE t # s
    BY <2>2 DEF Joins, InterruptsJoined, TasksJoined, AcquisitionsJoined, Mine
  <2> QED BY <2>1, <2>2
<1>6. Offspring'
  BY DEF Offspring, Attached
<1>7. Releases'
  BY DEF Releases, Released, Emptied, Mine
<1> HIDE DEF TypeOK
<1> QED BY <1>1, <1>2, <1>3, <1>4, <1>5, <1>6, <1>7, StageFrame

\* When the acquisitions are joined none is left.
LEMMA AcquisitionsEndStep ==
  ASSUME IInv, TypeOK', NEW s \in Scopes, AcquisitionsEnd(s) PROVE IInv'
<1> USE DEF IInv, TypeOK, AcquisitionsEnd, At, treeVars, recordVars
<1>1. Lifecycle'
  BY DEF Lifecycle, Settled, TimedOut
<1>2. \A t \in Scopes : work[t] = "queued" => work'[t] = "queued"
  OBVIOUS
<1>3. Reports'
  BY DEF Reports, TimedOut, Settled
<1>4. Withdrawal'
  BY DEF Withdrawal, Mine
<1>5. Joins'
  <2> SUFFICES ASSUME NEW t \in Scopes
               PROVE  (InterruptsJoined(t) /\ TasksJoined(t) /\ AcquisitionsJoined(t))'
    BY DEF Joins
  <2>1. CASE t = s
    BY <2>1
    DEF Joins, InterruptsJoined, TasksJoined, AcquisitionsJoined, Mine,
        PastInterrupts, PastTasks, PastAcquisitions
  <2>2. CASE t # s
    BY <2>2 DEF Joins, InterruptsJoined, TasksJoined, AcquisitionsJoined, Mine
  <2> QED BY <2>1, <2>2
<1>6. Offspring'
  BY DEF Offspring, Attached
<1>7. Releases'
  BY DEF Releases, Released, Emptied, Mine
<1> HIDE DEF TypeOK
<1> QED BY <1>1, <1>2, <1>3, <1>4, <1>5, <1>6, <1>7, StageFrame

\* When the children are joined all are gone, or the scope retains its cleanups.
LEMMA ChildrenEndStep ==
  ASSUME IInv, TypeOK', NEW s \in Scopes, ChildrenEnd(s) PROVE IInv'
<1> USE DEF IInv, TypeOK, ChildrenEnd, At, treeVars, recordVars
<1>1. /\ work[s] = "children" /\ work'[s] \in {"cleanups", "retained"}
      /\ \A t \in Scopes \ {s} : work'[t] = work[t] /\ errors'[t] = errors[t] /\ awaiting'[t] = awaiting[t]
      /\ work'[s] = "retained" => errors'[s]
      /\ errors[s] => errors'[s]
      /\ work'[s] = "cleanups" => /\ awaiting'[s] = Cleanups(s)
                                  /\ \A c \in children[s] : work[c] = "fulfilled"
      /\ children' = children
  OBVIOUS
<1>2. UNCHANGED <<treeVars, recordVars, calls, completion, children, reported>>
  OBVIOUS
<1> HIDE DEF ChildrenEnd
<1>3. Lifecycle'
  BY <1>1, <1>2 DEF Lifecycle, Settled, TimedOut
<1>4. \A t \in Scopes : work[t] = "queued" => work'[t] = "queued"
  BY <1>1
<1>5. Reports'
  <2>1. errors'[s] => reported \intersect Subtree[s] # {}
    <3>1. CASE errors[s]
      BY <3>1 DEF Reports
    <3>2. CASE ~errors[s]
      BY <3>2, TreeAssumption DEF Reports, Lifecycle, Offspring, ChildrenEnd, Settled
    <3> QED BY <3>1, <3>2
  <2> QED BY <1>1, <1>2, <2>1 DEF Reports, TimedOut, Settled
<1>6. Withdrawal'
  BY <1>1, <1>2 DEF Withdrawal, Mine
<1>7. Joins'
  <2> SUFFICES ASSUME NEW t \in Scopes
               PROVE  (InterruptsJoined(t) /\ TasksJoined(t) /\ AcquisitionsJoined(t))'
    BY DEF Joins
  <2>1. CASE t = s
    BY <1>1, <1>2, <2>1
    DEF Joins, InterruptsJoined, TasksJoined, AcquisitionsJoined, Mine,
        PastInterrupts, PastTasks, PastAcquisitions
  <2>2. CASE t # s
    BY <1>1, <1>2, <2>2 DEF Joins, InterruptsJoined, TasksJoined, AcquisitionsJoined, Mine
  <2> QED BY <2>1, <2>2
<1>8. Offspring'
  <2>1. ASSUME NEW c \in Scopes \ {Root}, Parent[c] = s, work'[s] = "cleanups"
        PROVE  phase[c] \in {"absent", "disposed"}
    <3>1. CASE c \in children[s]
      BY <1>1, <2>1, <3>1 DEF Lifecycle
    <3>2. CASE c \notin children[s]
      BY <1>1, <2>1, <3>2 DEF Offspring, Attached
    <3> QED BY <3>1, <3>2
  <2>2. \A c \in Scopes \ {Root} : Parent[c] \in Scopes
    BY TreeAssumption
  <2> QED BY <1>1, <1>2, <2>1, <2>2 DEF Offspring, Attached
<1>9. Releases'
  <2>1. ASSUME NEW t \in Scopes, work'[t] = "cleanups" PROVE Released(t)'
    <3>1. CASE t = s
      <4>1. \A r \in Mine(s, "cleanup") : duty[r] # "free"
        BY DEF Mine, Shape, DutiesOf, Held
      <4>2. /\ Mine(s, "cleanup")' = Mine(s, "cleanup") /\ duty' = duty
            /\ awaiting'[s] = Cleanups(s)
        BY <1>1, <1>2, <2>1, <3>1 DEF Mine
      <4>3. /\ awaiting'[s] \subseteq Mine(s, "cleanup")
            /\ \A r \in Mine(s, "cleanup") \ awaiting'[s] : duty[r] = "settled"
        BY <4>1, <4>2 DEF Cleanups, Owed, Mine
      <4> QED BY <3>1, <4>2, <4>3 DEF Released
    <3>2. CASE t # s
      BY <1>1, <1>2, <2>1, <3>2 DEF Releases, Released, Mine
    <3> QED BY <3>1, <3>2
  <2>2. \A t \in Scopes : work'[t] = "fulfilled" => Emptied(t)'
    BY <1>1, <1>2 DEF Releases, Emptied
  <2> QED BY <2>1, <2>2 DEF Releases
<1> HIDE DEF TypeOK
<1> QED BY <1>2, <1>3, <1>4, <1>5, <1>6, <1>7, <1>8, <1>9, StageFrame

\* The release loop takes an outcome and preserves the invariant.
LEMMA CleanupEndsStep ==
  ASSUME IInv, TypeOK', NEW s \in Scopes, CleanupEnds(s) PROVE IInv'
<1> USE DEF IInv, TypeOK, treeVars, recordVars
<1> PICK r \in Newest(awaiting[s]) :
      /\ duty[r] \in {"settled", "failed"}
      /\ awaiting' = [awaiting EXCEPT ![s] = @ \ {r}]
      /\ errors' = [errors EXCEPT ![s] = @ \/ duty[r] = "failed"]
  BY DEF CleanupEnds
<1>1. /\ work[s] = "cleanups"
      /\ UNCHANGED <<treeVars, recordVars, calls, work, completion, children, reported>>
  BY DEF CleanupEnds, At
<1>2. r \in Mine(s, "cleanup") /\ r \in awaiting[s] /\ \A q \in awaiting[s] : id[q] <= id[r]
  BY <1>1 DEF Releases, Released, Newest
<1>3. Lifecycle'
  BY <1>1 DEF Lifecycle, Settled, TimedOut
<1>4. \A t \in Scopes : work[t] = "queued" => work'[t] = "queued"
  BY <1>1
<1>5. Reports'
  BY <1>1, <1>2, TreeAssumption DEF Reports, TimedOut, Settled, Mine
<1>6. Withdrawal'
  BY <1>1 DEF Withdrawal, Mine
<1>7. Joins'
  BY <1>1 DEF Joins, InterruptsJoined, TasksJoined, AcquisitionsJoined, Mine
<1>8. Offspring'
  BY <1>1 DEF Offspring, Attached
<1>9. Releases'
  <2>1. Released(s)'
    <3>1. awaiting'[s] = awaiting[s] \ {r} /\ awaiting'[s] \subseteq Mine(s, "cleanup")'
      BY <1>1, <1>2 DEF Releases, Released, Mine
    <3>2. ASSUME NEW q \in awaiting'[s] PROVE id'[q] < id'[r]
      BY <1>1, <1>2, <3>1, <3>2 DEF Numbering, Numbered, Mine, Releases, Released
    <3>3. Mine(s, "cleanup")' = Mine(s, "cleanup") /\ duty' = duty /\ id' = id
      BY <1>1 DEF Mine
    <3>4. errors'[s] = (errors[s] \/ duty[r] = "failed")
      OBVIOUS
    <3>5. Released(s)
      BY <1>1 DEF Releases
    <3> SUFFICES ASSUME NEW q \in Mine(s, "cleanup") \ awaiting'[s], duty[q] # "settled"
                 PROVE  /\ duty[q] = "failed" /\ errors'[s]
                        /\ \A p \in awaiting'[s] : id[p] < id[q]
      BY <3>1, <3>3 DEF Released
    <3>6. CASE q = r
      BY <3>2, <3>3, <3>4, <3>6
    <3>7. CASE q # r
      BY <3>1, <3>4, <3>5, <3>7 DEF Released
    <3> QED BY <3>6, <3>7
  <2>2. \A t \in Scopes \ {s} : work[t] = "cleanups" => Released(t)'
    BY <1>1 DEF Releases, Released, Mine
  <2>3. \A t \in Scopes : work[t] = "fulfilled" => Emptied(t)'
    BY <1>1 DEF Releases, Emptied
  <2> QED BY <1>1, <2>1, <2>2, <2>3 DEF Releases
<1> HIDE DEF TypeOK
<1> QED BY <1>1, <1>3, <1>4, <1>5, <1>6, <1>7, <1>8, <1>9, StageFrame

\* The first step of #finishShutdown captures every child and every interrupt.
LEMMA FinishBeginsStep ==
  ASSUME IInv, TypeOK', NEW s \in Scopes, FinishBegins(s) PROVE IInv'
<1> USE DEF IInv, TypeOK, treeVars
<1>1. /\ work[s] = "queued" /\ calls = <<>>
      /\ work' = [work EXCEPT ![s] = "interrupts"]
      /\ errors' = [errors EXCEPT ![s] = Failed(Publications(s))]
      /\ children' = [children EXCEPT ![s] = Children(s)]
      /\ awaiting' = [awaiting EXCEPT ![s] = Interrupts(s)]
  BY DEF FinishBegins, At, Idle
<1>2. \A r \in Records :
        duty'[r] = IF r \in Interrupts(s) /\ duty[r] \in Held THEN "releasing" ELSE duty[r]
  BY DEF FinishBegins
<1>3. /\ UNCHANGED <<treeVars, calls, completion, reported>>
      /\ UNCHANGED <<owner, kind, joining, id, sequence, visible>>
  BY DEF FinishBegins
<1>4. Lifecycle'
  BY <1>1, <1>3 DEF Lifecycle, Settled, TimedOut
<1>5. Descent'
  BY <1>3 DEF Descent, Attached
<1>6. Borrows'
  BY <1>3 DEF Borrows
<1>7. Cancellation'
  BY <1>1, <1>3 DEF Cancellation, Cancelled, Covered, Attached
<1>8. Shape'
  BY <1>2, <1>3 DEF Shape, DutiesOf, Interrupts, Owed, Held
<1>9. Numbering'
  BY <1>3 DEF Numbering, Numbered
<1>10. Reports'
  <2>1. errors'[s] => s \in reported
    BY <1>1 DEF Reports, Failed, Publications, Owed
  <2>2. \A r \in Records : duty'[r] = "failed" => duty[r] = "failed"
    BY <1>2
  <2>3. \A t \in Scopes : t \in Subtree[t]
    BY TreeAssumption
  <2>4. \A t \in Scopes : errors'[t] \/ TimedOut(t)' =>
          errors[t] \/ TimedOut(t) \/ (t = s /\ s \in reported)
    BY <1>1, <1>3, <2>1 DEF TimedOut, Settled
  <2> QED BY <1>3, <2>2, <2>3, <2>4 DEF Reports
<1>11. \A t \in Scopes : \A k \in Kinds \ {"interrupt"} :
         Mine(t, k)' = Mine(t, k) /\ \A r \in Mine(t, k) : duty'[r] = duty[r]
  BY <1>2, <1>3 DEF Mine, Interrupts, Owed
<1>12. Withdrawal'
  <2>1. \A r \in Mine(s, "publication") : duty[r] = "failed" => errors'[s]
    BY <1>1 DEF Mine, Publications, Owed, Failed
  <2> QED BY <1>1, <1>3, <1>11, <2>1 DEF Withdrawal, Kinds
<1>13. Joins'
  <2> SUFFICES ASSUME NEW t \in Scopes
               PROVE  (InterruptsJoined(t) /\ TasksJoined(t) /\ AcquisitionsJoined(t))'
    BY DEF Joins
  <2>1. CASE t = s
    <3>1. InterruptsJoined(s)'
      <4>1. \A r \in Mine(s, "interrupt") :
              duty[r] \in {"owned", "releasing", "settled", "failed"}
        BY DEF Mine, Shape, DutiesOf
      <4>2. Interrupts(s) = {r \in Mine(s, "interrupt") : duty[r] # "settled"}
        BY <4>1 DEF Interrupts, Owed, Mine
      <4>3. Mine(s, "interrupt")' = Mine(s, "interrupt")
        BY <1>3 DEF Mine
      <4>4. \A r \in Mine(s, "interrupt") :
              duty'[r] # "owned" /\ (duty'[r] # "settled" => r \in awaiting'[s])
        BY <1>1, <1>2, <4>1, <4>2 DEF Mine, Held
      <4>5. work'[s] = "interrupts" /\ awaiting'[s] \subseteq Mine(s, "interrupt")
        BY <1>1, <4>2
      <4> QED BY <4>3, <4>4, <4>5
          DEF InterruptsJoined, PastInterrupts, PastTasks, PastAcquisitions
    <3>2. TasksJoined(s)' /\ AcquisitionsJoined(s)'
      BY <1>1 DEF TasksJoined, AcquisitionsJoined, PastTasks, PastAcquisitions
    <3> QED BY <2>1, <3>1, <3>2
  <2>2. CASE t # s
    <3>1. Mine(t, "interrupt")' = Mine(t, "interrupt") /\ \A r \in Mine(t, "interrupt") : duty'[r] = duty[r]
      BY <1>2, <1>3, <2>2 DEF Mine, Interrupts, Owed
    <3> QED BY <1>1, <1>3, <1>11, <2>2, <3>1
        DEF Joins, InterruptsJoined, TasksJoined, AcquisitionsJoined, Kinds
  <2> QED BY <2>1, <2>2
<1>14. Offspring'
  <2>1. \A c \in Scopes \ {Root} : Parent[c] \in Scopes
    BY TreeAssumption
  <2>2. \A t \in Scopes : \A c \in children'[t] : c # Root /\ Parent[c] = t
    BY <1>1 DEF Offspring, Children
  <2>3. \A c \in Scopes \ {Root} : Parent[c] = s /\ Attached(c)' => c \in children'[s]
    BY <1>1, <1>3 DEF Attached, Children
  <2> QED BY <1>1, <1>3, <2>1, <2>2, <2>3 DEF Offspring, Attached
<1>15. Releases'
  <2>1. ASSUME NEW t \in Scopes, work'[t] = "cleanups" PROVE Released(t)'
    BY <1>1, <1>3, <1>11, <2>1 DEF Releases, Released, Kinds
  <2>2. \A t \in Scopes : work'[t] = "fulfilled" => Emptied(t)'
    BY <1>1, <1>2, <1>3 DEF Releases, Emptied, Interrupts, Owed
  <2> QED BY <2>1, <2>2 DEF Releases
<1>16. Visibility'
  BY <1>2, <1>3 DEF Visibility, Interrupts, Owed
<1> HIDE DEF TypeOK
<1> QED BY <1>4, <1>5, <1>6, <1>7, <1>8, <1>9, <1>10, <1>12, <1>13, <1>14, <1>15, <1>16

\* The last step of #finishShutdown: a scope is disposed only when it is empty.
LEMMA FinishEndsStep ==
  ASSUME IInv, TypeOK', NEW s \in Scopes, Finish(s) PROVE IInv'
<1> USE DEF IInv, TypeOK
<1>1. /\ work[s] \in {"cleanups", "retained"}
      /\ work[s] = "cleanups" => awaiting[s] = {}
      /\ work' = [work EXCEPT ![s] = IF errors[s] THEN "rejected" ELSE "fulfilled"]
      /\ phase' = [phase EXCEPT ![s] = IF errors[s] THEN "quarantined" ELSE "disposed"]
      /\ completion' = [completion EXCEPT ![s] = Answer(s)]
  BY DEF Finish, At
<1>2. /\ UNCHANGED <<aborted, startup, published, foreground>>
      /\ UNCHANGED <<recordVars, calls, errors, children, awaiting, reported>>
  BY DEF Finish
<1>3. /\ completion[s] \in {"pending", "rejected"} /\ phase[s] \in {"disposing", "quarantined"}
      /\ completion'[s] \in {"resolved", "rejected"}
      /\ completion'[s] = "resolved" => ~errors[s]
  BY <1>1 DEF Lifecycle, Answer, Settled, TimedOut, Phases, Completions
<1>4. Lifecycle'
  BY <1>1, <1>2, <1>3 DEF Lifecycle, Settled, TimedOut
<1>5. ~errors[s] => \A t \in Subtree[s] \ {s} : phase[t] \in {"absent", "disposed"}
  <2> SUFFICES ASSUME ~errors[s], NEW t \in Subtree[s] \ {s}
               PROVE  phase[t] \in {"absent", "disposed"}
    OBVIOUS
  <2>1. PICK c \in Scopes \ {Root} : Parent[c] = s /\ t \in Subtree[c]
    BY TreeAssumption
  <2>2. phase[c] \in {"absent", "disposed"}
    BY <1>1, <2>1 DEF Lifecycle, Offspring
  <2> QED BY <2>1, <2>2 DEF Descent
<1>17. \A t \in Scopes :
         /\ Attached(t)' => Attached(t)
         /\ t # s => phase'[t] = phase[t] /\ completion'[t] = completion[t] /\ work'[t] = work[t]
         /\ completion'[t] = "none" <=> completion[t] = "none"
         /\ work'[t] # "queued" => work[t] # "queued" \/ t = s
  BY <1>1, <1>3 DEF Attached
<1>6. Descent'
  <2> SUFFICES ASSUME NEW u \in Scopes, NEW t \in Subtree[u]
               PROVE  /\ phase'[u] = "absent" => phase'[t] = "absent"
                      /\ phase'[t] = "active" => phase'[u] = "active"
                      /\ phase'[u] = "disposed" => phase'[t] \in {"absent", "disposed"}
                      /\ completion'[u] # "none" /\ Attached(t)' => completion'[t] # "none"
    BY DEF Descent
  <2>1. t \in Scopes
    BY TreeAssumption
  <2>2. /\ phase[u] = "absent" => phase[t] = "absent"
        /\ phase[t] = "active" => phase[u] = "active"
        /\ phase[u] = "disposed" => phase[t] \in {"absent", "disposed"}
        /\ completion[u] # "none" /\ Attached(t) => completion[t] # "none"
    BY DEF Descent
  <2>3. phase'[s] \in {"quarantined", "disposed"} /\ (phase'[s] = "disposed" => ~errors[s])
    BY <1>1
  <2> HIDE DEF IInv, TypeOK
  <2> QED BY <1>3, <1>5, <1>17, <2>1, <2>2, <2>3
<1>7. Borrows'
  BY <1>1, <1>2, <1>3 DEF Borrows
<1>8. Cancellation'
  <2>1. \A t \in Scopes : (Cancelled(t) => Cancelled(t)') /\ (Covered(t) => Covered(t)')
    BY <1>2, <1>17, TreeAssumption DEF Cancelled, Covered
  <2> QED BY <1>1, <1>17, <2>1 DEF Cancellation
<1>9. Shape'
  BY <1>1, <1>2 DEF Shape, DutiesOf, recordVars
<1>10. Numbering'
  BY <1>2 DEF Numbering, Numbered, recordVars
<1>11. Reports'
  <2>1. \A t \in Scopes : errors'[t] \/ TimedOut(t)' => errors[t] \/ TimedOut(t)
    BY <1>1, <1>2 DEF TimedOut, Settled
  <2>2. phase'[Root] = "active" => phase[Root] = "active"
    BY <1>1, TreeAssumption
  <2> QED BY <1>2, <2>1, <2>2 DEF Reports, recordVars
<1>12. Withdrawal'
  BY <1>1, <1>2, <1>3, <1>4 DEF Withdrawal, Mine, Lifecycle, recordVars
<1>13. Joins'
  BY <1>1, <1>2
  DEF Joins, InterruptsJoined, TasksJoined, AcquisitionsJoined, Mine, recordVars,
      PastInterrupts, PastTasks, PastAcquisitions
<1>14. Offspring'
  <2>1. \A c \in Scopes \ {Root} : Parent[c] \in Scopes
    BY TreeAssumption
  <2> SUFFICES ASSUME NEW c \in Scopes \ {Root}
               PROVE  /\ work'[Parent[c]] \notin {"none", "queued"} /\ Attached(c)' =>
                           c \in children[Parent[c]]
                      /\ work'[Parent[c]] \in {"cleanups", "fulfilled"} =>
                           phase'[c] \in {"absent", "disposed"}
    BY <1>2 DEF Offspring
  <2>2. work'[Parent[c]] \notin {"none", "queued"} /\ Attached(c)' => c \in children[Parent[c]]
    BY <1>1, <1>17, <2>1 DEF Offspring
  <2>3. ASSUME work'[Parent[c]] \in {"cleanups", "fulfilled"}
        PROVE  phase'[c] \in {"absent", "disposed"}
    <3>1. work[Parent[c]] \in {"cleanups", "fulfilled"}
      BY <1>1, <1>17, <2>1, <2>3 DEF Lifecycle
    <3>2. phase[c] \in {"absent", "disposed"}
      BY <3>1 DEF Offspring
    <3> QED BY <1>3, <1>17, <3>2
  <2> QED BY <2>2, <2>3
<1>15. Releases'
  <2>1. ~errors[s] => Emptied(s)
    <3> SUFFICES ASSUME ~errors[s], NEW r \in Records, owner[r] = s
                 PROVE  duty[r] \in {"free", "settled"}
      BY DEF Emptied
    <3>1. work[s] = "cleanups" /\ awaiting[s] = {} /\ Released(s)
      BY <1>1 DEF Lifecycle, Releases
    <3>2. kind[r] = "cleanup" => duty[r] = "settled"
      BY <3>1 DEF Released, Mine
    <3>3. kind[r] = "interrupt" => duty[r] = "settled"
      BY <3>1 DEF Joins, InterruptsJoined, Mine, PastInterrupts, PastTasks, PastAcquisitions
    <3>4. kind[r] = "publication" => duty[r] = "settled"
      BY <3>1 DEF Withdrawal, Mine, Lifecycle, Shape, DutiesOf
    <3>5. kind[r] = "task" => duty[r] = "settled"
      BY <3>1 DEF Joins, TasksJoined, Mine, PastTasks, PastAcquisitions
    <3>6. kind[r] = "acquisition" => duty[r] = "settled"
      BY <3>1 DEF Joins, AcquisitionsJoined, PastAcquisitions, Shape, DutiesOf
    <3>7. kind[r] = "none" => duty[r] = "free"
      BY DEF Shape, DutiesOf
    <3> QED BY <3>2, <3>3, <3>4, <3>5, <3>6, <3>7 DEF Kinds
  <2> QED BY <1>1, <1>2, <2>1 DEF Releases, Released, Emptied, Mine, recordVars
<1>16. Visibility'
  BY <1>1, <1>2, <1>3 DEF Visibility, recordVars
<1> HIDE DEF TypeOK
<1> QED BY <1>4, <1>6, <1>7, <1>8, <1>9, <1>10, <1>11, <1>12, <1>13, <1>14, <1>15, <1>16

-----------------------------------------------------------------------------
(* What happens to scopes.                                                  *)

\* A tree has its scope in it; the rest of it is attached.
LEMMA TreeFacts ==
  ASSUME NEW s \in Scopes
  PROVE  /\ s \in Tree(s) /\ Tree(s) \subseteq Subtree[s]
         /\ \A t \in Tree(s) \ {s} : Attached(t)
<1>1. \A t \in Scopes : t \in Subtree[t] /\ Subtree[t] \subseteq Scopes
  BY TreeAssumption
<1>2. \A u \in Subtree[s] \ {s} : s \notin Subtree[u]
  BY TreeAssumption
<1> QED BY <1>1, <1>2 DEF Tree

\* Nothing attached is cut off from a scope above it.
LEMMA TreeHolds ==
  ASSUME IInv, NEW s \in Scopes, NEW t \in Subtree[s], Attached(t)
  PROVE  t \in Tree(s)
<1>1. Subtree[s] \subseteq Scopes
  BY TreeAssumption
<1>2. ASSUME NEW u \in Subtree[s] \ {s}, t \in Subtree[u] PROVE Attached(u)
  BY <1>1, <1>2 DEF IInv, Descent, Attached
<1> QED BY <1>2 DEF Tree

\* block() seals exactly the active scopes below the one it is called on.
LEMMA BlockedIs ==
  ASSUME IInv, NEW s \in Scopes
  PROVE  \A t \in Scopes : Blocked(s)[t] =
           IF t \in Subtree[s] /\ phase[t] = "active" THEN "sealed" ELSE phase[t]
BY TreeHolds, TreeFacts DEF Blocked, Attached

\* A step that changes phases only, and removes no scope, keeps the records' books.
LEMMA BooksFrame ==
  ASSUME IInv, UNCHANGED <<owner, kind, duty, joining, id, sequence>>,
         UNCHANGED <<work, errors, children, awaiting>>,
         \A t \in Scopes : /\ completion'[t] = "none" <=> completion[t] = "none"
                           /\ phase'[t] = "absent" => phase[t] = "absent"
  PROVE  Shape' /\ Numbering' /\ Withdrawal' /\ Joins' /\ Releases'
<1> USE DEF IInv, TypeOK
<1>1. Shape'
  BY DEF Shape, DutiesOf
<1>2. Numbering'
  BY DEF Numbering, Numbered
<1>3. Withdrawal'
  BY DEF Withdrawal, Mine
<1>4. Joins'
  BY DEF Joins, InterruptsJoined, TasksJoined, AcquisitionsJoined, Mine
<1>5. Releases'
  BY DEF Releases, Released, Emptied, Mine
<1> QED BY <1>1, <1>2, <1>3, <1>4, <1>5

\* A new child preserves the invariant: everything above it is active.
LEMMA ChildStep ==
  ASSUME IInv, TypeOK', NEW s \in Scopes, NEW c \in Scopes, Child(s, c) PROVE IInv'
<1>1. /\ phase[s] = "active" /\ phase[c] = "absent"
      /\ c # Root /\ Parent[c] = s
      /\ \A t \in Scopes : phase'[t] = IF t = c THEN "active" ELSE phase[t]
  BY DEF Child, AcceptsWork, IInv, TypeOK
<1>2. /\ UNCHANGED <<aborted, startup, published, foreground>>
      /\ UNCHANGED <<recordVars, calls, shutVars, reported>>
  BY DEF Child
<1>3. /\ work[s] = "none" /\ completion[s] = "none"
      /\ work[c] = "none" /\ completion[c] = "none"
  BY <1>1 DEF IInv, Lifecycle
<1>4. \A u \in Scopes : c \in Subtree[u] => u = c \/ (phase[u] = "active" /\ completion[u] = "none")
  <2> SUFFICES ASSUME NEW u \in Scopes, c \in Subtree[u], u # c
               PROVE  phase[u] = "active" /\ completion[u] = "none"
    OBVIOUS
  <2>1. s \in Subtree[u]
    BY <1>1, TreeAssumption
  <2>2. phase[u] = "active"
    BY <1>1, <2>1 DEF IInv, Descent
  <2> QED BY <2>2 DEF IInv, Lifecycle
<1>5. \A u \in Scopes : Subtree[u] \subseteq Scopes
  BY TreeAssumption
<1>6. Lifecycle'
  BY <1>1, <1>2, <1>3 DEF IInv, Lifecycle, Settled, TimedOut, shutVars
<1>7. Descent'
  BY <1>1, <1>2, <1>3, <1>4, <1>5 DEF IInv, Descent, Attached, shutVars
<1>8. Borrows'
  BY <1>1, <1>2 DEF IInv, Borrows, shutVars
<1>9. Cancellation'
  BY <1>1, <1>2, <1>3, <1>4, <1>5 DEF IInv, Cancellation, Cancelled, Covered, Attached, shutVars
<1>10. Reports'
  BY <1>1, <1>2, TreeAssumption DEF IInv, Reports, TimedOut, Settled, recordVars, shutVars
<1>11. Offspring'
  BY <1>1, <1>2, <1>3 DEF IInv, Offspring, Attached, shutVars
<1>12. Visibility'
  BY <1>1, <1>2 DEF IInv, Visibility, recordVars, shutVars
<1>13. Shape' /\ Numbering' /\ Withdrawal' /\ Joins' /\ Releases'
  BY <1>1, <1>2, BooksFrame DEF recordVars, shutVars
<1> QED BY <1>6, <1>7, <1>8, <1>9, <1>10, <1>11, <1>12, <1>13 DEF IInv

\* A step that only counts borrows preserves the invariant if it preserves Borrows.
LEMMA BorrowedFrame ==
  ASSUME IInv, TypeOK', UNCHANGED <<phase, aborted, startup, published>>,
         UNCHANGED <<recordVars, calls, shutVars, reported>>, Borrows'
  PROVE  IInv'
<1> USE DEF IInv, recordVars, shutVars
<1>1. Lifecycle'
  BY DEF Lifecycle, Settled, TimedOut
<1>2. Descent'
  BY DEF Descent, Attached
<1>3. Cancellation'
  BY DEF Cancellation, Cancelled, Covered, Attached
<1>4. Reports'
  BY DEF Reports, TimedOut, Settled
<1>5. Offspring'
  BY DEF Offspring, Attached
<1>6. Visibility'
  BY DEF Visibility
<1>7. Shape' /\ Numbering' /\ Withdrawal' /\ Joins' /\ Releases'
  BY BooksFrame
<1> QED BY <1>1, <1>2, <1>3, <1>4, <1>5, <1>6, <1>7

\* A borrow preserves the invariant: everything above it is active.
LEMMA BorrowStep ==
  ASSUME IInv, TypeOK', NEW s \in Scopes, Borrow(s) PROVE IInv'
<1>1. \A u \in Scopes : s \in Subtree[u] => phase[u] = "active" /\ completion[u] = "none"
  BY DEF IInv, Descent, Lifecycle, Borrow, AcceptsWork
<1>2. \A t \in Scopes \ {s} : foreground'[t] = foreground[t]
  BY DEF IInv, TypeOK, Borrow
<1>3. Borrows'
  BY <1>1, <1>2 DEF IInv, Borrows, Borrow, AcceptsWork, shutVars
<1> QED BY <1>3, BorrowedFrame DEF Borrow

\* A returned borrow preserves the invariant.
LEMMA ReturnStep ==
  ASSUME IInv, TypeOK', NEW s \in Scopes, Return(s) PROVE IInv'
<1>1. \A t \in Scopes : foreground'[t] > 0 => foreground[t] > 0
  BY DEF IInv, TypeOK, Return
<1>2. Borrows'
  BY <1>1 DEF IInv, Borrows, Return, shutVars
<1> QED BY <1>2, BorrowedFrame DEF Return

\* Publication preserves the invariant: had a withdrawal failed before, the
\* root would have been blocked.
LEMMA PublishStep ==
  ASSUME IInv, TypeOK', Publish PROVE IInv'
<1>1. /\ UNCHANGED <<phase, aborted, foreground>>
      /\ UNCHANGED <<owner, kind, duty, joining, id, sequence>>
      /\ UNCHANGED <<calls, shutVars, reported>>
      /\ published'
  BY DEF Publish
<1> USE DEF shutVars
<1>2. ASSUME NEW t \in Tree(Root), NEW r \in Publications(t)
      PROVE  kind[r] = "publication" /\ duty[r] = "staged" /\ completion[owner[r]] = "none"
  <2>1. reported = {}
    BY DEF IInv, Reports, Publish, AcceptsWork
  <2>2. r \in Records /\ kind[r] = "publication" /\ duty[r] # "settled" /\ duty[r] # "failed"
    BY <2>1 DEF IInv, Reports, Publications, Owed
  <2>3. duty[r] = "staged"
    BY <2>2 DEF IInv, Shape, DutiesOf
  <2>4. owner[r] \in Scopes
    BY <2>2 DEF IInv, TypeOK
  <2> QED BY <2>2, <2>3, <2>4 DEF IInv, Withdrawal, Mine
<1>3. Visibility'
  <2>1. \A r \in visible' : r \in visible \/ \E t \in Tree(Root) : r \in Publications(t)
    BY DEF Publish
  <2> QED BY <1>1, <1>2, <2>1 DEF IInv, Visibility
<1>4. Lifecycle' /\ Descent' /\ Borrows'
  BY <1>1 DEF IInv, Lifecycle, Settled, TimedOut, Descent, Attached, Borrows
<1>5. Cancellation' /\ Reports' /\ Offspring'
  BY <1>1 DEF IInv, Cancellation, Cancelled, Covered, Attached, Reports, TimedOut,
              Settled, Offspring
<1>6. Shape' /\ Numbering' /\ Withdrawal' /\ Joins' /\ Releases'
  BY <1>1, BooksFrame
<1> QED BY <1>3, <1>4, <1>5, <1>6 DEF IInv

\* Sealing the whole tree keeps what is said of scopes.
LEMMA Blocking ==
  ASSUME IInv, phase' = Blocked(Root), aborted \subseteq aborted',
         UNCHANGED <<foreground, calls, shutVars>>
  PROVE  /\ Lifecycle' /\ Descent' /\ Borrows' /\ Cancellation' /\ Offspring'
         /\ phase'[Root] # "active"
         /\ \A t \in Scopes : phase'[t] = "absent" => phase[t] = "absent"
<1>1. Root \in Scopes /\ Subtree[Root] = Scopes
      /\ \A t \in Scopes : Subtree[t] \subseteq Scopes
  BY TreeAssumption
<1>2. \A t \in Scopes : phase'[t] = IF phase[t] = "active" THEN "sealed" ELSE phase[t]
  BY <1>1, BlockedIs
<1> USE DEF IInv, shutVars
<1>3. Lifecycle'
  BY <1>2 DEF Lifecycle, Settled, TimedOut
<1>4. Descent'
  BY <1>1, <1>2 DEF Descent, Attached
<1>5. Borrows'
  BY <1>2 DEF Borrows
<1>6. Cancellation'
  BY <1>1, <1>2 DEF Cancellation, Cancelled, Covered, Attached
<1>7. Offspring'
  BY <1>2 DEF Offspring, Attached
<1> QED BY <1>1, <1>2, <1>3, <1>4, <1>5, <1>6, <1>7

\* seal() and the abort of startup preserve the invariant.
LEMMA CloseStep ==
  ASSUME IInv, TypeOK', StartupAborts \/ Seal PROVE IInv'
<1>1. /\ phase' = Blocked(Root) /\ aborted \subseteq aborted'
      /\ UNCHANGED <<published, foreground>>
      /\ UNCHANGED <<recordVars, calls, shutVars, reported>>
  BY DEF StartupAborts, Seal
<1>2. Reports'
  BY <1>1, Blocking DEF IInv, Reports, TimedOut, Settled, recordVars, shutVars
<1>3. Visibility'
  BY <1>1 DEF IInv, Visibility, recordVars, shutVars
<1>4. Shape' /\ Numbering' /\ Withdrawal' /\ Joins' /\ Releases'
  BY <1>1, Blocking, BooksFrame DEF recordVars, shutVars
<1> QED BY <1>1, <1>2, <1>3, <1>4, Blocking DEF IInv

\* A release that fails preserves the invariant: it is not retried and is
\* reported before it is collected.
LEMMA ReleaseFailsStep ==
  ASSUME IInv, TypeOK', NEW r \in Records, ReleaseFails(r) PROVE IInv'
<1>1. /\ phase' = Blocked(Root) /\ aborted' = aborted
      /\ UNCHANGED <<published, foreground, calls, shutVars>>
      /\ UNCHANGED <<owner, kind, id, sequence, visible>>
  BY DEF ReleaseFails, Report
<1>2. /\ duty[r] = "releasing"
      /\ \A q \in Records : duty'[q] = IF q = r THEN "failed" ELSE duty[q]
      /\ joining' = joining \ {r}
      /\ reported' = reported \union {owner[r]}
  BY DEF IInv, TypeOK, ReleaseFails, Report, Leave
<1>3. kind[r] \in {"cleanup", "interrupt"}
  <2>1. kind[r] \in Kinds /\ duty[r] \in DutiesOf(kind[r])
    BY DEF IInv, TypeOK, Shape
  <2> QED BY <1>2, <2>1 DEF DutiesOf, Kinds
<1> USE DEF IInv, shutVars
<1>4. Shape'
  BY <1>1, <1>2, <1>3, Blocking DEF TypeOK, Shape, DutiesOf
<1>5. Numbering'
  BY <1>1 DEF Numbering, Numbered
<1>6. Reports'
  BY <1>1, <1>2, Blocking DEF Reports, TimedOut, Settled
<1>7. Withdrawal'
  BY <1>1, <1>2, <1>3 DEF Withdrawal, Mine
<1>8. Joins'
  <2> SUFFICES ASSUME NEW t \in Scopes
               PROVE  (InterruptsJoined(t) /\ TasksJoined(t) /\ AcquisitionsJoined(t))'
    BY DEF Joins
  <2>1. InterruptsJoined(t)'
    BY <1>1, <1>2 DEF Joins, InterruptsJoined, Mine
  <2>2. TasksJoined(t)'
    BY <1>1, <1>2, <1>3 DEF Joins, TasksJoined, Mine
  <2>3. AcquisitionsJoined(t)'
    BY <1>1, <1>2 DEF Joins, AcquisitionsJoined
  <2> QED BY <2>1, <2>2, <2>3
<1>9. Releases'
  <2>1. ASSUME NEW t \in Scopes, work[t] = "cleanups" PROVE Released(t)'
    BY <1>1, <1>2, <2>1 DEF Releases, Released, Mine
  <2>2. \A t \in Scopes : work[t] = "fulfilled" => Emptied(t)'
    BY <1>1, <1>2 DEF Releases, Emptied
  <2> QED BY <1>1, <2>1, <2>2 DEF Releases
<1>10. Visibility'
  BY <1>1, <1>2 DEF TypeOK, Visibility
<1> QED BY <1>1, <1>4, <1>5, <1>6, <1>7, <1>8, <1>9, <1>10, Blocking

\* The broadcast of the innermost dispose() cancels what that call covered.
LEMMA BroadcastStep ==
  ASSUME IInv, TypeOK', Broadcast PROVE IInv'
<1>1. /\ UNCHANGED <<phase, startup, published, foreground>>
      /\ UNCHANGED <<recordVars, shutVars, reported>>
  BY DEF Broadcast
<1>2. calls \in Seq(Scopes) /\ calls # <<>>
  BY DEF IInv, TypeOK, Broadcast
<1> DEFINE h == calls[1]
<1>3. /\ h \in Scopes /\ aborted' = aborted \union Tree(h)
      /\ \A k \in DOMAIN calls : k # 1 => k - 1 \in DOMAIN calls' /\ calls'[k - 1] = calls[k]
  BY <1>2 DEF Broadcast
<1>4. Cancellation'
  <2> SUFFICES ASSUME NEW s \in Scopes, completion[s] # "none"
               PROVE  /\ Cancelled(s)' \/ Covered(s)'
                      /\ work[s] # "queued" => Cancelled(s)'
    BY <1>1 DEF Cancellation, shutVars
  <2>1. Cancelled(s) => Cancelled(s)'
    BY <1>1, <1>3 DEF Cancelled, Attached
  <2>2. s \in Subtree[h] => Cancelled(s)'
    <3>1. Subtree[s] \subseteq Subtree[h] \/ s \notin Subtree[h]
      BY <1>3, TreeAssumption
    <3> QED BY <1>1, <1>3, <3>1, TreeHolds DEF Cancelled, Attached
  <2>3. Covered(s) => s \in Subtree[h] \/ Covered(s)'
    BY <1>3 DEF Covered
  <2> QED BY <2>1, <2>2, <2>3 DEF IInv, Cancellation
<1> USE DEF recordVars, shutVars
<1>5. Lifecycle' /\ Descent' /\ Borrows'
  BY <1>1 DEF IInv, Lifecycle, Settled, TimedOut, Descent, Attached, Borrows
<1>6. Reports' /\ Offspring' /\ Visibility'
  BY <1>1 DEF IInv, Reports, TimedOut, Settled, Offspring, Attached, Visibility
<1>7. Shape' /\ Numbering' /\ Withdrawal' /\ Joins' /\ Releases'
  BY <1>1, BooksFrame
<1> QED BY <1>4, <1>5, <1>6, <1>7 DEF IInv

\* A deadline answers the callers and leaves the work's books alone.
LEMMA DeadlineStep ==
  ASSUME IInv, TypeOK', NEW s \in Scopes, Deadline(s) PROVE IInv'
<1>1. Root \in Scopes /\ Subtree[Root] = Scopes
      /\ \A t \in Scopes : t \in Subtree[t] /\ Subtree[t] \subseteq Scopes
  BY TreeAssumption
<1>2. /\ completion[s] = "pending"
      /\ \A t \in Scopes : completion'[t] = IF t = s THEN "rejected" ELSE completion[t]
      /\ reported' = reported \union {s}
      /\ UNCHANGED <<aborted, startup, published, foreground>>
      /\ UNCHANGED <<recordVars, calls, work, errors, children, awaiting>>
  BY DEF IInv, TypeOK, Deadline, Expires
<1>3. /\ phase[s] = "disposing"
      /\ work[s] \notin {"none", "fulfilled", "rejected"}
  BY <1>2 DEF IInv, TypeOK, Phases, Lifecycle, Settled, TimedOut
<1>4. \A t \in Scopes : phase'[t] = IF t = s THEN "quarantined"
                                    ELSE IF phase[t] = "active" THEN "sealed" ELSE phase[t]
  <2>1. Blocked(Root) \in [Scopes -> {Blocked(Root)[t] : t \in Scopes}]
    BY DEF Blocked
  <2> QED BY <1>1, <2>1, BlockedIs DEF Deadline
<1>5. Lifecycle'
  BY <1>2, <1>3, <1>4 DEF IInv, Lifecycle, Settled, TimedOut
<1>6. Descent'
  BY <1>1, <1>2, <1>3, <1>4 DEF IInv, Descent, Attached
<1>7. Borrows'
  BY <1>2, <1>3, <1>4 DEF IInv, Borrows
<1>8. Cancellation'
  BY <1>1, <1>2, <1>3, <1>4 DEF IInv, Cancellation, Cancelled, Covered, Attached
<1>9. Reports'
  <2>1. \A t \in Scopes : TimedOut(t)' => TimedOut(t) \/ t = s
    BY <1>2 DEF TimedOut, Settled
  <2>2. phase'[Root] # "active"
    BY <1>1, <1>4
  <2> QED BY <1>1, <1>2, <2>1, <2>2 DEF IInv, Reports, recordVars
<1>10. Offspring'
  BY <1>2, <1>3, <1>4 DEF IInv, Offspring, Attached
<1>11. Visibility'
  BY <1>2 DEF IInv, TypeOK, Visibility, recordVars
<1>12. Shape' /\ Numbering' /\ Withdrawal' /\ Joins' /\ Releases'
  BY <1>2, <1>3, <1>4, BooksFrame DEF recordVars
<1> QED BY <1>5, <1>6, <1>7, <1>8, <1>9, <1>10, <1>11, <1>12 DEF IInv

\* The scopes that enter shutdown together are open, unborrowed and all that
\* is still without a join below the one disposed.
LEMMA EnteringFacts ==
  ASSUME IInv, NEW s \in Scopes, phase[s] \in {"active", "sealed"}, ~Busy(s)
  PROVE  /\ s \in Entering(s) /\ Entering(s) \subseteq Subtree[s]
         /\ \A t \in Entering(s) : /\ phase[t] \in {"active", "sealed"}
                                   /\ completion[t] = "none" /\ work[t] = "none"
                                   /\ foreground[t] = 0
         /\ \A t \in Subtree[s] :
              Attached(t) => t \in Entering(s) \/ completion[t] # "none"
         /\ Entering(s) \subseteq Scopes
<1>1. Subtree[s] \subseteq Scopes
  BY TreeAssumption
<1>2. completion[s] = "none"
  BY DEF IInv, Lifecycle
<1>3. \A t \in Entering(s) : t \in Tree(s) /\ completion[t] = "none"
  BY DEF Entering
<1>4. \A t \in Entering(s) : t \in Scopes /\ (t # s => phase[t] \notin {"absent", "disposed"})
  BY <1>1, <1>3, TreeFacts DEF Attached
<1>5. \A t \in Entering(s) : phase[t] \in {"active", "sealed"} /\ work[t] = "none"
  BY <1>3, <1>4 DEF IInv, Lifecycle
<1>6. \A t \in Entering(s) : foreground[t] = 0
  BY <1>3, <1>4 DEF Busy, IInv, TypeOK
<1>7. \A t \in Subtree[s] : Attached(t) => t \in Tree(s)
  BY TreeHolds
<1>8. s \in Entering(s) /\ Entering(s) \subseteq Subtree[s]
  BY <1>2, TreeFacts DEF Entering
<1>9. \A t \in Subtree[s] : Attached(t) => t \in Entering(s) \/ completion[t] # "none"
  BY <1>7 DEF Entering
<1> QED BY <1>3, <1>4, <1>5, <1>6, <1>8, <1>9

\* dispose() up to its broadcast preserves the invariant: joins, withdrawals
\* and phases of the whole tree change together.
LEMMA DisposeStep ==
  ASSUME IInv, TypeOK', NEW s \in Scopes, Dispose(s) PROVE IInv'
<1> DEFINE E == Entering(s)
           W == Withdrawn(s)
<1>1. /\ phase[s] \in {"active", "sealed"} /\ ~Busy(s)
      /\ \A t \in Scopes : work'[t] = IF t \in E THEN "queued" ELSE work[t]
      /\ \A t \in Scopes : completion'[t] = IF t \in E THEN "pending" ELSE completion[t]
      /\ visible' = visible \ W /\ calls' = <<s>> \o calls
      /\ UNCHANGED <<aborted, published, foreground, owner, kind, joining, id, sequence>>
      /\ UNCHANGED <<errors, children, awaiting>>
  BY DEF Dispose
<1>2. PICK bad \in SUBSET W :
        /\ duty' = [r \in Records |-> CASE r \in bad     -> "failed"
                                        [] r \in W \ bad -> "settled"
                                        [] OTHER         -> duty[r]]
        /\ reported' = reported \union {owner[r] : r \in bad}
        /\ phase' = [t \in Scopes |->
             IF t \in E THEN "disposing" ELSE Blocked(IF bad = {} THEN s ELSE Root)[t]]
  BY ZenonT(30) DEF Dispose
<1> HIDE DEF E, W
<1>3. /\ s \in E /\ E \subseteq Subtree[s] /\ E \subseteq Scopes
      /\ \A t \in E : /\ phase[t] \in {"active", "sealed"}
                      /\ completion[t] = "none" /\ work[t] = "none"
                      /\ foreground[t] = 0
      /\ \A t \in Subtree[s] : Attached(t) => t \in E \/ completion[t] # "none"
  BY <1>1, EnteringFacts DEF E
<1>4. /\ Root \in Scopes /\ Subtree[Root] = Scopes
      /\ \A t \in Scopes : t \in Subtree[t] /\ Subtree[t] \subseteq Scopes
      /\ \A t \in Scopes : \A u \in Subtree[t] : Subtree[u] \subseteq Subtree[t]
  BY TreeAssumption
<1>5. \A t \in Subtree[s] : phase[t] = "active" => t \in E
  BY <1>3, <1>4 DEF IInv, Lifecycle, Attached
<1>6. \A t \in Scopes :
        IF t \in E THEN phase'[t] = "disposing"
        ELSE /\ phase'[t] \in {phase[t], "sealed"}
             /\ phase'[t] # phase[t] => phase[t] = "active"
             /\ phase'[t] = "active" => bad = {} /\ t \notin Subtree[s] /\ phase[t] = "active"
  BY <1>2, <1>4, <1>5, BlockedIs
<1>7. \A t \in Scopes : Attached(t)' <=> Attached(t)
  BY <1>3, <1>6 DEF Attached
<1>8. /\ W \subseteq Records
      /\ \A r \in W : kind[r] = "publication" /\ owner[r] \in E
      /\ \A r \in Records : owner[r] \in E /\ kind[r] = "publication"
           => r \in W \/ duty[r] \in {"free", "settled"}
  BY DEF W, E, Withdrawn, Publications, Owed
<1>9. \A r \in Records \ W : duty'[r] = duty[r]
  BY <1>2
<1>10. \A r \in W : duty'[r] \in {"settled", "failed"} /\ (duty'[r] = "failed" => r \in bad)
  BY <1>2, <1>8
<1> HIDE DEF IInv
<1>11. Lifecycle'
  <2> SUFFICES ASSUME NEW t \in Scopes
      PROVE  (/\ (completion[t] = "none" <=> phase[t] \in {"absent", "active", "sealed"})
              /\ (completion[t] = "none" <=> work[t] = "none")
              /\ (phase[t] = "disposed" <=> work[t] = "fulfilled")
              /\ (phase[t] = "quarantined" <=> work[t] = "rejected" \/ TimedOut(t))
              /\ (Settled(t) => completion[t] \in {"resolved", "rejected"})
              /\ (completion[t] = "resolved" => work[t] = "fulfilled")
              /\ (work[t] \in {"retained", "rejected"} => errors[t])
              /\ (work[t] = "fulfilled" => ~errors[t]))'
    BY DEF Lifecycle
  <2>1. CASE t \in E
    BY <1>1, <1>6, <2>1 DEF Settled, TimedOut
  <2>2. CASE t \notin E
    BY <1>1, <1>6, <2>2 DEF IInv, Lifecycle, Settled, TimedOut
  <2> QED BY <2>1, <2>2
<1>12. Descent'
  <2> SUFFICES ASSUME NEW u \in Scopes, NEW t \in Subtree[u]
      PROVE  /\ phase'[u] = "absent" => phase'[t] = "absent"
             /\ phase'[t] = "active" => phase'[u] = "active"
             /\ phase'[u] = "disposed" => phase'[t] \in {"absent", "disposed"}
             /\ completion'[u] # "none" /\ Attached(t)' => completion'[t] # "none"
    BY DEF Descent
  <2>1. t \in Scopes /\ (u \in Subtree[s] => t \in Subtree[s])
    BY <1>4
  <2>2. /\ phase[u] = "absent" => phase[t] = "absent"
        /\ phase[t] = "active" => phase[u] = "active"
        /\ phase[u] = "disposed" => phase[t] \in {"absent", "disposed"}
        /\ completion[u] # "none" /\ Attached(t) => completion[t] # "none"
    BY DEF IInv, Descent
  <2>3. (phase'[u] = "absent" => phase'[t] = "absent") /\
        (phase'[u] = "disposed" => phase'[t] \in {"absent", "disposed"})
    BY <1>3, <1>6, <2>1, <2>2
  <2>4. phase'[t] = "active" => phase'[u] = "active"
    <3> SUFFICES ASSUME phase'[t] = "active" PROVE phase'[u] = "active"
      OBVIOUS
    <3>1. bad = {} /\ t \notin Subtree[s] /\ phase[t] = "active"
      BY <1>6, <2>1
    <3>2. u \notin Subtree[s] /\ phase[u] = "active"
      BY <2>1, <2>2, <3>1
    <3>3. u \notin E
      BY <1>3, <3>2
    <3> QED BY <1>2, <3>1, <3>2, <3>3, BlockedIs
  <2>5. completion'[u] # "none" /\ Attached(t)' => completion'[t] # "none"
    BY <1>1, <1>3, <1>7, <2>1, <2>2
  <2> QED BY <2>3, <2>4, <2>5
<1>13. Borrows'
  <2> SUFFICES ASSUME NEW t \in Scopes, foreground[t] > 0
               PROVE  /\ phase'[t] # "absent"
                      /\ \A u \in Scopes : t \in Subtree[u] => completion'[u] = "none"
    BY <1>1 DEF Borrows
  <2>1. /\ phase[t] # "absent"
        /\ \A u \in Scopes : t \in Subtree[u] => completion[u] = "none"
    BY DEF IInv, Borrows
  <2>2. t \notin E
    BY <1>3
  <2>3. Attached(t)
    BY <1>4, <2>1 DEF IInv, Lifecycle, Attached
  <2>4. t \notin Subtree[s]
    BY <1>3, <1>4, <2>1, <2>2, <2>3
  <2>5. \A u \in E : t \notin Subtree[u]
    BY <1>3, <1>4, <2>4
  <2> QED BY <1>1, <1>6, <2>1, <2>2, <2>5
<1>14. Cancellation'
  <2> SUFFICES ASSUME NEW u \in Scopes, completion'[u] # "none"
               PROVE  /\ Cancelled(u)' \/ Covered(u)'
                      /\ work'[u] # "queued" => Cancelled(u)'
    BY DEF Cancellation
  <2>1. calls \in Seq(Scopes)
    BY DEF IInv, TypeOK
  <2>2. /\ 1 \in DOMAIN calls' /\ calls'[1] = s
        /\ \A k \in DOMAIN calls : k + 1 \in DOMAIN calls' /\ calls'[k + 1] = calls[k]
    BY <1>1, <2>1
  <2>3. Cancelled(u) => Cancelled(u)'
    BY <1>1, <1>4, <1>7 DEF Cancelled
  <2>4. Covered(u) => Covered(u)'
    BY <2>2 DEF Covered
  <2>5. CASE u \in E
    BY <1>1, <1>3, <2>2, <2>5 DEF Covered
  <2>6. CASE u \notin E
    BY <1>1, <2>3, <2>4, <2>6 DEF IInv, Cancellation
  <2> QED BY <2>5, <2>6
<1>15. Shape'
  <2> SUFFICES ASSUME NEW q \in Records
      PROVE  /\ duty'[q] \in DutiesOf(kind'[q])
             /\ duty'[q] # "free" => phase'[owner'[q]] # "absent"
             /\ q \in joining' => \/ kind'[q] = "acquisition" /\ duty'[q] = "working"
                                  \/ kind'[q] = "cleanup" /\ duty'[q] = "releasing"
             /\ kind'[q] = "acquisition" /\ duty'[q] = "working" => q \in joining'
    BY DEF Shape, DutiesOf
  <2>1. owner[q] \in Scopes
    BY DEF IInv, TypeOK
  <2>2. /\ duty[q] \in DutiesOf(kind[q])
        /\ duty[q] # "free" => phase[owner[q]] # "absent"
        /\ q \in joining => \/ kind[q] = "acquisition" /\ duty[q] = "working"
                            \/ kind[q] = "cleanup" /\ duty[q] = "releasing"
        /\ kind[q] = "acquisition" /\ duty[q] = "working" => q \in joining
    BY DEF IInv, Shape
  <2>3. phase[owner[q]] # "absent" => phase'[owner[q]] # "absent"
    BY <1>6, <2>1
  <2>4. CASE q \in W
    <3>1. kind[q] = "publication" /\ owner[q] \in E
      BY <1>8, <2>4
    <3>2. duty'[q] \in DutiesOf(kind[q]) /\ phase'[owner[q]] # "absent"
      BY <1>6, <1>10, <2>1, <2>4, <3>1 DEF DutiesOf
    <3> QED BY <1>1, <2>2, <3>1, <3>2
  <2>5. CASE q \notin W
    BY <1>1, <1>9, <2>2, <2>3, <2>5
  <2> QED BY <2>4, <2>5
<1>16. Numbering'
  BY <1>1 DEF IInv, Numbering, Numbered
<1>17. Reports'
  <2>1. reported \subseteq reported'
    BY <1>2
  <2>2. \A r \in Records : duty'[r] = "failed" => owner'[r] \in reported'
    <3> SUFFICES ASSUME NEW r \in Records, duty'[r] = "failed" PROVE owner[r] \in reported'
      BY <1>1
    <3>1. CASE r \in W
      BY <1>2, <1>10, <3>1
    <3>2. CASE r \notin W
      BY <1>9, <2>1, <3>2 DEF IInv, Reports
    <3> QED BY <3>1, <3>2
  <2>3. \A t \in Scopes : errors'[t] \/ TimedOut(t)' => reported' \intersect Subtree[t] # {}
    <3>1. \A t \in Scopes : TimedOut(t)' => TimedOut(t)
      BY <1>1 DEF TimedOut, Settled
    <3> QED BY <1>1, <2>1, <3>1 DEF IInv, Reports
  <2>4. reported' # {} => phase'[Root] # "active"
    <3>1. CASE bad = {}
      <4>1. reported' = reported
        BY <1>2, <3>1
      <4> QED BY <1>4, <1>6, <4>1 DEF IInv, Reports
    <3>2. CASE bad # {}
      BY <1>4, <1>6, <3>2
    <3> QED BY <3>1, <3>2
  <2> QED BY <2>2, <2>3, <2>4 DEF Reports
<1>18. \A t \in Scopes \ E : \A k \in Kinds : \A r \in Mine(t, k) : r \notin W /\ duty'[r] = duty[r]
  BY <1>8, <1>9 DEF Mine
<1>19. \A t \in Scopes : \A k \in Kinds \ {"publication"} : \A r \in Mine(t, k) : duty'[r] = duty[r]
  BY <1>8, <1>9 DEF Mine
<1>20. \A t \in Scopes : \A k \in Kinds : Mine(t, k)' = Mine(t, k)
  BY <1>1 DEF Mine
<1>21. Withdrawal'
  <2> SUFFICES ASSUME NEW t \in Scopes, NEW r \in Mine(t, "publication")
      PROVE  /\ completion'[t] # "none" => duty'[r] # "staged"
             /\ completion'[t] = "none" => duty'[r] # "failed"
             /\ work'[t] \notin {"none", "queued"} /\ duty'[r] = "failed" => errors'[t]
    BY <1>20 DEF Withdrawal, Kinds
  <2>1. CASE t \in E
    <3>1. r \in W \/ (duty[r] \in {"free", "settled"} /\ duty'[r] = duty[r])
      BY <1>8, <1>9, <2>1 DEF Mine
    <3> QED BY <1>1, <1>10, <2>1, <3>1
  <2>2. CASE t \notin E
    <3>1. duty'[r] = duty[r]
      BY <1>18, <2>2 DEF Kinds
    <3> QED BY <1>1, <2>2, <3>1 DEF IInv, Withdrawal
  <2> QED BY <2>1, <2>2
<1>22. Joins'
  <2> SUFFICES ASSUME NEW t \in Scopes
               PROVE  (InterruptsJoined(t) /\ TasksJoined(t) /\ AcquisitionsJoined(t))'
    BY DEF Joins
  <2>1. CASE t \in E
    <3>1. work'[t] = "queued"
      BY <1>1, <2>1
    <3> QED BY <3>1 DEF InterruptsJoined, TasksJoined, AcquisitionsJoined,
                        PastInterrupts, PastTasks, PastAcquisitions
  <2>2. CASE t \notin E
    <3>1. work'[t] = work[t] /\ awaiting'[t] = awaiting[t] /\ errors'[t] = errors[t]
      BY <1>1, <2>2
    <3>2. InterruptsJoined(t) /\ TasksJoined(t) /\ AcquisitionsJoined(t)
      BY DEF IInv, Joins
    <3>3. InterruptsJoined(t)'
      BY <1>19, <1>20, <3>1, <3>2 DEF InterruptsJoined, Kinds
    <3>4. TasksJoined(t)'
      BY <1>19, <1>20, <3>1, <3>2 DEF TasksJoined, Kinds
    <3>5. AcquisitionsJoined(t)'
      BY <1>1, <3>1, <3>2 DEF AcquisitionsJoined
    <3> QED BY <3>3, <3>4, <3>5
  <2> QED BY <2>1, <2>2
<1>23. Offspring'
  <2>1. \A c \in Scopes \ {Root} : Parent[c] \in Scopes
    BY TreeAssumption
  <2>2. \A c \in Scopes \ {Root} :
          work'[Parent[c]] \notin {"none", "queued"} => work'[Parent[c]] = work[Parent[c]]
    BY <1>1, <2>1
  <2>3. \A c \in Scopes : phase[c] \in {"absent", "disposed"} => phase'[c] \in {"absent", "disposed"}
    BY <1>3, <1>6
  <2> QED BY <1>1, <1>7, <2>2, <2>3 DEF IInv, Offspring
<1>24. Releases'
  <2>1. ASSUME NEW t \in Scopes, work'[t] = "cleanups" PROVE Released(t)'
    <3>1. work[t] = "cleanups"
      BY <1>1, <2>1
    <3> QED BY <1>1, <1>19, <1>20, <3>1 DEF IInv, Releases, Released, Kinds
  <2>2. ASSUME NEW t \in Scopes, work'[t] = "fulfilled" PROVE Emptied(t)'
    <3>1. work[t] = "fulfilled" /\ t \notin E
      BY <1>1, <1>3, <2>2
    <3>2. \A r \in Records : owner[r] = t => r \notin W
      BY <1>8, <3>1
    <3> QED BY <1>1, <1>9, <3>1, <3>2 DEF IInv, Releases, Emptied
  <2> QED BY <2>1, <2>2 DEF Releases
<1>25. Visibility'
  <2> SUFFICES ASSUME NEW r \in visible \ W
      PROVE  /\ published' /\ kind'[r] = "publication" /\ duty'[r] = "staged"
             /\ completion'[owner'[r]] = "none"
    BY <1>1 DEF Visibility
  <2>1. /\ r \in Records /\ published /\ kind[r] = "publication" /\ duty[r] = "staged"
        /\ completion[owner[r]] = "none" /\ owner[r] \in Scopes
    BY DEF IInv, TypeOK, Visibility
  <2>2. owner[r] \notin E
    BY <1>8, <2>1
  <2> QED BY <1>1, <1>9, <2>1, <2>2
<1> QED BY <1>11, <1>12, <1>13, <1>14, <1>15, <1>16, <1>17, <1>21, <1>22, <1>23, <1>24, <1>25 DEF IInv

-----------------------------------------------------------------------------
(* The theorems.                                                             *)

\* A tree is a set of scopes.
LEMMA TreeType == \A s \in Scopes : Tree(s) \subseteq Subtree[s] /\ Tree(s) \subseteq Scopes
BY TreeAssumption DEF Tree

\* The initial values have the types of their variables.
LEMMA TypeInit == ASSUME Init PROVE TypeOK
<1>1. /\ phase \in [Scopes -> Phases] /\ aborted \subseteq Scopes
      /\ startup \in BOOLEAN /\ published \in BOOLEAN
      /\ foreground \in [Scopes -> Nat]
  BY TreeAssumption DEF Init, Phases
<1>2. /\ owner \in [Records -> Scopes] /\ kind \in [Records -> Kinds]
      /\ duty \in [Records -> Duties] /\ joining \subseteq Records
      /\ id \in [Records -> Nat] /\ sequence \in [Scopes -> Nat]
      /\ visible \subseteq Records
  BY TreeAssumption DEF Init, Kinds, Duties
<1>3. /\ calls \in Seq(Scopes) /\ reported \subseteq Scopes
      /\ work \in [Scopes -> Stages] /\ completion \in [Scopes -> Completions]
      /\ errors \in [Scopes -> BOOLEAN]
      /\ children \in [Scopes -> SUBSET Scopes]
      /\ awaiting \in [Scopes -> SUBSET Records]
  BY DEF Init, Stages, Completions
<1> QED BY <1>1, <1>2, <1>3 DEF TypeOK

\* Every step keeps the types.
LEMMA TypeStep == ASSUME TypeOK, [Next]_vars PROVE TypeOK'
<1> USE DEF TypeOK, Phases, Kinds, Duties, Held, Stages, Completions,
        treeVars, recordVars, shutVars, vars
<1>1. CASE UNCHANGED vars
  BY <1>1
<1>2. ASSUME NEW s \in Scopes, Admit(s) PROVE TypeOK'
  <2>1. CASE \E c \in Scopes : Child(s, c)
    BY <2>1 DEF Child
  <2>2. CASE \E r \in Records : Own(s, r)
    BY <2>2 DEF Own, Register, Number
  <2>3. CASE \E r \in Records : Interrupt(s, r)
    BY <2>3 DEF Interrupt, Register, Number
  <2>4. CASE \E r \in Records : Spawn(s, r)
    BY <2>4 DEF Spawn, Register
  <2>5. CASE \E r \in Records : Acquire(s, r)
    BY <2>5 DEF Acquire, Register
  <2>6. CASE \E r \in Records : Stage(s, r)
    BY <2>6 DEF Stage, Register, Number
  <2>7. CASE Borrow(s)
    BY <2>7 DEF Borrow
  <2> QED BY <1>2, <2>1, <2>2, <2>3, <2>4, <2>5, <2>6, <2>7 DEF Admit
<1>3. ASSUME NEW s \in Scopes, FinishStep(s) PROVE TypeOK'
  <2>1. CASE FinishBegins(s)
    BY <2>1 DEF FinishBegins, At, Children, Interrupts, Publications, Owed, Failed
  <2>2. CASE InterruptsEnd(s)
    BY <2>2 DEF InterruptsEnd, At, Failed, Tasks, Owed
  <2>3. CASE TasksEnd(s)
    BY <2>3 DEF TasksEnd, At, Acquisitions
  <2>4. CASE AcquisitionsEnd(s)
    BY <2>4 DEF AcquisitionsEnd, At
  <2>5. CASE ChildrenEnd(s)
    <3>1. work' \in [Scopes -> Stages] /\ errors' \in [Scopes -> BOOLEAN]
      BY <2>5 DEF ChildrenEnd
    <3>2. Cleanups(s) \subseteq Records
      BY DEF Cleanups, Owed
    <3>3. awaiting' \in [Scopes -> SUBSET Records]
      BY <2>5, <3>2 DEF ChildrenEnd
    <3> QED BY <2>5, <3>1, <3>3 DEF ChildrenEnd
  <2>6. CASE CleanupStarts(s)
    BY <2>6 DEF CleanupStarts, At
  <2>7. CASE CleanupEnds(s)
    BY <2>7 DEF CleanupEnds, At
  <2>8. CASE Finish(s)
    BY <2>8 DEF Finish, At, Answer
  <2> QED BY <1>3, <2>1, <2>2, <2>3, <2>4, <2>5, <2>6, <2>7, <2>8 DEF FinishStep
<1>4. ASSUME NEW s \in Scopes, Return(s) PROVE TypeOK'
  BY <1>4 DEF Return
<1>5. ASSUME NEW s \in Scopes, Dispose(s) PROVE TypeOK'
  <2>1. phase' \in [Scopes -> Phases]
    <3>1. \A u \in Scopes : Blocked(u) \in [Scopes -> Phases]
      BY DEF Blocked
    <3> QED BY <1>5, <3>1, TreeAssumption DEF Dispose
  <2>2. /\ work' \in [Scopes -> Stages] /\ completion' \in [Scopes -> Completions]
        /\ startup' \in BOOLEAN /\ visible' \subseteq Records
    BY <1>5 DEF Dispose
  <2>5. calls' \in Seq(Scopes)
    BY <1>5 DEF Dispose
  <2>3. duty' \in [Records -> Duties]
    BY <1>5 DEF Dispose
  <2>4. reported' \subseteq Scopes
    <3>1. Withdrawn(s) \subseteq Records
      BY DEF Withdrawn, Publications, Owed
    <3> QED BY <1>5, <3>1 DEF Dispose
  <2> QED BY <1>5, <2>1, <2>2, <2>3, <2>4, <2>5 DEF Dispose
<1>6. ASSUME NEW s \in Scopes, Deadline(s) PROVE TypeOK'
  BY <1>6 DEF Deadline, Blocked
<1>7. ASSUME NEW r \in Records, ReleaseEarly(r) \/ Forget(r) \/ Detach(r) PROVE TypeOK'
  BY <1>7 DEF ReleaseEarly, Forget, Detach
<1>8. ASSUME NEW r \in Records, Callback(r) PROVE TypeOK'
  <2>1. CASE ReleaseDone(r)
    BY <2>1 DEF ReleaseDone, Leave
  <2>2. CASE ReleaseFails(r)
    BY <2>2 DEF ReleaseFails, Leave, Report, Blocked
  <2>3. CASE TaskSettles(r)
    BY <2>3 DEF TaskSettles
  <2>4. CASE AcquireResolves(r)
    <3>1. /\ kind' \in [Records -> Kinds] /\ id' \in [Records -> Nat]
          /\ sequence' \in [Scopes -> Nat]
      BY <2>4 DEF AcquireResolves, Number
    <3>2. duty' \in [Records -> Duties] /\ joining' \subseteq Records
      BY <2>4 DEF AcquireResolves, Leave
    <3> QED BY <2>4, <3>1, <3>2 DEF AcquireResolves
  <2>5. CASE AcquireRejects(r)
    BY <2>5 DEF AcquireRejects, Leave
  <2> QED BY <1>8, <2>1, <2>2, <2>3, <2>4, <2>5 DEF Callback
<1>9. CASE Publish \/ StartupAborts \/ Seal
  <2>1. CASE Publish
    <3>1. visible' \subseteq Records
      BY <2>1 DEF Publish, Publications, Owed
    <3> QED BY <2>1, <3>1 DEF Publish
  <2>2. CASE StartupAborts
    BY <2>2, TreeAssumption, TreeType DEF StartupAborts, Blocked
  <2>3. CASE Seal
    BY <2>3 DEF Seal, Blocked
  <2> QED BY <1>9, <2>1, <2>2, <2>3
<1>10. CASE Broadcast
  <2>1. Head(calls) \in Scopes /\ Tail(calls) \in Seq(Scopes)
    BY <1>10 DEF Broadcast
  <2> QED BY <1>10, <2>1, TreeType DEF Broadcast
<1> QED
  BY <1>1, <1>2, <1>3, <1>4, <1>5, <1>6, <1>7, <1>8, <1>9, <1>10 DEF Next

\* Every variable keeps its type, whatever the tree and the records are.
THEOREM TypeCorrect == Spec => []TypeOK
BY TypeInit, TypeStep, PTL DEF Spec

\* A root that owns nothing satisfies the invariant.
LEMMA InvariantInit == ASSUME Init PROVE IInv
<1>1. TypeOK
  BY TypeInit
<1>2. \A s \in Scopes : \A t \in Subtree[s] : t \in Scopes /\ (t = Root => s = Root)
  BY TreeAssumption
<1> USE DEF Init
<1>3. Lifecycle /\ Borrows /\ Cancellation /\ Visibility
  BY DEF Lifecycle, Settled, TimedOut, Borrows, Cancellation, Visibility
<1>4. Descent
  BY <1>2 DEF Descent, Attached
<1>5. Shape /\ Numbering /\ Reports /\ Withdrawal
  BY DEF Shape, DutiesOf, Numbering, Numbered, Reports, TimedOut, Settled, Withdrawal, Mine
<1>6. Joins /\ Releases
  BY DEF Joins, InterruptsJoined, TasksJoined, AcquisitionsJoined, Mine, Releases,
         PastInterrupts, PastTasks, PastAcquisitions
<1>7. Offspring
  <2>1. \A c \in Scopes \ {Root} : Parent[c] \in Scopes
    BY TreeAssumption
  <2> QED BY <2>1 DEF Offspring
<1> QED BY <1>1, <1>3, <1>4, <1>5, <1>6, <1>7 DEF IInv

\* Every step of the shutdown protocol preserves the invariant.
LEMMA InvariantStep == ASSUME IInv, [Next]_vars PROVE IInv'
<1>1. TypeOK'
  BY TypeStep DEF IInv
<1>2. CASE UNCHANGED vars
  <2>1. Borrows'
    BY <1>2 DEF vars, treeVars, shutVars, IInv, Borrows
  <2> QED BY <1>1, <1>2, <2>1, BorrowedFrame DEF vars, treeVars
<1>3. ASSUME NEW s \in Scopes, Admit(s) PROVE IInv'
  BY <1>1, <1>3, ChildStep, OwnStep, InterruptStep, SpawnStep, AcquireStep, StageStep,
     BorrowStep DEF Admit
<1>4. ASSUME NEW s \in Scopes, Return(s) \/ Dispose(s) \/ Deadline(s) PROVE IInv'
  BY <1>1, <1>4, ReturnStep, DisposeStep, DeadlineStep
<1>5. ASSUME NEW s \in Scopes, FinishStep(s) PROVE IInv'
  BY <1>1, <1>5, FinishBeginsStep, InterruptsEndStep, TasksEndStep, AcquisitionsEndStep,
     ChildrenEndStep, CleanupStartsStep, CleanupEndsStep, FinishEndsStep DEF FinishStep
<1>6. ASSUME NEW r \in Records, ReleaseEarly(r) \/ Forget(r) \/ Detach(r) PROVE IInv'
  BY <1>1, <1>6, ReleaseEarlyStep, ForgetStep, DetachStep
<1>7. ASSUME NEW r \in Records, Callback(r) PROVE IInv'
  BY <1>1, <1>7, ReleaseDoneStep, ReleaseFailsStep, TaskSettlesStep, AcquireResolvesStep,
     AcquireRejectsStep DEF Callback
<1>8. CASE Publish \/ StartupAborts \/ Seal \/ Broadcast
  BY <1>1, <1>8, PublishStep, CloseStep, BroadcastStep
<1> QED BY <1>2, <1>3, <1>4, <1>5, <1>6, <1>7, <1>8 DEF Next

\* The books of the shutdown protocol always agree (what the awaits of
\* #finishShutdown have left behind, scope by scope and record by record).
THEOREM Invariance == Spec => []IInv
BY InvariantInit, InvariantStep, PTL DEF Spec

\* A disposed scope is empty and so is everything below it.
LEMMA DisposedTreeIsEmpty == ASSUME IInv PROVE DisposedIsEmpty
<1> SUFFICES ASSUME NEW s \in Scopes, phase[s] = "disposed"
             PROVE  /\ \A r \in Records : owner[r] \in Subtree[s] =>
                          duty[r] \in {"free", "settled"} /\ r \notin joining
                    /\ \A t \in Subtree[s] : phase[t] \in {"absent", "disposed"}
  BY DEF DisposedIsEmpty
<1>1. \A t \in Subtree[s] : t \in Scopes /\ phase[t] \in {"absent", "disposed"}
  BY TreeAssumption DEF IInv, Descent
<1>2. ASSUME NEW r \in Records, owner[r] \in Subtree[s]
      PROVE  duty[r] \in {"free", "settled"}
  <2>1. CASE phase[owner[r]] = "absent"
    BY <2>1 DEF IInv, Shape
  <2>2. CASE phase[owner[r]] = "disposed"
    BY <1>1, <1>2, <2>2 DEF IInv, Lifecycle, Releases, Emptied
  <2> QED BY <1>1, <1>2, <2>1, <2>2
<1> QED BY <1>1, <1>2 DEF IInv, Shape

\* A scope that is reported as disposed is really gone: nothing below it is
\* owed, failed or half done (lifetime.ts #finishShutdown).
THEOREM DisposedIsReallyEmpty == Spec => []DisposedIsEmpty
BY Invariance, DisposedTreeIsEmpty, PTL

\* A failed release keeps everything above its owner from ending well.
THEOREM FailuresEscalate == Spec => []FailureEscalates
<1>1. IInv => FailureEscalates
  BY DisposedTreeIsEmpty DEF IInv, Lifecycle, FailureEscalates, DisposedIsEmpty
<1> QED BY <1>1, Invariance, PTL

\* Joins are reserved, and work is cancelled, for a whole tree at a time.
THEOREM JoinsAreReserved == Spec => []JoinsReserved
<1>1. IInv => JoinsReserved
  <2>1. \A s \in Scopes : Cancelled(s) <=> \A t \in Subtree[s] : Attached(t) => t \in aborted
    BY DEF Cancelled
  <2> QED BY <2>1 DEF IInv, Descent, Cancellation, JoinsReserved
<1> QED BY <1>1, Invariance, PTL

\* A borrow keeps everything above it from being disposed.
THEOREM BorrowsKeepOpen == Spec => []BorrowKeepsOpen
<1>1. IInv => BorrowKeepsOpen
  BY DEF IInv, Borrows, BorrowKeepsOpen
<1> QED BY <1>1, Invariance, PTL

\* Resources are released only when nothing below the scope runs any more.
THEOREM ReleasesAwaitQuiescence == Spec => []ReleaseAfterQuiescence
<1>1. ASSUME IInv PROVE ReleaseAfterQuiescence
  <2> SUFFICES ASSUME NEW s \in Scopes, work[s] = "cleanups"
               PROVE  /\ \A t \in Subtree[s] \ {s} : phase[t] \in {"absent", "disposed"}
                      /\ Tasks(s) = {} /\ Acquisitions(s) = {}
                      /\ \A r \in Interrupts(s) : duty[r] = "failed"
                      /\ \A t \in Subtree[s] : foreground[t] = 0
    BY DEF ReleaseAfterQuiescence
  <2> USE DEF PastInterrupts, PastTasks, PastAcquisitions
  <2>1. ASSUME NEW t \in Subtree[s] \ {s} PROVE phase[t] \in {"absent", "disposed"}
    <3>1. PICK c \in Scopes \ {Root} : Parent[c] = s /\ t \in Subtree[c]
      BY TreeAssumption
    <3>2. phase[c] \in {"absent", "disposed"}
      BY <1>1, <3>1 DEF IInv, Offspring
    <3> QED BY <1>1, <3>1, <3>2 DEF IInv, Descent
  <2>2. Tasks(s) = {}
    BY <1>1 DEF IInv, Joins, TasksJoined, Tasks, Owed, Mine
  <2>3. Acquisitions(s) = {}
    BY <1>1 DEF IInv, TypeOK, Joins, AcquisitionsJoined, Acquisitions
  <2>4. \A r \in Interrupts(s) : duty[r] = "failed"
    BY <1>1 DEF IInv, Joins, InterruptsJoined, Interrupts, Owed, Mine
  <2>5. ASSUME NEW t \in Subtree[s] PROVE foreground[t] = 0
    <3>1. completion[s] # "none"
      BY <1>1 DEF IInv, Lifecycle
    <3>2. t \in Scopes
      BY TreeAssumption
    <3>3. ~(foreground[t] > 0)
      BY <1>1, <3>1, <3>2 DEF IInv, Borrows
    <3>4. foreground[t] \in Nat
      BY <1>1, <3>2 DEF IInv, TypeOK
    <3> HIDE DEF IInv
    <3> QED BY <3>3, <3>4
  <2> QED BY <2>1, <2>2, <2>3, <2>4, <2>5
<1> QED BY <1>1, Invariance, PTL

\* The release loop misses no cleanup and never runs one out of order.
THEOREM ReleasesAreLifo == Spec => []ReleaseIsLifo
<1>1. ASSUME IInv PROVE ReleaseIsLifo
  BY <1>1 DEF IInv, Releases, Released, Mine, Cleanups, Owed, ReleaseIsLifo
<1> QED BY <1>1, Invariance, PTL

\* What dispose() answers, the phase and the reports tell the same story.
THEOREM VerdictsAreTrue == Spec => []VerdictIsTrue
<1>1. ASSUME IInv PROVE VerdictIsTrue
  BY <1>1 DEF IInv, Lifecycle, Reports, VerdictIsTrue
<1> QED BY <1>1, Invariance, PTL

\* Shutdown reports the truth: of emptiness, of failures and of quarantine.
THEOREM ShutdownsAreHonest == Spec => []HonestShutdown
BY DisposedIsReallyEmpty, FailuresEscalate, VerdictsAreTrue, PTL DEF HonestShutdown

\* Consumers see no publication of a scope that shuts down.
THEOREM WithdrawnIsInvisible == Spec => []NothingVisibleAfterWithdrawal
<1>1. IInv => NothingVisibleAfterWithdrawal
  BY DEF IInv, Visibility, NothingVisibleAfterWithdrawal
<1> QED BY <1>1, Invariance, PTL

-----------------------------------------------------------------------------
(* What a step of Lifetime may never do, and that Lifetime implements the   *)
(* abstract owner of Ownership.                                            *)

\* A failed record stays failed and a settled one settled; dispose() withdraws
\* only what has not failed yet.
LEMMA FailureStep ==
  ASSUME IInv, [Next]_vars, NEW r \in Records
  PROVE  /\ duty[r] = "failed" => duty'[r] = "failed" /\ owner'[r] = owner[r]
         /\ duty[r] = "settled" => duty'[r] = "settled"
<1> USE DEF IInv, TypeOK, recordVars
<1>1. CASE UNCHANGED vars
  BY <1>1 DEF vars
<1>2. ASSUME NEW s \in Scopes, Admit(s)
      PROVE  duty[r] \in {"failed", "settled"} => duty'[r] = duty[r] /\ owner'[r] = owner[r]
  BY <1>2 DEF Admit, Child, Own, Interrupt, Spawn, Acquire, Stage, Borrow, Register
<1>3. ASSUME NEW s \in Scopes, Return(s) \/ Deadline(s)
      PROVE  duty'[r] = duty[r] /\ owner'[r] = owner[r]
  BY <1>3 DEF Return, Deadline
<1>4. ASSUME NEW s \in Scopes, Dispose(s)
      PROVE  duty[r] \in {"failed", "settled"} => duty'[r] = duty[r] /\ owner'[r] = owner[r]
  <2>1. r \in Withdrawn(s) => duty[r] \notin {"failed", "settled"}
    BY DEF Withdrawn, Entering, Publications, Owed, Withdrawal, Mine
  <2>2. owner' = owner /\ (r \notin Withdrawn(s) => duty'[r] = duty[r])
    BY <1>4 DEF Dispose
  <2> QED BY <2>1, <2>2
<1>5. ASSUME NEW s \in Scopes, FinishStep(s)
      PROVE  duty[r] \in {"failed", "settled"} => duty'[r] = duty[r] /\ owner'[r] = owner[r]
  <2>1. CASE FinishBegins(s)
    BY <2>1 DEF FinishBegins, Held
  <2>2. CASE InterruptsEnd(s) \/ TasksEnd(s) \/ AcquisitionsEnd(s) \/ ChildrenEnd(s)
    BY <2>2 DEF InterruptsEnd, TasksEnd, AcquisitionsEnd, ChildrenEnd
  <2>3. CASE CleanupStarts(s)
    BY <2>3 DEF CleanupStarts, Held
  <2>4. CASE CleanupEnds(s) \/ Finish(s)
    BY <2>4 DEF CleanupEnds, Finish
  <2> QED BY <1>5, <2>1, <2>2, <2>3, <2>4 DEF FinishStep
<1>6. ASSUME NEW q \in Records, ReleaseEarly(q) \/ Forget(q) \/ Detach(q) \/ Callback(q)
      PROVE  duty[r] \in {"failed", "settled"} => duty'[r] = duty[r] /\ owner'[r] = owner[r]
  BY <1>6 DEF ReleaseEarly, Forget, Detach, Callback, ReleaseDone, ReleaseFails,
              TaskSettles, AcquireResolves, AcquireRejects
<1>7. CASE Publish \/ StartupAborts \/ Seal \/ Broadcast
  BY <1>7 DEF Publish, StartupAborts, Seal, Broadcast
<1> QED BY <1>1, <1>2, <1>3, <1>4, <1>5, <1>6, <1>7 DEF Next

\* A failed release is never retried, forgotten or given away.
THEOREM FailuresAreForever == Spec => FailedIsForever
<1>1. IInv /\ [Next]_vars =>
        [\A r \in Records :
           /\ duty[r] = "failed" => duty'[r] = "failed" /\ owner'[r] = owner[r]
           /\ duty[r] = "settled" => duty'[r] = "settled"]_vars
  BY FailureStep
<1> QED BY <1>1, Invariance, PTL DEF Spec, FailedIsForever

\* What a step may do to the phase and to the completion of a scope.
OneWay(s) ==
    /\ phase[s] = "disposed" => phase'[s] = "disposed"
    /\ phase[s] \in Phases \ {"absent", "active"} => phase'[s] \notin {"absent", "active"}
    /\ phase[s] = "quarantined" => phase'[s] \in {"quarantined", "disposed"}
    /\ completion[s] \in {"resolved", "rejected"} => completion'[s] = completion[s]

\* Sealing only takes active scopes out of service.
LEMMA BlockingIsOneWay ==
  ASSUME IInv, NEW u \in Scopes, phase' = Blocked(u), completion' = completion,
         NEW s \in Scopes
  PROVE  OneWay(s)
BY BlockedIs DEF OneWay, Phases

\* Every step goes one way only.
LEMMA OneWayStep ==
  ASSUME IInv, [Next]_vars, NEW s \in Scopes
  PROVE  OneWay(s)
<1> USE DEF IInv, TypeOK, recordVars, treeVars, shutVars
<1>1. UNCHANGED <<phase, completion>> => OneWay(s)
  BY DEF OneWay
<1>2. ASSUME NEW u \in Scopes, Admit(u) PROVE OneWay(s)
  <2>1. CASE \E c \in Scopes : Child(u, c)
    BY <2>1 DEF Child, OneWay
  <2>2. CASE \E r \in Records : Own(u, r) \/ Interrupt(u, r) \/ Spawn(u, r)
                                \/ Acquire(u, r) \/ Stage(u, r)
    BY <1>1, <2>2 DEF Own, Interrupt, Spawn, Acquire, Stage
  <2>3. CASE Borrow(u)
    BY <1>1, <2>3 DEF Borrow
  <2> QED BY <1>2, <2>1, <2>2, <2>3 DEF Admit
<1>3. ASSUME NEW u \in Scopes, Return(u) PROVE OneWay(s)
  BY <1>1, <1>3 DEF Return
<1>4. ASSUME NEW u \in Scopes, Dispose(u) PROVE OneWay(s)
  <2>1. s \in Entering(u) => phase[s] \in {"active", "sealed"} /\ completion[s] = "none"
    BY <1>4, EnteringFacts DEF Dispose
  <2>2. s \in Entering(u) => phase'[s] = "disposing"
    BY <1>4 DEF Dispose
  <2>3. s \notin Entering(u) => completion'[s] = completion[s] /\
          \E v \in Scopes : phase'[s] = Blocked(v)[s]
    BY <1>4, TreeAssumption DEF Dispose
  <2>4. \A v \in Scopes : Blocked(v)[s] = phase[s] \/
          (phase[s] = "active" /\ Blocked(v)[s] = "sealed")
    BY BlockedIs
  <2> HIDE DEF IInv
  <2> QED BY <2>1, <2>2, <2>3, <2>4 DEF OneWay, Phases
<1>5. ASSUME NEW u \in Scopes, FinishStep(u) PROVE OneWay(s)
  <2>1. CASE Finish(u)
    <3>1. /\ phase[u] \notin {"absent", "active", "disposed"}
          /\ phase'[u] \in {"quarantined", "disposed"}
          /\ completion[u] \in {"resolved", "rejected"} => completion'[u] = completion[u]
          /\ s # u => phase'[s] = phase[s] /\ completion'[s] = completion[s]
      BY <2>1 DEF Finish, At, Lifecycle, Answer
    <3> HIDE DEF IInv
    <3> QED BY <1>1, <3>1 DEF OneWay
  <2>2. CASE FinishBegins(u) \/ InterruptsEnd(u) \/ TasksEnd(u) \/ AcquisitionsEnd(u)
    BY <1>1, <2>2 DEF FinishBegins, InterruptsEnd, TasksEnd, AcquisitionsEnd
  <2>3. CASE ChildrenEnd(u) \/ CleanupStarts(u) \/ CleanupEnds(u)
    BY <1>1, <2>3 DEF ChildrenEnd, CleanupStarts, CleanupEnds
  <2> QED BY <1>5, <2>1, <2>2, <2>3 DEF FinishStep
<1>6. ASSUME NEW u \in Scopes, Deadline(u) PROVE OneWay(s)
  <2>1. completion[u] = "pending" /\ phase[u] = "disposing"
    BY <1>6 DEF Deadline, Expires, Phases, Lifecycle, Settled, TimedOut
  <2>2. phase' = [Blocked(Root) EXCEPT ![u] = "quarantined"]
        /\ completion' = [completion EXCEPT ![u] = "rejected"]
    BY <1>6 DEF Deadline
  <2>3. Blocked(Root)[s] = phase[s] \/ (phase[s] = "active" /\ Blocked(Root)[s] = "sealed")
    BY BlockedIs, TreeAssumption
  <2>4. Blocked(Root) \in [Scopes -> {Blocked(Root)[t] : t \in Scopes}]
    BY DEF Blocked
  <2> QED BY <2>1, <2>2, <2>3, <2>4 DEF OneWay, Phases
<1>7. ASSUME NEW r \in Records, ReleaseEarly(r) \/ Forget(r) \/ Detach(r) PROVE OneWay(s)
  BY <1>1, <1>7 DEF ReleaseEarly, Forget, Detach
<1>8. ASSUME NEW r \in Records, Callback(r) PROVE OneWay(s)
  <2>1. CASE ReleaseFails(r)
    BY <2>1, BlockingIsOneWay, TreeAssumption DEF ReleaseFails, Report
  <2>2. CASE ReleaseDone(r) \/ TaskSettles(r) \/ AcquireResolves(r) \/ AcquireRejects(r)
    BY <1>1, <2>2 DEF ReleaseDone, TaskSettles, AcquireResolves, AcquireRejects
  <2> QED BY <1>8, <2>1, <2>2 DEF Callback
<1>9. CASE StartupAborts \/ Seal
  BY <1>9, BlockingIsOneWay, TreeAssumption DEF StartupAborts, Seal
<1>10. CASE Publish \/ Broadcast
  BY <1>1, <1>10 DEF Publish, Broadcast
<1>11. CASE UNCHANGED vars
  BY <1>1, <1>11 DEF vars
<1> QED BY <1>2, <1>3, <1>4, <1>5, <1>6, <1>7, <1>8, <1>9, <1>10, <1>11 DEF Next

\* A disposed scope stays disposed, a closed one closed, and an answer to the
\* callers of dispose() is never taken back.
THEOREM ShutdownsAreOneWay == Spec => ShutdownIsOneWay
<1>1. IInv /\ [Next]_vars =>
        [\A s \in Scopes :
           /\ phase[s] = "disposed" => phase'[s] = "disposed"
           /\ phase[s] \in Phases \ {"absent", "active"} =>
                phase'[s] \notin {"absent", "active"}
           /\ phase[s] = "quarantined" => phase'[s] \in {"quarantined", "disposed"}
           /\ completion[s] \in {"resolved", "rejected"} =>
                completion'[s] = completion[s]]_vars
  BY OneWayStep DEF OneWay
<1> QED BY <1>1, Invariance, PTL DEF Spec, ShutdownIsOneWay

\* The abstract state of a scope and of a record.
LEMMA AbstractState ==
  /\ ScopeState = [s \in Scopes |-> OpenState(phase[s])]
  /\ ScopeState' = [s \in Scopes |-> OpenState(phase'[s])]
  /\ RecordDebt = [r \in Records |-> DebtOf(duty[r])]
  /\ RecordDebt' = [r \in Records |-> DebtOf(duty'[r])]
BY DEF ScopeState, RecordDebt, OpenState, DebtOf

\* What a step does to the debts and to the open scopes.
Ends(paid, lost) ==
    \A r \in Records :
        /\ r \in paid \union lost => DebtOf(duty[r]) = "owed"
        /\ DebtOf(duty'[r]) = CASE r \in lost -> "lost"
                                [] r \in paid -> "paid"
                                [] OTHER      -> DebtOf(duty[r])
Closes(closing) ==
    /\ \A s \in closing : \A t \in Subtree[s] : OpenState(phase[t]) = "open" => t \in closing
    /\ \A s \in Scopes : OpenState(phase'[s]) =
         IF s \in closing /\ OpenState(phase[s]) = "open" THEN "closed" ELSE OpenState(phase[s])

\* A step that ends some debts and closes some scopes is one of Ownership.
LEMMA ResolveStep ==
  ASSUME NEW paid \in SUBSET Records, NEW lost \in SUBSET Records,
         NEW closing \in SUBSET Scopes,
         Ends(paid, lost), Closes(closing), owner' = owner
  PROVE  Promise!Next
<1>1. \A s \in Scopes : Subtree[s] \subseteq Scopes
  BY TreeAssumption
<1>2. \A r \in paid \union lost : RecordDebt[r] = "owed"
  BY AbstractState DEF Ends
<1>3. RecordDebt' = [r \in Records |-> CASE r \in lost -> "lost"
                                         [] r \in paid -> "paid"
                                         [] OTHER      -> RecordDebt[r]]
  BY AbstractState DEF Ends
<1>4. \A s \in closing : \A t \in Subtree[s] : ScopeState[t] = "open" => t \in closing
  BY <1>1, AbstractState DEF Closes
<1>5. ScopeState' = [s \in Scopes |->
         IF s \in closing /\ ScopeState[s] = "open" THEN "closed" ELSE ScopeState[s]]
  BY AbstractState DEF Closes
<1>6. Promise!Resolve(paid, lost, closing)
  BY <1>2, <1>3, <1>4, <1>5 DEF Promise!Resolve
<1> QED BY <1>6 DEF Promise!Next

\* Unchanged phases close nothing.
LEMMA NothingCloses == ASSUME phase' = phase PROVE Closes({})
BY DEF Closes

\* Unchanged duties are unchanged debts.
LEMMA SameDebts ==
  ASSUME duty' = duty PROVE \A r \in Records : DebtOf(duty'[r]) = DebtOf(duty[r])
OBVIOUS

\* A step that changes neither an abstract state nor a debt is a stutter.
LEMMA Stutter ==
  ASSUME \A s \in Scopes : OpenState(phase'[s]) = OpenState(phase[s]),
         \A r \in Records : DebtOf(duty'[r]) = DebtOf(duty[r]),
         owner' = owner
  PROVE  UNCHANGED Promise!vars
BY AbstractState DEF Promise!vars

\* A record whose duty ends well pays a debt.
LEMMA Payment ==
  ASSUME IInv, NEW r \in Records, duty' = [duty EXCEPT ![r] = "settled"],
         duty[r] \notin {"free", "settled", "failed"}, phase' = phase, owner' = owner
  PROVE  Promise!Next
<1>1. \A q \in Records : duty'[q] = IF q = r THEN "settled" ELSE duty[q]
  BY DEF IInv, TypeOK
<1>2. Ends({r}, {})
  BY <1>1 DEF DebtOf, Ends
<1> QED BY <1>2, NothingCloses, ResolveStep

\* What an active scope takes on is a debt.
LEMMA Admission ==
  ASSUME IInv, NEW s \in Scopes, NEW r \in Records, NEW k \in Kinds,
         NEW d \in Held \union {"working", "staged"},
         AcceptsWork(s), Register(s, r, k, d), phase' = phase
  PROVE  Promise!Next
<1>1. \A q \in Records : duty'[q] = IF q = r THEN d ELSE duty[q]
  BY DEF IInv, TypeOK, Register
<1>2. DebtOf(d) = "owed" /\ DebtOf(duty[r]) = "free" /\ OpenState(phase[s]) = "open"
  BY DEF DebtOf, Held, OpenState, Register, AcceptsWork
<1>3. ScopeState' = ScopeState /\ ScopeState[s] = "open" /\ RecordDebt[r] = "free"
  BY <1>2, AbstractState
<1>4. RecordDebt' = [RecordDebt EXCEPT ![r] = "owed"]
  BY <1>1, <1>2, AbstractState
<1>5. Promise!Take(s, r)
  BY <1>3, <1>4 DEF Promise!Take, Register
<1> QED BY <1>5 DEF Promise!Next

\* Blocking the whole tree closes every open scope.
LEMMA Blockade == ASSUME IInv, phase' = Blocked(Root) PROVE Closes(Scopes)
<1>1. \A s \in Scopes : Subtree[s] \subseteq Scopes
  BY TreeAssumption
<1>2. \A s \in Scopes : phase'[s] = IF phase[s] = "active" THEN "sealed" ELSE phase[s]
  BY BlockedIs, TreeAssumption
<1> QED BY <1>1, <1>2 DEF OpenState, Closes

\* A child opens below open scopes.
LEMMA Opening ==
  ASSUME IInv, NEW s \in Scopes, NEW c \in Scopes, Child(s, c)
  PROVE  Promise!Next
<1>1. \A t \in Scopes \ {c} : c \in Subtree[t] => phase[t] = "active"
  <2> SUFFICES ASSUME NEW t \in Scopes \ {c}, c \in Subtree[t] PROVE phase[t] = "active"
    OBVIOUS
  <2>1. s \in Subtree[t]
    BY TreeAssumption DEF Child
  <2> QED BY <2>1 DEF Child, AcceptsWork, IInv, Descent
<1>2. phase[c] = "absent" /\ phase' = [phase EXCEPT ![c] = "active"]
      /\ duty' = duty /\ owner' = owner
  BY DEF Child, recordVars
<1>3. \A t \in Scopes : phase'[t] = IF t = c THEN "active" ELSE phase[t]
  BY <1>2 DEF IInv, TypeOK
<1>4. /\ OpenState("active") = "open" /\ OpenState("absent") = "absent"
  BY DEF OpenState
<1>5. /\ ScopeState[c] = "absent"
      /\ \A t \in Scopes \ {c} : c \in Subtree[t] => ScopeState[t] = "open"
  BY <1>1, <1>2, <1>4, AbstractState
<1>6. ScopeState' = [ScopeState EXCEPT ![c] = "open"] /\ RecordDebt' = RecordDebt
  BY <1>2, <1>3, <1>4, AbstractState
<1>7. Promise!Open(c)
  BY <1>2, <1>5, <1>6 DEF Promise!Open
<1> QED BY <1>7 DEF Promise!Next

\* dispose() closes a tree and ends the debts of its publications.
LEMMA Closing ==
  ASSUME IInv, NEW s \in Scopes, Dispose(s)
  PROVE  Promise!Next
<1> DEFINE E == Entering(s)
           W == Withdrawn(s)
<1>1. PICK bad \in SUBSET W :
        /\ duty' = [r \in Records |-> CASE r \in bad     -> "failed"
                                        [] r \in W \ bad -> "settled"
                                        [] OTHER         -> duty[r]]
        /\ phase' = [t \in Scopes |->
             IF t \in E THEN "disposing" ELSE Blocked(IF bad = {} THEN s ELSE Root)[t]]
  BY ZenonT(30) DEF Dispose
<1>2. owner' = owner /\ phase[s] \in {"active", "sealed"} /\ ~Busy(s)
  BY DEF Dispose
<1> DEFINE closing == Subtree[IF bad = {} THEN s ELSE Root]
<1>3. /\ Root \in Scopes /\ Subtree[Root] = Scopes /\ closing \subseteq Scopes
      /\ \A t \in closing : Subtree[t] \subseteq closing
  BY TreeAssumption
<1>4. /\ E \subseteq Subtree[s] /\ E \subseteq closing
      /\ \A t \in E : t \in Scopes /\ phase[t] \in {"active", "sealed"} /\ completion[t] = "none"
  BY <1>2, <1>3, EnteringFacts
<1>5. \A r \in W : r \in Records /\ duty[r] = "staged"
  <2>1. \A r \in W : /\ r \in Records /\ kind[r] = "publication"
                     /\ owner[r] \in E /\ duty[r] \notin {"free", "settled"}
    BY DEF Withdrawn, Publications, Owed
  <2> SUFFICES ASSUME NEW r \in W PROVE r \in Records /\ duty[r] = "staged"
    OBVIOUS
  <2>2. duty[r] \in {"staged", "settled", "failed"}
    BY <2>1 DEF IInv, Shape, DutiesOf
  <2>3. duty[r] # "failed"
    BY <1>4, <2>1 DEF IInv, Withdrawal, Mine
  <2> QED BY <2>1, <2>2, <2>3
<1> HIDE DEF E, W, closing
<1> DEFINE paid == W \ bad
<1>6. Ends(paid, bad)
  BY <1>1, <1>5 DEF DebtOf, Ends
<1>7. \A t \in Scopes : OpenState(phase'[t]) =
         IF t \in closing /\ OpenState(phase[t]) = "open" THEN "closed" ELSE OpenState(phase[t])
  <2> SUFFICES ASSUME NEW t \in Scopes
      PROVE  OpenState(phase'[t]) =
         IF t \in closing /\ OpenState(phase[t]) = "open" THEN "closed" ELSE OpenState(phase[t])
    OBVIOUS
  <2>1. CASE t \in E
    <3>1. phase'[t] = "disposing" /\ phase[t] \in {"active", "sealed"} /\ t \in closing
      BY <1>1, <1>4, <2>1
    <3> QED BY <3>1 DEF OpenState
  <2>2. CASE t \notin E
    <3>1. phase'[t] = IF t \in closing /\ phase[t] = "active" THEN "sealed" ELSE phase[t]
      BY <1>1, <1>3, <2>2, BlockedIs DEF closing
    <3> QED BY <3>1 DEF OpenState
  <2> QED BY <2>1, <2>2
<1>8. \A t \in closing : \A u \in Subtree[t] : OpenState(phase[u]) = "open" => u \in closing
  BY <1>3
<1>9. Closes(closing)
  BY <1>7, <1>8 DEF Closes
<1>10. paid \in SUBSET Records /\ bad \in SUBSET Records /\ closing \in SUBSET Scopes
  BY <1>3, <1>5
<1> HIDE DEF paid
<1> QED BY <1>2, <1>6, <1>9, <1>10, ResolveStep

\* A scope is disposed only when its whole tree owes nothing.
LEMMA Going ==
  ASSUME IInv, IInv', NEW s \in Scopes, Finish(s)
  PROVE  Promise!Next \/ UNCHANGED Promise!vars
<1>1. /\ phase' = [phase EXCEPT ![s] = IF errors[s] THEN "quarantined" ELSE "disposed"]
      /\ work[s] \in {"cleanups", "retained"}
      /\ duty' = duty /\ owner' = owner
  BY DEF Finish, At, recordVars
<1>2. phase[s] \in {"disposing", "quarantined"} /\ OpenState(phase[s]) = "closed"
  BY <1>1 DEF IInv, TypeOK, Phases, Lifecycle, OpenState
<1>3. \A t \in Scopes : phase'[t] = IF t # s THEN phase[t]
                                    ELSE IF errors[s] THEN "quarantined" ELSE "disposed"
  BY <1>1 DEF IInv, TypeOK
<1>4. OpenState("disposed") = "gone" /\ OpenState("quarantined") = "closed"
  BY DEF OpenState
<1>5. CASE errors[s]
  <2>1. \A t \in Scopes : OpenState(phase'[t]) = OpenState(phase[t])
    BY <1>2, <1>3, <1>4, <1>5
  <2> QED BY <1>1, <2>1, SameDebts, Stutter
<1>6. CASE ~errors[s]
  <2>1. DisposedIsEmpty'
    BY DisposedTreeIsEmpty, PTL
  <2>2. phase'[s] = "disposed"
    BY <1>3, <1>6
  <2>3. \A r \in Records : owner[r] \in Subtree[s] => duty[r] \in {"free", "settled"}
    BY <1>1, <2>1, <2>2 DEF DisposedIsEmpty
  <2>4. \A t \in Subtree[s] \ {s} : t \in Scopes /\ phase[t] \in {"absent", "disposed"}
    BY <1>3, <2>1, <2>2, TreeAssumption DEF DisposedIsEmpty
  <2>5. \A r \in Records : owner[r] \in Subtree[s] => RecordDebt[r] \in {"free", "paid"}
    BY <2>3, AbstractState DEF DebtOf
  <2>6. \A t \in Subtree[s] \ {s} : ScopeState[t] \in {"absent", "gone"}
    BY <2>4, AbstractState DEF OpenState
  <2>7. ScopeState[s] = "closed" /\ ScopeState' = [ScopeState EXCEPT ![s] = "gone"]
    BY <1>2, <1>3, <1>4, <1>6, AbstractState
  <2>8. RecordDebt' = RecordDebt
    BY <1>1, AbstractState
  <2>9. Promise!Go(s)
    BY <1>1, <2>5, <2>6, <2>7, <2>8 DEF Promise!Go
  <2> QED BY <2>9 DEF Promise!Next
<1> QED BY <1>5, <1>6

\* Every step of Lifetime is a step of Ownership or changes nothing there.
LEMMA PromiseStep ==
  ASSUME IInv, IInv', [Next]_vars
  PROVE  Promise!Next \/ UNCHANGED Promise!vars
<1> USE DEF treeVars, recordVars
<1>1. UNCHANGED <<phase, owner, duty>> => UNCHANGED Promise!vars
  BY Stutter
<1>2. ASSUME NEW s \in Scopes, Admit(s) PROVE Promise!Next \/ UNCHANGED Promise!vars
  <2>1. CASE \E c \in Scopes : Child(s, c)
    BY <2>1, Opening
  <2>2. CASE \E r \in Records : Own(s, r) \/ Interrupt(s, r) \/ Spawn(s, r)
                                \/ Acquire(s, r) \/ Stage(s, r)
    BY <2>2, Admission DEF Own, Interrupt, Spawn, Acquire, Stage, Kinds, Held
  <2>3. CASE Borrow(s)
    BY <1>1, <2>3 DEF Borrow
  <2> QED BY <1>2, <2>1, <2>2, <2>3 DEF Admit
<1>3. ASSUME NEW s \in Scopes, Return(s) PROVE UNCHANGED Promise!vars
  BY <1>1, <1>3 DEF Return
<1>4. ASSUME NEW s \in Scopes, Deadline(s) PROVE Promise!Next
  <2>1. completion[s] = "pending" /\ phase[s] = "disposing"
    BY <1>4 DEF IInv, TypeOK, Deadline, Expires, Phases, Lifecycle, Settled, TimedOut
  <2>2. /\ phase' = [Blocked(Root) EXCEPT ![s] = "quarantined"]
        /\ owner' = owner /\ duty' = duty
    BY <1>4 DEF Deadline
  <2>3. \A t \in Scopes : phase'[t] = IF t = s THEN "quarantined"
                                      ELSE IF phase[t] = "active" THEN "sealed" ELSE phase[t]
    <3>1. Blocked(Root) \in [Scopes -> {Blocked(Root)[t] : t \in Scopes}]
      BY DEF Blocked
    <3> QED BY <2>2, <3>1, BlockedIs, TreeAssumption
  <2>4. \A t \in Scopes : Subtree[t] \subseteq Scopes
    BY TreeAssumption
  <2>5. Closes(Scopes)
    BY <2>1, <2>3, <2>4 DEF Closes, OpenState
  <2>6. Ends({}, {})
    BY <2>2 DEF Ends
  <2> QED BY <2>2, <2>5, <2>6, ResolveStep
<1>5. ASSUME NEW s \in Scopes, FinishStep(s) PROVE Promise!Next \/ UNCHANGED Promise!vars
  <2>1. CASE FinishBegins(s)
    <3>1. \A r \in Records : DebtOf(duty'[r]) = DebtOf(duty[r])
      BY <2>1 DEF FinishBegins, Held, DebtOf
    <3> QED BY <2>1, <3>1, Stutter DEF FinishBegins
  <2>2. CASE InterruptsEnd(s) \/ TasksEnd(s) \/ AcquisitionsEnd(s) \/ ChildrenEnd(s)
    BY <1>1, <2>2 DEF InterruptsEnd, TasksEnd, AcquisitionsEnd, ChildrenEnd
  <2>3. CASE CleanupStarts(s)
    <3>1. \A r \in Records : DebtOf(duty'[r]) = DebtOf(duty[r])
      BY <2>3 DEF IInv, TypeOK, CleanupStarts, Held, DebtOf
    <3> QED BY <2>3, <3>1, Stutter DEF CleanupStarts
  <2>4. CASE CleanupEnds(s)
    BY <1>1, <2>4 DEF CleanupEnds
  <2>5. CASE Finish(s)
    BY <2>5, Going
  <2> QED BY <1>5, <2>1, <2>2, <2>3, <2>4, <2>5 DEF FinishStep
<1>6. ASSUME NEW r \in Records, ReleaseEarly(r) PROVE UNCHANGED Promise!vars
  <2>1. \A q \in Records : DebtOf(duty'[q]) = DebtOf(duty[q])
    BY <1>6 DEF IInv, TypeOK, ReleaseEarly, DebtOf
  <2> QED BY <1>6, <2>1, Stutter DEF ReleaseEarly
<1>7. ASSUME NEW r \in Records, Forget(r) \/ Detach(r) PROVE Promise!Next
  BY <1>7, Payment DEF Forget, Detach
<1>8. ASSUME NEW r \in Records, Callback(r) PROVE Promise!Next \/ UNCHANGED Promise!vars
  <2>1. CASE ReleaseDone(r) \/ TaskSettles(r) \/ AcquireRejects(r)
    BY <2>1, Payment DEF ReleaseDone, TaskSettles, AcquireRejects
  <2>2. CASE AcquireResolves(r)
    <3>1. \A q \in Records : DebtOf(duty'[q]) = DebtOf(duty[q])
      BY <2>2 DEF IInv, TypeOK, AcquireResolves, DebtOf
    <3> QED BY <2>2, <3>1, Stutter DEF AcquireResolves
  <2>3. CASE ReleaseFails(r)
    <3>1. Ends({}, {r})
      BY <2>3 DEF IInv, TypeOK, ReleaseFails, Ends, DebtOf
    <3>2. phase' = Blocked(Root) /\ owner' = owner
      BY <2>3 DEF ReleaseFails, Report
    <3> QED BY <3>1, <3>2, Blockade, ResolveStep
  <2> QED BY <1>8, <2>1, <2>2, <2>3 DEF Callback
<1>9. CASE StartupAborts \/ Seal
  <2>1. phase' = Blocked(Root) /\ owner' = owner /\ duty' = duty
    BY <1>9 DEF StartupAborts, Seal
  <2>2. Ends({}, {})
    BY <2>1 DEF Ends
  <2> QED BY <2>1, <2>2, Blockade, ResolveStep
<1>10. CASE Publish \/ Broadcast
  BY <1>1, <1>10 DEF Publish, Broadcast
<1>11. CASE UNCHANGED vars
  BY <1>1, <1>11 DEF vars
<1>12. ASSUME NEW s \in Scopes, Dispose(s) PROVE Promise!Next
  BY <1>12, Closing
<1> QED BY <1>2, <1>3, <1>4, <1>5, <1>6, <1>7, <1>8, <1>9, <1>10, <1>11, <1>12 DEF Next

\* The shutdown protocol implements the abstract owner: scopes are gone only
\* when their whole tree owes nothing, and lost debts stay lost.
THEOREM PromiseIsKept == Spec => KeepsPromise
<1>1. Init => Promise!Init
  BY AbstractState DEF Init, Promise!Init, OpenState, DebtOf
<1>2. IInv /\ IInv' /\ [Next]_vars => [Promise!Next]_(Promise!vars)
  BY PromiseStep
<1> QED BY <1>1, <1>2, Invariance, PTL DEF Spec, KeepsPromise, Promise!Spec

=============================================================================
