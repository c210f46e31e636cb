-------------------------- MODULE ObservationProofs --------------------------
(***************************************************************************)
(* Proofs about Observation, for any values and any number of writes: that  *)
(* its generations are serial and that what is closed is released.          *)
(*                                                                         *)
(* Neither is inductive.  That the last child is released before there is   *)
(* another rests on who may call whom while what runs (Control), that a     *)
(* closed observation stays released on which drain its disposal has joined *)
(* (Joining), and that there are not more children than Children on how     *)
(* many changes there are still to react to (Supply).                       *)
(***************************************************************************)
EXTENDS Observation, TLAPS

Count(condition) == IF condition THEN 1 ELSE 0
Draining == drain \in {"running", "waiting", "releasing"}

\* The foreign code that runs was called by observe() or by its running drain.
Control ==
    /\ Starting => call # "none" /\ drain = "none" /\ ~task
    /\ call # "none" => Starting \/ (constructed = "ready" /\ drain = "running")
    /\ call \in {"subscribe", "spawn"} => Starting
    /\ constructed = "ready" => drain # "none"
    /\ constructed = "failed" => drain = "none" /\ ~task
    /\ call = "subscribe" => subscription = "none"
    /\ constructed = "ready" => made # 0
    /\ Starting => (made = 0 <=> call \in {"subscribe", "child"})

\* A child is made when all before it are gone, and observed while it is whole.
Generations ==
    /\ \A c \in Children : c < made => child[c] = "released"
    /\ call = "child" => Released(made)
    /\ call = "observer" => made # 0 /\ child[made] = "open"
    /\ call \notin {"none", "spawn"} => observed = None
    /\ phase # "active" => observed = None /\ ~dirty
    /\ observed # None => /\ made # 0 /\ reading = observed
                          /\ child[made] = "open" \/ drain = "releasing"

\* What is called for a child, being replaced, dirty, or owed takes a write.
Supply ==
    /\ subscription = "none" => ~owed
    /\ made + Count(call \in {"subscribe", "child"} \/ drain = "releasing") + Count(dirty)
            + Count(owed)
         <= writes + 1

\* Disposal has joined the drain it found, and no other begins.
Joining ==
    /\ disposal = "none" <=> work = "none"
    /\ disposal \in Outcomes <=> work = "over"
    /\ work # "none" => phase = "disposed"
    /\ work \in {"none", "deferred"} => subscription \in {"none", "held"} /\ (task <=> Draining)
    /\ work \in {"joining", "releasing", "over"} =>
         /\ ~Starting /\ ~task /\ subscription # "held"
         /\ subscription = "failed" => errors
         /\ Draining => joined
    /\ work \in {"releasing", "over"} => ~Draining

\* What the answer of a disposal says.
Answered ==
    work = "over" =>
        /\ Settled(made)
        /\ disposal = "done" => ~errors /\ ~Current(made)

\* TypeOK in three parts.
Called ==
    /\ constructed \in {"starting", "ready", "failed"}
    /\ call \in {"none", "subscribe", "child", "observer", "spawn"}
    /\ phase \in {"active", "stopped", "disposed"}
    /\ drain \in {"none", "running", "waiting", "releasing", "stopping"} \union Outcomes
    /\ task \in BOOLEAN
Viewed ==
    /\ source \in Values /\ writes \in 0..MaxWrites /\ owed \in BOOLEAN
    /\ reading \in Values \union {None} /\ observed \in Values \union {None}
    /\ dirty \in BOOLEAN
    /\ made \in 0..(MaxWrites + 1)
    /\ child \in [Children -> {"none", "open", "releasing", "released", "failed"}]
Ended ==
    /\ subscription \in {"none", "held", "ended", "failed"}
    /\ aborted \in BOOLEAN
    /\ owner \in {"open", "closing"} /\ registered \in BOOLEAN /\ asked \in BOOLEAN
    /\ closing \in {"none", "pending"} \union Outcomes
    /\ disposal \in {"none", "pending"} \union Outcomes
    /\ work \in {"none", "deferred", "joining", "releasing", "over"}
    /\ joined \in BOOLEAN /\ errors \in BOOLEAN

IInv == Called /\ Viewed /\ Ended /\ Control /\ Generations /\ Supply /\ Joining /\ Answered

-----------------------------------------------------------------------------
(* One lemma per action: every part holds after it.                        *)

LEMMA WriteStep == IInv /\ Write => IInv'
<1> SUFFICES ASSUME IInv, Write PROVE IInv'
  OBVIOUS
<1> USE ObservationAssumption DEF Write, Idle, sourceVars, callVars, childVars, ownerVars,
   closeVars
<1>1. Called'
  BY DEF IInv, Called
<1>2. Viewed'
  BY DEF IInv, Viewed
<1>3. Ended'
  BY DEF IInv, Ended
<1>4. Control'
  BY DEF IInv, Control, Starting
<1>5. Generations'
  BY DEF IInv, Generations, Released
<1>6. Supply'
  BY DEF IInv, Viewed, Supply, Count
<1>7. Joining'
  BY DEF IInv, Joining, Starting, Draining
<1>8. Answered'
  BY DEF IInv, Answered, Settled, Current
<1> QED  BY <1>1, <1>2, <1>3, <1>4, <1>5, <1>6, <1>7, <1>8 DEF IInv

LEMMA InvalidateStep == IInv /\ Invalidate => IInv'
<1> SUFFICES ASSUME IInv, Invalidate PROVE IInv'
  OBVIOUS
<1> USE ObservationAssumption DEF Invalidate, Awake, Idle, sourceVars, callVars, childVars,
   ownerVars, closeVars
<1>1. Called'
  BY DEF IInv, Called
<1>2. Viewed'
  BY DEF IInv, Viewed
<1>3. Ended'
  BY DEF IInv, Ended
<1>4. Control'
  BY DEF IInv, Control, Starting
<1>5. Generations'
  BY DEF IInv, Generations, Released
<1>6. Supply'
  BY DEF IInv, Viewed, Supply, Count
<1>7. Joining'
  BY DEF IInv, Joining, Starting, Draining
<1>8. Answered'
  BY DEF IInv, Answered, Settled, Current
<1> QED  BY <1>1, <1>2, <1>3, <1>4, <1>5, <1>6, <1>7, <1>8 DEF IInv

LEMMA SubscribedStep == IInv /\ Subscribed => IInv'
<1> SUFFICES ASSUME IInv, Subscribed PROVE IInv'
  OBVIOUS
<1> USE ObservationAssumption DEF Subscribed, Raise, Stop, StoppedTask, Continue, Starting,
   Idle, sourceVars, callVars, childVars, ownerVars, closeVars
<1>1. Called'
  BY DEF IInv, Called, Outcomes
<1>2. Viewed'
  BY DEF IInv, Viewed
<1>3. Ended'
  BY DEF IInv, Ended, Control, Joining
<1>4. Control'
  BY DEF IInv, Control
<1>5. Generations'
  BY DEF IInv, Control, Generations, Released
<1>6. Supply'
  BY DEF IInv, Viewed, Supply, Count
<1>7. Joining'
  BY DEF IInv, Control, Joining, Draining
<1>8. Answered'
  BY DEF IInv, Answered, Settled, Current
<1> QED  BY <1>1, <1>2, <1>3, <1>4, <1>5, <1>6, <1>7, <1>8 DEF IInv

LEMMA ChildMadeStep == IInv /\ ChildMade => IInv'
<1> SUFFICES ASSUME IInv, ChildMade PROVE IInv'
  OBVIOUS
<1> USE ObservationAssumption DEF ChildMade, Raise, Stop, StoppedTask, Continue, Starting,
   Idle, sourceVars, callVars, childVars, ownerVars, closeVars
<1>1. Called'
  BY DEF IInv, Called, Outcomes
<1>2. Viewed'
  BY DEF IInv, Viewed, Supply, Children, Count
<1>3. Ended'
  BY DEF IInv, Called, Ended, Control, Joining, Draining
<1>4. Control'
  BY DEF IInv, Viewed, Control
<1>5. Generations'
  BY DEF IInv, Viewed, Generations, Supply, Children, Released, Count
<1>6. Supply'
  BY DEF IInv, Control, Supply, Count
<1>7. Joining'
  BY DEF IInv, Joining, Draining
<1>8. Answered'
  BY DEF IInv, Control, Joining, Answered, Draining
<1> QED  BY <1>1, <1>2, <1>3, <1>4, <1>5, <1>6, <1>7, <1>8 DEF IInv

LEMMA CallFailsStep == IInv /\ CallFails => IInv'
<1> SUFFICES ASSUME IInv, CallFails PROVE IInv'
  OBVIOUS
<1> USE ObservationAssumption DEF CallFails, Raise, Stop, StoppedTask, Starting, Idle,
   sourceVars, callVars, childVars, ownerVars, closeVars
<1>1. Called'
  BY DEF IInv, Called, Outcomes
<1>2. Viewed'
  <2>1. UNCHANGED <<source, writes, owed, reading>>
    BY DEF CallFails, sourceVars
  <2>2. observed' \in Values \union {None} /\ dirty' \in BOOLEAN
    BY DEF IInv, Viewed, CallFails, Raise, Stop
  <2>3. CASE UNCHANGED childVars
    BY <2>1, <2>2, <2>3 DEF IInv, Viewed, childVars
  <2>4. CASE call = "child" /\ made' = made + 1 /\ child' = [child EXCEPT ![made + 1] = "open"]
    <3>1. made' \in 0..(MaxWrites + 1)
      BY <2>4, ObservationAssumption DEF IInv, Viewed, Supply, Count
    <3>2. child' \in [Children -> {"none", "open", "releasing", "released", "failed"}]
      BY <2>4 DEF IInv, Viewed
    <3> QED  BY <2>1, <2>2, <3>1, <3>2 DEF IInv, Viewed
  <2> QED  BY <2>3, <2>4 DEF CallFails
<1>3. Ended'
  BY DEF IInv, Called, Ended, Control, Joining
<1>4. Control'
  BY DEF IInv, Viewed, Control
<1>5. Generations'
  BY DEF IInv, Viewed, Generations, Children, Released
<1>6. Supply'
  BY DEF IInv, Viewed, Control, Supply, Count
<1>7. Joining'
  BY DEF IInv, Joining, Draining
<1>8. Answered'
  BY DEF IInv, Control, Joining, Answered, Draining
<1> QED  BY <1>1, <1>2, <1>3, <1>4, <1>5, <1>6, <1>7, <1>8 DEF IInv

LEMMA ObservesStep == IInv /\ Observes => IInv'
<1> SUFFICES ASSUME IInv, Observes PROVE IInv'
  OBVIOUS
<1> USE ObservationAssumption DEF Observes, Raise, Stop, StoppedTask, Continue, Starting,
   Dirt, Idle, sourceVars, callVars, childVars, ownerVars, closeVars
<1>1. Called'
  BY DEF IInv, Called
<1>2. Viewed'
  BY DEF IInv, Viewed
<1>3. Ended'
  BY DEF IInv, Called, Ended, Control, Joining, Draining
<1>4. Control'
  BY DEF IInv, Control
<1>5. Generations'
  BY DEF IInv, Generations
<1>6. Supply'
  BY DEF IInv, Supply
<1>7. Joining'
  BY DEF IInv, Joining, Draining
<1>8. Answered'
  BY DEF IInv, Answered, Settled, Current
<1> QED  BY <1>1, <1>2, <1>3, <1>4, <1>5, <1>6, <1>7, <1>8 DEF IInv

LEMMA SpawnedStep == IInv /\ Spawned => IInv'
<1> SUFFICES ASSUME IInv, Spawned PROVE IInv'
  OBVIOUS
<1> USE ObservationAssumption DEF Spawned, Idle, sourceVars, callVars, childVars,
   ownerVars, closeVars
<1>1. Called'
  BY DEF IInv, Called
<1>2. Viewed'
  BY DEF IInv, Viewed
<1>3. Ended'
  BY DEF IInv, Ended
<1>4. Control'
  BY DEF IInv, Control, Starting
<1>5. Generations'
  BY DEF IInv, Control, Generations
<1>6. Supply'
  BY DEF IInv, Viewed, Supply, Count
<1>7. Joining'
  BY DEF IInv, Control, Joining, Draining
<1>8. Answered'
  BY DEF IInv, Answered, Settled, Current
<1> QED  BY <1>1, <1>2, <1>3, <1>4, <1>5, <1>6, <1>7, <1>8 DEF IInv

LEMMA DrainEndsStep == IInv /\ DrainEnds => IInv'
<1> SUFFICES ASSUME IInv, DrainEnds PROVE IInv'
  OBVIOUS
<1> USE ObservationAssumption DEF DrainEnds, Idle, sourceVars, callVars, childVars,
   ownerVars, closeVars
<1>1. Called'
  BY DEF IInv, Called, Outcomes
<1>2. Viewed'
  BY DEF IInv, Viewed
<1>3. Ended'
  BY DEF IInv, Ended
<1>4. Control'
  BY DEF IInv, Control, Starting
<1>5. Generations'
  BY DEF IInv, Generations
<1>6. Supply'
  BY DEF IInv, Supply
<1>7. Joining'
  BY DEF IInv, Joining, Starting, Draining
<1>8. Answered'
  BY DEF IInv, Answered, Settled, Current
<1> QED  BY <1>1, <1>2, <1>3, <1>4, <1>5, <1>6, <1>7, <1>8 DEF IInv

LEMMA DrainWaitsStep == IInv /\ DrainWaits => IInv'
<1> SUFFICES ASSUME IInv, DrainWaits PROVE IInv'
  OBVIOUS
<1> USE ObservationAssumption DEF DrainWaits, Idle, sourceVars, callVars, childVars,
   ownerVars, closeVars
<1>1. Called'
  BY DEF IInv, Called
<1>2. Viewed'
  BY DEF IInv, Viewed
<1>3. Ended'
  BY DEF IInv, Ended
<1>4. Control'
  BY DEF IInv, Control, Starting
<1>5. Generations'
  BY DEF IInv, Generations
<1>6. Supply'
  BY DEF IInv, Supply
<1>7. Joining'
  BY DEF IInv, Joining, Draining
<1>8. Answered'
  BY DEF IInv, Answered, Settled, Current
<1> QED  BY <1>1, <1>2, <1>3, <1>4, <1>5, <1>6, <1>7, <1>8 DEF IInv

LEMMA ReplaceStep == IInv /\ Replace => IInv'
<1> SUFFICES ASSUME IInv, Replace PROVE IInv'
  OBVIOUS
<1> USE ObservationAssumption DEF Replace, ReleaseCurrent, Idle, sourceVars, callVars,
   childVars, ownerVars, closeVars
<1>1. Called'
  BY DEF IInv, Called
<1>2. Viewed'
  BY DEF IInv, Viewed
<1>3. Ended'
  BY DEF IInv, Ended
<1>4. Control'
  BY DEF IInv, Control, Starting
<1>5. Generations'
  BY DEF IInv, Viewed, Generations
<1>6. Supply'
  BY DEF IInv, Viewed, Supply, Count
<1>7. Joining'
  BY DEF IInv, Joining, Draining
<1>8. Answered'
  BY DEF IInv, Answered, Settled, Current
<1> QED  BY <1>1, <1>2, <1>3, <1>4, <1>5, <1>6, <1>7, <1>8 DEF IInv

LEMMA ReplaceFailsStep == IInv /\ ReplaceFails => IInv'
<1> SUFFICES ASSUME IInv, ReplaceFails PROVE IInv'
  OBVIOUS
<1> USE ObservationAssumption DEF ReplaceFails, Stop, StoppedTask, Idle, sourceVars,
   callVars, childVars, ownerVars, closeVars
<1>1. Called'
  BY DEF IInv, Called
<1>2. Viewed'
  BY DEF IInv, Viewed
<1>3. Ended'
  BY DEF IInv, Ended, Joining
<1>4. Control'
  BY DEF IInv, Control, Starting
<1>5. Generations'
  BY DEF IInv, Generations
<1>6. Supply'
  BY DEF IInv, Viewed, Supply, Count
<1>7. Joining'
  BY DEF IInv, Joining, Draining
<1>8. Answered'
  BY DEF IInv, Answered, Settled, Current
<1> QED  BY <1>1, <1>2, <1>3, <1>4, <1>5, <1>6, <1>7, <1>8 DEF IInv

LEMMA ReplacedStep == IInv /\ Replaced => IInv'
<1> SUFFICES ASSUME IInv, Replaced PROVE IInv'
  OBVIOUS
<1> USE ObservationAssumption DEF Replaced, Idle, sourceVars, callVars, childVars,
   ownerVars, closeVars
<1>1. Called'
  BY DEF IInv, Called
<1>2. Viewed'
  BY DEF IInv, Viewed
<1>3. Ended'
  BY DEF IInv, Ended
<1>4. Control'
  BY DEF IInv, Called, Control, Starting
<1>5. Generations'
  BY DEF IInv, Generations, Released
<1>6. Supply'
  BY DEF IInv, Viewed, Supply, Count
<1>7. Joining'
  BY DEF IInv, Joining, Starting, Draining
<1>8. Answered'
  BY DEF IInv, Answered, Settled, Current
<1> QED  BY <1>1, <1>2, <1>3, <1>4, <1>5, <1>6, <1>7, <1>8 DEF IInv

LEMMA ReleaseFailedStep == IInv /\ ReleaseFailed => IInv'
<1> SUFFICES ASSUME IInv, ReleaseFailed PROVE IInv'
  OBVIOUS
<1> USE ObservationAssumption DEF ReleaseFailed, Raise, Stop, StoppedTask, Starting,
   Current, Idle, sourceVars, callVars, childVars, ownerVars, closeVars
<1>1. Called'
  BY DEF IInv, Called, Outcomes
<1>2. Viewed'
  BY DEF IInv, Viewed
<1>3. Ended'
  BY DEF IInv, Called, Ended, Control, Joining
<1>4. Control'
  BY DEF IInv, Control
<1>5. Generations'
  BY DEF IInv, Generations
<1>6. Supply'
  BY DEF IInv, Viewed, Supply, Count
<1>7. Joining'
  BY DEF IInv, Joining, Draining
<1>8. Answered'
  BY DEF IInv, Answered, Settled
<1> QED  BY <1>1, <1>2, <1>3, <1>4, <1>5, <1>6, <1>7, <1>8 DEF IInv

LEMMA StopEndsStep == IInv /\ StopEnds => IInv'
<1> SUFFICES ASSUME IInv, StopEnds PROVE IInv'
  OBVIOUS
<1> USE ObservationAssumption DEF StopEnds, Idle, sourceVars, callVars, childVars,
   ownerVars, closeVars
<1>1. Called'
  BY DEF IInv, Called, Outcomes
<1>2. Viewed'
  BY DEF IInv, Viewed
<1>3. Ended'
  BY DEF IInv, Ended
<1>4. Control'
  BY DEF IInv, Control, Starting
<1>5. Generations'
  BY DEF IInv, Generations
<1>6. Supply'
  BY DEF IInv, Supply
<1>7. Joining'
  BY DEF IInv, Joining, Starting, Draining
<1>8. Answered'
  BY DEF IInv, Answered, Settled, Current
<1> QED  BY <1>1, <1>2, <1>3, <1>4, <1>5, <1>6, <1>7, <1>8 DEF IInv

LEMMA CloseStep == IInv /\ Close => IInv'
<1> SUFFICES ASSUME IInv, Close PROVE IInv'
  OBVIOUS
<1> USE ObservationAssumption DEF Close, Idle, sourceVars, callVars, childVars, ownerVars,
   closeVars
<1>1. Called'
  BY DEF IInv, Called
<1>2. Viewed'
  BY DEF IInv, Viewed
<1>3. Ended'
  BY DEF IInv, Ended
<1>4. Control'
  BY DEF IInv, Control, Starting
<1>5. Generations'
  BY DEF IInv, Generations, Released
<1>6. Supply'
  BY DEF IInv, Supply
<1>7. Joining'
  BY DEF IInv, Joining, Starting, Draining
<1>8. Answered'
  BY DEF IInv, Answered, Settled, Current
<1> QED  BY <1>1, <1>2, <1>3, <1>4, <1>5, <1>6, <1>7, <1>8 DEF IInv

LEMMA OwnerClosesStep == IInv /\ OwnerCloses => IInv'
<1> SUFFICES ASSUME IInv, OwnerCloses PROVE IInv'
  OBVIOUS
<1> USE ObservationAssumption DEF OwnerCloses, Awake, Idle, sourceVars, callVars,
   childVars, ownerVars, closeVars
<1>1. Called'
  BY DEF IInv, Called
<1>2. Viewed'
  BY DEF IInv, Viewed
<1>3. Ended'
  BY DEF IInv, Ended
<1>4. Control'
  BY DEF IInv, Control, Starting
<1>5. Generations'
  BY DEF IInv, Generations, Released
<1>6. Supply'
  BY DEF IInv, Supply
<1>7. Joining'
  BY DEF IInv, Joining, Starting, Draining
<1>8. Answered'
  BY DEF IInv, Answered, Settled, Current
<1> QED  BY <1>1, <1>2, <1>3, <1>4, <1>5, <1>6, <1>7, <1>8 DEF IInv

LEMMA DisposeStep == IInv /\ Dispose => IInv'
<1> SUFFICES ASSUME IInv, Dispose PROVE IInv'
  OBVIOUS
<1> USE ObservationAssumption DEF Dispose, Deferred, ReleaseResources, Awake, Idle,
   sourceVars, callVars, childVars, ownerVars, closeVars
<1>1. Called'
  BY DEF IInv, Called
<1>2. Viewed'
  BY DEF IInv, Viewed
<1>3. Ended'
  BY DEF IInv, Called, Ended
<1>4. Control'
  BY DEF IInv, Control, Starting
<1>5. Generations'
  BY DEF IInv, Generations, Released
<1>6. Supply'
  BY DEF IInv, Viewed, Supply, Count
<1>7. Joining'
  BY DEF IInv, Joining, Outcomes, Starting, Draining
<1>8. Answered'
  BY DEF IInv, Answered
<1> QED  BY <1>1, <1>2, <1>3, <1>4, <1>5, <1>6, <1>7, <1>8 DEF IInv

LEMMA DisposeDeferredStep == IInv /\ DisposeDeferred => IInv'
<1> SUFFICES ASSUME IInv, DisposeDeferred PROVE IInv'
  OBVIOUS
<1> USE ObservationAssumption DEF DisposeDeferred, ReleaseResources, Awake, Idle,
   sourceVars, callVars, childVars, ownerVars, closeVars
<1>1. Called'
  BY DEF IInv, Called
<1>2. Viewed'
  BY DEF IInv, Viewed
<1>3. Ended'
  BY DEF IInv, Called, Ended
<1>4. Control'
  BY DEF IInv, Control, Starting
<1>5. Generations'
  BY DEF IInv, Generations
<1>6. Supply'
  BY DEF IInv, Supply
<1>7. Joining'
  BY DEF IInv, Control, Joining, Starting, Draining
<1>8. Answered'
  BY DEF IInv, Answered
<1> QED  BY <1>1, <1>2, <1>3, <1>4, <1>5, <1>6, <1>7, <1>8 DEF IInv

LEMMA DrainJoinedStep == IInv /\ DrainJoined => IInv'
<1> SUFFICES ASSUME IInv, DrainJoined PROVE IInv'
  OBVIOUS
<1> USE ObservationAssumption DEF DrainJoined, ReleaseCurrent, Idle, sourceVars, callVars,
   childVars, ownerVars, closeVars
<1>1. Called'
  BY DEF IInv, Called
<1>2. Viewed'
  BY DEF IInv, Viewed
<1>3. Ended'
  BY DEF IInv, Ended
<1>4. Control'
  BY DEF IInv, Control, Starting
<1>5. Generations'
  BY DEF IInv, Generations, Joining
<1>6. Supply'
  BY DEF IInv, Supply
<1>7. Joining'
  BY DEF IInv, Joining, Outcomes, Starting, Draining
<1>8. Answered'
  BY DEF IInv, Answered
<1> QED  BY <1>1, <1>2, <1>3, <1>4, <1>5, <1>6, <1>7, <1>8 DEF IInv

LEMMA ChildReleasedStep == IInv /\ ChildReleased => IInv'
<1> SUFFICES ASSUME IInv, ChildReleased PROVE IInv'
  OBVIOUS
<1> USE ObservationAssumption DEF ChildReleased, Idle, sourceVars, callVars, childVars,
   ownerVars, closeVars
<1>1. Called'
  BY DEF IInv, Called
<1>2. Viewed'
  BY DEF IInv, Viewed
<1>3. Ended'
  BY DEF IInv, Ended
<1>4. Control'
  BY DEF IInv, Control, Starting
<1>5. Generations'
  BY DEF IInv, Generations
<1>6. Supply'
  BY DEF IInv, Supply
<1>7. Joining'
  BY DEF IInv, Joining, Starting, Draining
<1>8. Answered'
  BY DEF IInv, Answered, Settled
<1> QED  BY <1>1, <1>2, <1>3, <1>4, <1>5, <1>6, <1>7, <1>8 DEF IInv

LEMMA DisposedStep == IInv /\ Disposed => IInv'
<1> SUFFICES ASSUME IInv, Disposed PROVE IInv'
  OBVIOUS
<1> USE ObservationAssumption DEF Disposed, Current, Idle, sourceVars, callVars, childVars,
   ownerVars, closeVars
<1>1. Called'
  BY DEF IInv, Called
<1>2. Viewed'
  BY DEF IInv, Viewed
<1>3. Ended'
  BY DEF IInv, Ended, Outcomes
<1>4. Control'
  BY DEF IInv, Control, Starting
<1>5. Generations'
  BY DEF IInv, Generations
<1>6. Supply'
  BY DEF IInv, Supply
<1>7. Joining'
  BY DEF IInv, Joining, Outcomes, Starting, Draining
<1>8. Answered'
  BY DEF IInv, Answered, Settled
<1> QED  BY <1>1, <1>2, <1>3, <1>4, <1>5, <1>6, <1>7, <1>8 DEF IInv

LEMMA ClosedStep == IInv /\ Closed => IInv'
<1> SUFFICES ASSUME IInv, Closed PROVE IInv'
  OBVIOUS
<1> USE ObservationAssumption DEF Closed, Idle, sourceVars, callVars, childVars, ownerVars,
   closeVars
<1>1. Called'
  BY DEF IInv, Called
<1>2. Viewed'
  BY DEF IInv, Viewed
<1>3. Ended'
  BY DEF IInv, Ended
<1>4. Control'
  BY DEF IInv, Control, Starting
<1>5. Generations'
  BY DEF IInv, Generations
<1>6. Supply'
  BY DEF IInv, Supply
<1>7. Joining'
  BY DEF IInv, Joining, Starting, Draining
<1>8. Answered'
  BY DEF IInv, Answered, Settled, Current
<1> QED  BY <1>1, <1>2, <1>3, <1>4, <1>5, <1>6, <1>7, <1>8 DEF IInv

-----------------------------------------------------------------------------
LEMMA InitInvariant == Init => IInv
<1> SUFFICES ASSUME Init PROVE IInv
  OBVIOUS
<1> USE ObservationAssumption DEF Init
<1>1. Called /\ Viewed /\ Ended
  <2>1. Called
    BY DEF Called
  <2>2. Viewed
    <3>1. child \in [Children -> {"none", "open", "releasing", "released", "failed"}]
      OBVIOUS
    <3>2. writes \in 0..MaxWrites /\ made \in 0..(MaxWrites + 1)
      OBVIOUS
    <3> QED  BY <3>1, <3>2 DEF Viewed
  <2>3. Ended
    BY DEF Ended
  <2> QED  BY <2>1, <2>2, <2>3
<1>2. Control /\ Generations
  BY DEF Control, Generations, Starting, Released, Children
<1>3. Supply /\ Joining /\ Answered
  BY DEF Supply, Joining, Answered, Count, Draining, Outcomes, Starting
<1> QED  BY <1>1, <1>2, <1>3 DEF IInv

LEMMA StutterStep == IInv /\ UNCHANGED vars => IInv'
<1> SUFFICES ASSUME IInv, UNCHANGED vars PROVE IInv'
  OBVIOUS
<1> USE DEF IInv, vars, sourceVars, callVars, childVars, ownerVars, closeVars
<1>1. Called' /\ Viewed' /\ Ended'
  BY DEF Called, Viewed, Ended
<1>2. Control' /\ Generations'
  BY DEF Control, Generations, Starting, Released
<1>3. Supply' /\ Joining' /\ Answered'
  BY DEF Supply, Joining, Answered, Count, Draining, Starting, Settled, Current
<1> QED  BY <1>1, <1>2, <1>3

LEMMA InductiveInvariant == IInv /\ [Next]_vars => IInv'
<1> SUFFICES ASSUME IInv, [Next]_vars PROVE IInv'
  OBVIOUS
<1>1. CASE Returns
  BY <1>1, SubscribedStep, ChildMadeStep, CallFailsStep, ObservesStep, SpawnedStep DEF Returns
<1>2. CASE Drains
  BY <1>2, DrainEndsStep, DrainWaitsStep, ReplaceStep, ReplaceFailsStep, ReplacedStep,
     ReleaseFailedStep, StopEndsStep DEF Drains
<1>3. CASE Disposals
  BY <1>3, DisposeStep, DisposeDeferredStep, DrainJoinedStep, DisposedStep, ClosedStep
     DEF Disposals
<1>4. CASE Write \/ Invalidate \/ Close \/ OwnerCloses \/ ChildReleased
  BY <1>4, WriteStep, InvalidateStep, CloseStep, OwnerClosesStep, ChildReleasedStep
<1>5. CASE UNCHANGED vars
  BY <1>5, StutterStep
<1> QED  BY <1>1, <1>2, <1>3, <1>4, <1>5 DEF Next

\* In every reachable state foreign code is called by whoever may call it, children
\* are made one after the other, and a disposal has joined the drain it found; there
\* are never more children than the writes account for (observe.ts).
THEOREM Invariance == Spec => []IInv
<1> QED  BY InitInvariant, InductiveInvariant, PTL DEF Spec

\* Every variable keeps its type; in particular the children that MaxWrites allows are
\* enough, since each replacement takes a write (observe.ts 158-179).
THEOREM TypeCorrect == Spec => []TypeOK
<1>1. IInv => TypeOK
  BY DEF IInv, Called, Viewed, Ended, TypeOK
<1> QED  BY Invariance, <1>1, PTL

\* Generations never overlap, and what counts as observed belongs to a child that is
\* whole or being replaced, for any values and any number of writes (196-214).
THEOREM GenerationsNeverOverlap == Spec => []GenerationsAreSerial
<1>1. IInv => GenerationsAreSerial
  BY DEF IInv, Generations, GenerationsAreSerial
<1> QED  BY Invariance, <1>1, PTL

\* Whoever is told that the observation is closed can rely on it (125-156, 239-267).
THEOREM ClosedMeansReleased == Spec => []ClosedIsReleased
<1>1. ASSUME IInv, disposal \in Outcomes PROVE work = "over"
  BY <1>1 DEF IInv, Joining
<1>2. ASSUME IInv, work = "over"
      PROVE  /\ subscription # "held" /\ ~Draining /\ ~Starting
             /\ subscription = "failed" => errors
  BY <1>2 DEF IInv, Joining
<1>3. ASSUME IInv, work = "over"
      PROVE  call = "none" /\ drain \in {"none", "stopping"} \union Outcomes
  BY <1>2, <1>3 DEF IInv, Control, Called, Draining, Outcomes
<1>4. ASSUME IInv, work = "over"
      PROVE  Settled(made) /\ (disposal = "done" => ~errors /\ ~Current(made))
  BY <1>4 DEF IInv, Answered
<1>5. IInv => ClosedIsReleased
  BY <1>1, <1>2, <1>3, <1>4 DEF ClosedIsReleased
<1> QED  BY Invariance, <1>5, PTL
=============================================================================
