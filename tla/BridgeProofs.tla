----------------------------- MODULE BridgeProofs -----------------------------
(***************************************************************************)
(* Proofs about Bridge, for any values of the source, any number of writes  *)
(* and calls nested to any depth.                                           *)
(*                                                                         *)
(* What a bridge owes at rest follows from what holds in the middle of any  *)
(* call of foreign code: whose turn it is to read what is not shown yet     *)
(* (SeesChanges, LastReadCounts), and whose to end the subscription         *)
(* (HoldsTheSubscription, GoesOnce).  Each conjunct speaks of all calls     *)
(* under way, for a call that returns exposes the one below it.             *)
(***************************************************************************)
EXTENDS Bridge, SequenceTheorems, TLAPS

Points == {"defer", "subscribe", "unsubscribe", "refreshed", "failing",
           "get", "set", "release", "done"}
Frames == [kind : {"start", "refresh", "dispose"}, at : Points,
           current : BOOLEAN, got : Contents \union {NotYet}, failed : BOOLEAN]

Called == 1 .. Len(stack)

\* #start is under way, at one of these points; it is called by nobody.
StartAt(points) == Len(stack) > 0 /\ stack[1].kind = "start" /\ stack[1].at \in points

\* Every call is at a point of its own, and one that called on is where it may.
CallsNest ==
    /\ \A i \in Called :
         /\ stack[i].kind = "start" =>
              i = 1 /\ stack[i].at \in {"defer", "subscribe", "unsubscribe", "refreshed", "failing"}
         /\ stack[i].kind = "refresh" => stack[i].at \in {"get", "set"}
         /\ stack[i].kind = "dispose" => stack[i].at \in {"set", "release", "done"}
         /\ i < Len(stack) => stack[i].at \in {"defer", "subscribe", "unsubscribe", "get",
                                               "set", "release", "refreshed"}
    /\ phase = "starting" <=> (Len(stack) > 0 /\ stack[1].kind = "start")
    /\ phase = "new" => Len(stack) = 0 /\ shown = Gone /\ ~holds /\ released = 0 /\ ~failure
    /\ phase = "failed" => shown = Gone

\* The read that counts is the last one, and nothing was set since it began
\* as long as the bridge lives.
LastReadCounts ==
    /\ reading # 0 =>
         /\ reading \in Called /\ stack[reading].kind = "refresh"
         /\ \A i \in Called : stack[i].kind = "refresh" => i <= reading
         /\ shown # Gone => listening /\ (stack[reading].at = "get" => stack[reading].current)
    /\ shown = Gone => \A i \in Called : stack[i].kind = "refresh" => ~stack[i].current

\* What is shown is old only where it will be read again.
SeesChanges ==
    shown # Gone /\ listening /\ ~owed =>
        /\ reading # 0 /\ stack[reading].at = "get" => stack[reading].got \in {NotYet, source}
        /\ \/ StartAt({"subscribe"}) \/ shown = source
           \/ reading # 0 /\ stack[reading].at = "get"

\* The subscription is held from its registration on, and asked to end once.
HoldsTheSubscription ==
    /\ holds => listening
    /\ listening => holds \/ StartAt({"subscribe"})
    /\ StartAt({"defer", "subscribe"}) => ~holds /\ released = 0
    /\ StartAt({"defer"}) => ~listening
    /\ StartAt({"unsubscribe"}) => holds /\ shown = Gone /\ released = 1
    /\ StartAt({"refreshed"}) \/ phase = "ready" => shown = Gone \/ holds
    /\ released <= 1

\* A bridge is disposed once; whoever is to end the subscription is under way,
\* or has failed to.
GoesOnce ==
    /\ shown # Gone => released = 0 /\ ~failure
    /\ \A i \in Called : stack[i].kind = "dispose" =>
         /\ shown = Gone /\ \A j \in Called : stack[j].kind = "dispose" => j = i
         /\ ~StartAt({"unsubscribe", "failing"})
         /\ stack[i].at = "set" => released = 0
         /\ stack[i].at = "release" => holds
    /\ holds => \/ shown # Gone \/ failure \/ StartAt({"unsubscribe"})
                \/ \E i \in Called : /\ stack[i].kind = "dispose"
                                     /\ stack[i].at \in {"set", "release"} \/ stack[i].failed
    /\ failure /\ ~reported => StartAt({"failing"})

Inv == CallsNest /\ LastReadCounts /\ SeesChanges /\ HoldsTheSubscription /\ GoesOnce
IInv == TypeOK /\ Inv

-----------------------------------------------------------------------------
(* The calls under way.                                                    *)

LEMMA Bounds == MaxDepth \in Nat \ {0} /\ 0 \in 0 .. MaxDepth + 1
<1>1. MaxDepth \in Nat \ {0}
  BY BridgeAssumption
<1> QED BY <1>1

LEMMA Distinct ==
    Error \notin Values /\ Gone \notin Values /\ NotYet \notin Values /\ Gone # Error /\ NotYet # Error
BY BridgeAssumption DEF Error, Gone, NotYet

LEMMA Pushed ==
    ASSUME NEW s \in Seq(Frames), NEW f \in Frames
    PROVE  /\ Append(s, f) \in Seq(Frames) /\ Len(Append(s, f)) = Len(s) + 1
           /\ \A i \in 1 .. Len(s) : Append(s, f)[i] = s[i]
           /\ Append(s, f)[Len(s) + 1] = f
    BY AppendProperties

LEMMA Popped ==
    ASSUME NEW s \in Seq(Frames), s # <<>>
    PROVE  /\ Front(s) \in Seq(Frames) /\ Len(s) \in Nat \ {0} /\ Len(Front(s)) = Len(s) - 1
           /\ \A i \in 1 .. Len(s) - 1 : Front(s)[i] = s[i]
           /\ Last(s) = s[Len(s)] /\ Last(s) \in Frames
<1>1. Len(s) \in Nat \ {0} /\ DOMAIN s = 1 .. Len(s) /\ s \in [1 .. Len(s) -> Frames]
  BY EmptySeq, LenProperties
<1>2. \A i \in 1 .. Len(s) - 1 : s[i] \in Frames
  BY <1>1
<1>3. /\ Front(s) \in Seq(Frames) /\ Len(Front(s)) = Len(s) - 1
      /\ \A i \in 1 .. Len(s) - 1 : Front(s)[i] = s[i]
  BY <1>1, <1>2, SubSeqProperties DEF Front
<1> QED BY <1>1, <1>3 DEF Last

LEMMA Replaced ==
    ASSUME NEW s \in Seq(Frames), s # <<>>, NEW f \in Frames
    PROVE  LET t == [s EXCEPT ![Len(s)] = f] IN
           /\ t \in Seq(Frames) /\ Len(t) = Len(s)
           /\ \A i \in 1 .. Len(s) - 1 : t[i] = s[i]
           /\ t[Len(s)] = f
<1>1. Len(s) \in Nat \ {0} /\ DOMAIN s = 1 .. Len(s) /\ s \in [1 .. Len(s) -> Frames]
  BY EmptySeq, LenProperties
<1> DEFINE t == [s EXCEPT ![Len(s)] = f]
<1>2. t \in [1 .. Len(s) -> Frames]
  BY <1>1
<1>3. t \in Seq(Frames) /\ Len(t) = Len(s)
  BY <1>1, <1>2, SeqDef, LenProperties
<1>4. t[Len(s)] = f
  BY <1>1
<1>5. \A i \in DOMAIN s : i # Len(s) => t[i] = s[i]
  BY Zenon
<1>6. \A n \in Nat \ {0} : \A i \in 1 .. n - 1 : i \in 1 .. n /\ i # n
  OBVIOUS
<1> QED BY <1>1, <1>3, <1>4, <1>5, <1>6

LEMMA Outdating ==
    ASSUME NEW s \in Seq(Frames)
    PROVE  /\ Outdated(s) \in Seq(Frames) /\ Len(Outdated(s)) = Len(s)
           /\ \A i \in 1 .. Len(s) : /\ Outdated(s)[i].kind = s[i].kind
                                    /\ Outdated(s)[i].at = s[i].at
                                    /\ Outdated(s)[i].got = s[i].got
                                    /\ Outdated(s)[i].failed = s[i].failed
                                    /\ Outdated(s)[i].current = FALSE
<1>1. Len(s) \in Nat /\ DOMAIN s = 1 .. Len(s) /\ s \in [1 .. Len(s) -> Frames]
  BY LenProperties
<1>2. \A f \in Frames : [f EXCEPT !.current = FALSE] \in Frames
  BY DEF Frames
<1>3. Outdated(s) = [i \in 1 .. Len(s) |-> [s[i] EXCEPT !.current = FALSE]]
  BY <1>1 DEF Outdated
<1>4. Outdated(s) \in [1 .. Len(s) -> Frames]
  BY <1>1, <1>2, <1>3
<1>5. Outdated(s) \in Seq(Frames) /\ Len(Outdated(s)) = Len(s)
  BY <1>1, <1>4, SeqDef, LenProperties
<1> QED BY <1>1, <1>3, <1>5 DEF Frames

LEMMA FramesAre ==
    ASSUME NEW f \in Frames
    PROVE  /\ \A at \in Points : [f EXCEPT !.at = at] \in Frames
           /\ \A got \in Contents : [f EXCEPT !.got = got] \in Frames
           /\ \A at \in Points, threw \in BOOLEAN : [f EXCEPT !.failed = threw, !.at = at] \in Frames
BY DEF Frames

LEMMA NewFrames ==
    ASSUME NEW kind \in {"start", "refresh", "dispose"}, NEW at \in Points
    PROVE  Frame(kind, at) \in Frames
BY DEF Frame, Frames

\* What a type-correct stack is made of.
LEMMA CallsAre ==
    ASSUME TypeOK
    PROVE  /\ stack \in Seq(Frames) /\ Len(stack) \in Nat /\ (stack = <<>> <=> Len(stack) = 0)
           /\ stack # <<>> => Top = stack[Len(stack)] /\ Top \in Frames
           /\ \A i \in Called : stack[i] \in Frames
<1>1. stack \in Seq(Frames)
  BY DEF TypeOK, Frames, Points
<1>2. Len(stack) \in Nat /\ DOMAIN stack = 1 .. Len(stack) /\ stack \in [1 .. Len(stack) -> Frames]
  BY <1>1, LenProperties
<1>3. stack = <<>> <=> Len(stack) = 0
  BY <1>1, EmptySeq
<1>4. stack # <<>> => Top = stack[Len(stack)] /\ Top \in Frames
  BY <1>1, Popped DEF Top
<1> QED BY <1>1, <1>2, <1>3, <1>4 DEF Called

\* The call that runs is the last one.
LEMMA RunningCall ==
    ASSUME TypeOK, NEW kind, NEW at, Running(kind, at)
    PROVE  /\ stack \in Seq(Frames) /\ stack # <<>> /\ Len(stack) \in Nat \ {0}
           /\ Len(stack) \in Called /\ Top = stack[Len(stack)] /\ Top \in Frames
           /\ Top.kind = kind /\ Top.at = at
<1>1. stack # <<>> /\ Top.kind = kind /\ Top.at = at
  BY DEF Running
<1>2. stack \in Seq(Frames) /\ Len(stack) \in Nat \ {0} /\ Top = stack[Len(stack)] /\ Top \in Frames
  BY <1>1, CallsAre
<1>3. Len(stack) \in Called
  BY <1>2 DEF Called
<1> QED BY <1>1, <1>2, <1>3

\* An attachment is called by nobody.
LEMMA AttachmentRuns ==
    ASSUME IInv, NEW at, Running("start", at)
    PROVE  /\ stack \in Seq(Frames) /\ stack # <<>> /\ Len(stack) = 1 /\ Called = {1}
           /\ Top = stack[1] /\ Top \in Frames /\ stack[1].kind = "start" /\ stack[1].at = at
           /\ reading = 0 /\ phase = "starting"
<1>1. /\ stack \in Seq(Frames) /\ stack # <<>> /\ Len(stack) \in Called
      /\ Top = stack[Len(stack)] /\ Top \in Frames /\ Top.kind = "start" /\ Top.at = at
  BY RunningCall DEF IInv
<1>2. Len(stack) = 1
  BY <1>1 DEF IInv, Inv, CallsNest
<1>3. Called = {1}
  BY <1>2 DEF Called
<1>4. reading = 0 /\ phase = "starting"
  BY <1>1, <1>2, <1>3 DEF IInv, Inv, LastReadCounts, CallsNest
<1> QED BY <1>1, <1>2, <1>3, <1>4

\* A read that runs is the one that counts, or the bridge shows it all already.
LEMMA ReadRuns ==
    ASSUME IInv, NEW at, Running("refresh", at), reading # 0
    PROVE  reading = Len(stack)
<1>1. /\ Len(stack) \in Nat /\ Len(stack) \in Called /\ stack[Len(stack)].kind = "refresh"
  BY RunningCall DEF IInv
<1>2. reading \in Called /\ Len(stack) <= reading
  BY <1>1 DEF IInv, Inv, LastReadCounts
<1> QED BY <1>1, <1>2 DEF Called

LEMMA MovedTo ==
    ASSUME TypeOK, stack # <<>>, NEW at \in Points
    PROVE  /\ Moved(at) \in Seq(Frames) /\ Len(Moved(at)) = Len(stack)
           /\ \A i \in Called :
                /\ Moved(at)[i].kind = stack[i].kind /\ Moved(at)[i].current = stack[i].current
                /\ Moved(at)[i].got = stack[i].got /\ Moved(at)[i].failed = stack[i].failed
                /\ Moved(at)[i].at = IF i = Len(stack) THEN at ELSE stack[i].at
<1>1. /\ stack \in Seq(Frames) /\ Top = stack[Len(stack)] /\ Top \in Frames /\ Len(stack) \in Nat
  BY CallsAre
<1>2. [Top EXCEPT !.at = at] \in Frames
  BY <1>1, FramesAre
<1>3. Moved(at) = [stack EXCEPT ![Len(stack)] = [Top EXCEPT !.at = at]]
  BY <1>1 DEF Moved, Depth
<1>4. /\ Moved(at) \in Seq(Frames) /\ Len(Moved(at)) = Len(stack)
      /\ \A i \in 1 .. Len(stack) - 1 : Moved(at)[i] = stack[i]
      /\ Moved(at)[Len(stack)] = [Top EXCEPT !.at = at]
  BY <1>1, <1>2, <1>3, Replaced
<1>5. ASSUME NEW i \in Called
      PROVE  i = Len(stack) \/ (i \in 1 .. Len(stack) - 1 /\ i # Len(stack))
  BY <1>1 DEF Called
<1>6. LET f == [Top EXCEPT !.at = at] IN
      /\ f.kind = Top.kind /\ f.current = Top.current /\ f.got = Top.got
      /\ f.failed = Top.failed /\ f.at = at
  BY <1>1 DEF Frames
<1> QED BY <1>1, <1>4, <1>5, <1>6

-----------------------------------------------------------------------------
(* The source.                                                             *)

LEMMA WriteSteps ==
    ASSUME IInv, NEW v \in Contents, Write(v)
    PROVE  IInv'
<1>1. /\ Len(stack) > 0 => stack[Len(stack)].at # "refreshed"
      /\ source' = v /\ owed' = listening
      /\ UNCHANGED <<listening, shown, reading, holds, failure, released, reported, phase, stack>>
  BY CallsAre DEF Write, Foreign, closing, IInv
<1>2. TypeOK'
  <2>1. writes \in 0 .. MaxWrites /\ writes < MaxWrites /\ writes' = writes + 1
    BY DEF IInv, TypeOK, Write
  <2>2. writes' \in 0 .. MaxWrites
    <3>1. MaxWrites \in Nat
      BY BridgeAssumption
    <3> QED BY <2>1, <3>1
  <2> QED BY <2>2 DEF IInv, TypeOK, Write, closing
<1>3. CallsNest'
  BY <1>1 DEF IInv, Inv, CallsNest, Called
<1>4. LastReadCounts'
  BY <1>1 DEF IInv, Inv, LastReadCounts, Called
<1>5. SeesChanges'
  BY <1>1 DEF IInv, Inv, SeesChanges, Called, StartAt
<1>6. HoldsTheSubscription'
  BY <1>1 DEF IInv, Inv, HoldsTheSubscription, StartAt
<1>7. GoesOnce'
  BY <1>1 DEF IInv, Inv, GoesOnce, StartAt, Called
<1> QED BY <1>2, <1>3, <1>4, <1>5, <1>6, <1>7 DEF IInv, Inv

LEMMA GetSteps ==
    ASSUME IInv, Get
    PROVE  IInv'
<1>1. /\ stack \in Seq(Frames) /\ stack # <<>> /\ Len(stack) \in Nat \ {0}
      /\ Len(stack) \in Called /\ Top = stack[Len(stack)] /\ Top \in Frames
      /\ stack[Len(stack)].kind = "refresh" /\ stack[Len(stack)].at = "get"
  BY RunningCall DEF Get, IInv
<1>2. UNCHANGED <<source, writes, listening, owed, shown, reading, holds, failure, waiting,
                  released, reported, phase>>
  BY DEF Get, foreign, closing
<1>3. /\ source \in Contents /\ [Top EXCEPT !.got = source] \in Frames
      /\ stack' = [stack EXCEPT ![Len(stack)] = [Top EXCEPT !.got = source]]
  <2>1. source \in Contents
    BY DEF IInv, TypeOK
  <2>2. stack' = [stack EXCEPT ![Len(stack)] = [Top EXCEPT !.got = source]]
    BY <1>1 DEF Get, Depth
  <2> QED BY <1>1, <2>1, <2>2, FramesAre
<1>4. /\ stack' \in Seq(Frames) /\ Len(stack') = Len(stack)
      /\ \A i \in 1 .. Len(stack) - 1 : stack'[i] = stack[i]
      /\ stack'[Len(stack)] = [Top EXCEPT !.got = source]
  BY <1>1, <1>3, Replaced
<1>5. /\ Called' = Called
      /\ \A i \in Called : /\ stack'[i].kind = stack[i].kind /\ stack'[i].at = stack[i].at
                           /\ stack'[i].current = stack[i].current
                           /\ stack'[i].failed = stack[i].failed
                           /\ stack'[i].got = IF i = Len(stack) THEN source ELSE stack[i].got
  <2>1. Called' = Called /\ \A i \in Called : i = Len(stack) \/ i \in 1 .. Len(stack) - 1
    BY <1>1, <1>4 DEF Called
  <2> QED BY <1>1, <1>4, <2>1 DEF Frames, Called
<1>6. Len(stack') = Len(stack) /\ Len(stack) > 0 /\ 1 \in Called /\ Len(stack) \in Called
  BY <1>1, <1>4 DEF Called
<1>7. TypeOK'
  BY <1>2, <1>4 DEF IInv, TypeOK, Frames, Points
<1>8. CallsNest'
  BY <1>2, <1>5, <1>6 DEF IInv, Inv, CallsNest
<1>9. LastReadCounts'
  BY <1>2, <1>5, <1>6 DEF IInv, Inv, LastReadCounts
<1>10. SeesChanges'
  BY <1>2, <1>5, <1>6 DEF IInv, Inv, SeesChanges, LastReadCounts, StartAt
<1>11. HoldsTheSubscription'
  BY <1>2, <1>5, <1>6 DEF IInv, Inv, HoldsTheSubscription, StartAt
<1>12. GoesOnce'
  BY <1>2, <1>5, <1>6 DEF IInv, Inv, GoesOnce, StartAt
<1> QED BY <1>7, <1>8, <1>9, <1>10, <1>11, <1>12 DEF IInv, Inv

\* Foreign code runs, and may call: a call is added.
LEMMA CallAdded ==
    ASSUME TypeOK, Foreign, NEW f \in Frames, NEW s \in Seq(Frames), Len(s) = Len(stack),
           stack' = Append(s, f)
    PROVE  /\ stack' \in Seq(Frames) /\ Len(stack) \in Nat /\ Len(stack') = Len(stack) + 1
           /\ Called \subseteq Called' /\ Len(stack') \in Called' /\ Len(stack') \notin Called
           /\ \A i \in Called' : i = Len(stack') \/ i \in Called
           /\ \A i \in Called : i < Len(stack') /\ stack'[i] = s[i]
           /\ stack'[Len(stack')] = f
           /\ \A i \in Called : i < Len(stack) \/ stack[i].at \in
                {"defer", "subscribe", "unsubscribe", "get", "set", "release"}
<1>1. /\ stack \in Seq(Frames) /\ Len(stack) \in Nat /\ (stack = <<>> <=> Len(stack) = 0)
      /\ stack # <<>> => Top = stack[Len(stack)]
  BY CallsAre
<1>2. /\ stack' \in Seq(Frames) /\ Len(stack') = Len(s) + 1 /\ stack'[Len(s) + 1] = f
      /\ \A i \in 1 .. Len(s) : stack'[i] = s[i]
  BY Pushed
<1>3. ASSUME NEW i \in Called, ~(i < Len(stack))
      PROVE  stack[i].at \in {"defer", "subscribe", "unsubscribe", "get", "set", "release"}
  <2>1. i = Len(stack) /\ stack # <<>>
    BY <1>1, <1>3 DEF Called
  <2> QED BY <1>1, <2>1 DEF Foreign
<1> QED BY <1>1, <1>2, <1>3 DEF Called

\* The last call returns.
LEMMA CallReturned ==
    ASSUME TypeOK, stack # <<>>, stack' = Front(stack)
    PROVE  /\ stack' \in Seq(Frames) /\ Len(stack) \in Nat \ {0} /\ Len(stack') = Len(stack) - 1
           /\ Called' \subseteq Called /\ Len(stack') < Len(stack)
           /\ \A i \in Called : i = Len(stack) \/ i \in Called'
           /\ \A i \in Called' : i < Len(stack) /\ stack'[i] = stack[i]
           /\ 1 \in Called' <=> Len(stack') > 0
<1>1. stack \in Seq(Frames)
  BY CallsAre
<1>2. /\ stack' \in Seq(Frames) /\ Len(stack) \in Nat \ {0} /\ Len(stack') = Len(stack) - 1
      /\ \A i \in 1 .. Len(stack) - 1 : stack'[i] = stack[i]
  BY <1>1, Popped
<1> QED BY <1>2 DEF Called

LEMMA NotifySteps ==
    ASSUME IInv, Notify
    PROVE  IInv'
<1>1. /\ Foreign /\ listening /\ owed' = FALSE /\ Len(stack) < MaxDepth /\ Refreshing(stack)
      /\ UNCHANGED <<source, writes, listening, shown, holds, failure, waiting, released,
                     reported, phase>>
  BY DEF Notify, MayCall, closing, Depth
<1>2. CASE shown = Gone
  <2>1. stack' = stack /\ reading' = reading
    BY <1>1, <1>2 DEF Refreshing
  <2>2. TypeOK'
    BY <1>1, <2>1 DEF IInv, TypeOK
  <2>3. CallsNest' /\ LastReadCounts'
    BY <1>1, <2>1 DEF IInv, Inv, CallsNest, LastReadCounts, Called
  <2>4. SeesChanges' /\ HoldsTheSubscription'
    BY <1>1, <1>2, <2>1 DEF IInv, Inv, SeesChanges, HoldsTheSubscription, StartAt
  <2>5. GoesOnce'
    BY <1>1, <2>1 DEF IInv, Inv, GoesOnce, StartAt, Called
  <2> QED BY <2>2, <2>3, <2>4, <2>5 DEF IInv, Inv
<1>3. CASE shown # Gone
  <2> DEFINE f == Frame("refresh", "get")
  <2>1. stack' = Append(stack, f) /\ reading' = Len(stack) + 1
    BY <1>1, <1>3 DEF Refreshing
  <2>2. /\ f \in Frames /\ f.kind = "refresh" /\ f.at = "get" /\ f.current = TRUE /\ f.got = NotYet
    BY NewFrames DEF Frame, Points
  <2> HIDE DEF f
  <2>3. /\ stack' \in Seq(Frames) /\ Len(stack) \in Nat /\ Len(stack') = Len(stack) + 1
        /\ Called \subseteq Called' /\ Len(stack') \in Called' /\ Len(stack') \notin Called
        /\ \A i \in Called' : i = Len(stack') \/ i \in Called
        /\ \A i \in Called : i < Len(stack') /\ stack'[i] = stack[i]
        /\ stack'[Len(stack')] = f
        /\ \A i \in Called : i < Len(stack) \/ stack[i].at \in
             {"defer", "subscribe", "unsubscribe", "get", "set", "release"}
    BY <1>1, <2>1, <2>2, CallsAre, CallAdded DEF IInv
  <2>4. Len(stack) > 0 <=> 1 \in Called
    BY <2>3 DEF Called
  <2>5. Len(stack') > 0 /\ reading' = Len(stack') /\ reading' # 0 /\ (1 \notin Called => Len(stack') = 1)
    BY <2>1, <2>3, <2>4
  <2>6. TypeOK'
    <3>1. reading' \in 0 .. MaxDepth + 1
      BY <1>1, <2>1, <2>3, Bounds
    <3> QED BY <1>1, <2>3, <3>1 DEF IInv, TypeOK, Frames, Points
  <2>7. CallsNest'
    BY <1>1, <1>3, <2>2, <2>3, <2>4, <2>5 DEF IInv, Inv, CallsNest
  <2>8. LastReadCounts'
    <3>1. /\ stack'[reading'].kind = "refresh" /\ stack'[reading'].current = TRUE
          /\ reading' \in Called'
      BY <2>2, <2>3, <2>5
    <3>2. ASSUME NEW i \in Called'
          PROVE  i <= reading'
      BY <2>3, <2>5 DEF Called
    <3>3. listening'
      BY <1>1
    <3> QED BY <1>1, <1>3, <3>1, <3>2, <3>3 DEF LastReadCounts
  <2>9. SeesChanges'
    BY <2>2, <2>3, <2>5 DEF SeesChanges
  <2>10. HoldsTheSubscription'
    BY <1>1, <2>2, <2>3, <2>4, <2>5 DEF IInv, Inv, HoldsTheSubscription, StartAt
  <2>11. GoesOnce'
    BY <1>1, <1>3, <2>2, <2>3, <2>4, <2>5 DEF IInv, Inv, GoesOnce, StartAt
  <2> QED BY <2>6, <2>7, <2>8, <2>9, <2>10, <2>11 DEF IInv, Inv
<1> QED BY <1>2, <1>3

LEMMA GetReturnsSteps ==
    ASSUME IInv, GetReturns
    PROVE  IInv'
<1>1. /\ stack \in Seq(Frames) /\ stack # <<>> /\ Len(stack) \in Nat \ {0}
      /\ Len(stack) \in Called /\ Top = stack[Len(stack)] /\ Top \in Frames
      /\ stack[Len(stack)].kind = "refresh" /\ stack[Len(stack)].at = "get"
      /\ stack[Len(stack)].got # NotYet /\ stack[Len(stack)].got \in Contents
  <2>1. Running("refresh", "get") /\ Top.got # NotYet
    BY DEF GetReturns
  <2> QED BY <2>1, RunningCall DEF IInv, Frames
<1>2. UNCHANGED <<source, writes, listening, owed, holds, failure, waiting, released,
                  reported, phase>>
  BY DEF GetReturns, foreign, closing
<1>3. reading # 0 => reading = Len(stack)
  BY ReadRuns DEF GetReturns
<1>4. Len(stack) = 1 => ~(stack[1].kind = "start")
  BY <1>1
<1>5. CASE Obsolete \/ Top.got = shown
  <2>1. stack' = Front(stack) /\ reading' = 0 /\ shown' = shown
    BY <1>5 DEF GetReturns
  <2>2. /\ stack' \in Seq(Frames) /\ Len(stack') = Len(stack) - 1
        /\ Called' \subseteq Called /\ Len(stack') < Len(stack)
        /\ \A i \in Called : i = Len(stack) \/ i \in Called'
        /\ \A i \in Called' : i < Len(stack) /\ stack'[i] = stack[i]
        /\ 1 \in Called' <=> Len(stack') > 0
    BY <1>1, <2>1, CallReturned DEF IInv
  <2>3. Len(stack') > 0 \/ Len(stack) = 1
    BY <1>1, <2>2
  <2>4. TypeOK'
    <3>1. reading' \in 0 .. MaxDepth + 1
      BY <2>1, Bounds
    <3> QED BY <1>2, <2>1, <2>2, <3>1 DEF IInv, TypeOK, Frames, Points
  <2>5. CallsNest'
    BY <1>1, <1>2, <1>4, <2>1, <2>2, <2>3 DEF IInv, Inv, CallsNest
  <2>6. LastReadCounts'
    BY <2>1, <2>2 DEF IInv, Inv, LastReadCounts
  <2>7. \A points : StartAt(points) <=> StartAt(points)'
    BY <1>1, <1>4, <2>2, <2>3 DEF StartAt
  <2>8. SeesChanges'
    <3>1. reading = Len(stack) /\ Top.current => Top.got = shown
      BY <1>5 DEF Obsolete, Depth
    <3>2. reading # 0 => Top.got = shown \/ shown = Gone
      BY <1>1, <1>3, <3>1 DEF IInv, Inv, LastReadCounts
    <3> QED BY <1>1, <1>2, <1>3, <2>1, <2>7, <3>2 DEF IInv, Inv, SeesChanges
  <2>9. HoldsTheSubscription'
    BY <1>2, <2>1, <2>7 DEF IInv, Inv, HoldsTheSubscription
  <2>10. GoesOnce'
    BY <1>1, <1>2, <2>1, <2>2, <2>7 DEF IInv, Inv, GoesOnce
  <2> QED BY <2>4, <2>5, <2>6, <2>8, <2>9, <2>10 DEF IInv, Inv
<1>6. CASE ~(Obsolete \/ Top.got = shown)
  <2>1. /\ reading = Len(stack) /\ Top.current /\ Top.got # shown
        /\ shown' = Top.got /\ stack' = Outdated(Moved("set")) /\ reading' = reading
    BY <1>6 DEF GetReturns, Obsolete, Depth
  <2>2. /\ Moved("set") \in Seq(Frames) /\ Len(Moved("set")) = Len(stack)
        /\ \A i \in Called :
             /\ Moved("set")[i].kind = stack[i].kind /\ Moved("set")[i].got = stack[i].got
             /\ Moved("set")[i].failed = stack[i].failed
             /\ Moved("set")[i].at = IF i = Len(stack) THEN "set" ELSE stack[i].at
    BY <1>1, MovedTo DEF IInv, Points
  <2>3. /\ stack' \in Seq(Frames) /\ Len(stack') = Len(stack) /\ Len(stack) > 0
        /\ Called' = Called /\ 1 \in Called /\ Len(stack) \in Called
        /\ \A i \in Called :
             /\ stack'[i].kind = stack[i].kind /\ stack'[i].got = stack[i].got
             /\ stack'[i].failed = stack[i].failed
             /\ stack'[i].at = IF i = Len(stack) THEN "set" ELSE stack[i].at
    <3> DEFINE s == Moved("set")
    <3> HIDE DEF s
    <3>1. s \in Seq(Frames) /\ stack' = Outdated(s) /\ Len(s) = Len(stack)
      BY <2>1, <2>2 DEF s
    <3>2. /\ stack' \in Seq(Frames) /\ Len(stack') = Len(stack)
          /\ \A i \in Called :
               /\ stack'[i].kind = s[i].kind /\ stack'[i].got = s[i].got
               /\ stack'[i].failed = s[i].failed /\ stack'[i].at = s[i].at
      BY <3>1, Outdating DEF Called
    <3>3. Called' = Called /\ 1 \in Called /\ Len(stack) > 0
      BY <1>1, <3>2 DEF Called
    <3> QED BY <1>1, <2>2, <3>2, <3>3 DEF s
  <2>4. shown' # Gone
    BY <1>1, <2>1, Distinct DEF Contents
  <2>5. /\ shown # Gone /\ listening /\ (Top.got = source \/ owed)
    <3>1. shown # Gone
      BY <1>1, <2>1 DEF IInv, Inv, LastReadCounts
    <3> QED BY <1>1, <2>1, <3>1 DEF IInv, Inv, LastReadCounts, SeesChanges
  <2>6. TypeOK'
    BY <1>1, <1>2, <2>1, <2>3 DEF IInv, TypeOK, Frames, Points
  <2>7. CallsNest'
    BY <1>1, <1>2, <2>1, <2>3, <2>5 DEF IInv, Inv, CallsNest
  <2>8. LastReadCounts'
    BY <1>1, <1>2, <2>1, <2>3, <2>4, <2>5 DEF IInv, Inv, LastReadCounts
  <2>9. \A points : StartAt(points)' <=> StartAt(points)
    BY <1>1, <2>3 DEF StartAt
  <2>10. SeesChanges'
    BY <1>1, <1>2, <2>1, <2>3, <2>5 DEF SeesChanges
  <2>11. HoldsTheSubscription'
    <3>1. ~(StartAt({"unsubscribe"}))
      BY <2>5 DEF IInv, Inv, HoldsTheSubscription
    <3>2. phase = "ready" \/ StartAt({"refreshed"}) => holds
      BY <2>5 DEF IInv, Inv, HoldsTheSubscription
    <3> QED BY <1>2, <2>9, <3>1, <3>2 DEF IInv, Inv, HoldsTheSubscription
  <2>12. GoesOnce'
    BY <1>1, <1>2, <2>1, <2>3, <2>4, <2>5, <2>9 DEF IInv, Inv, GoesOnce
  <2> QED BY <2>6, <2>7, <2>8, <2>10, <2>11, <2>12 DEF IInv, Inv
<1> QED BY <1>5, <1>6

LEMMA ToldSteps ==
    ASSUME IInv, Told
    PROVE  IInv'
<1>1. /\ stack \in Seq(Frames) /\ stack # <<>> /\ Len(stack) \in Nat \ {0}
      /\ Len(stack) \in Called /\ Top = stack[Len(stack)] /\ Top \in Frames
      /\ stack[Len(stack)].kind = "refresh" /\ stack[Len(stack)].at = "set"
  BY RunningCall DEF Told, IInv
<1>2. /\ reading' = 0
      /\ UNCHANGED <<source, writes, listening, owed, shown, holds, failure, waiting, released,
                     reported, phase>>
  BY DEF Told, foreign, closing
<1>3. reading # 0 => reading = Len(stack)
  BY ReadRuns DEF Told
<1>4. shown # Gone /\ listening /\ ~owed => shown = source \/ StartAt({"subscribe"})
  BY <1>1, <1>3 DEF IInv, Inv, SeesChanges
<1>5. CASE stack' = Front(stack)
  <2>1. /\ stack' \in Seq(Frames) /\ Len(stack') = Len(stack) - 1
        /\ Called' \subseteq Called /\ Len(stack') < Len(stack)
        /\ \A i \in Called : i = Len(stack) \/ i \in Called'
        /\ \A i \in Called' : i < Len(stack) /\ stack'[i] = stack[i]
        /\ 1 \in Called' <=> Len(stack') > 0
    BY <1>1, <1>5, CallReturned DEF IInv
  <2>2. Len(stack') > 0 \/ Len(stack) = 1
    BY <1>1, <2>1
  <2>3. \A points : StartAt(points) <=> StartAt(points)'
    BY <1>1, <2>1, <2>2 DEF StartAt
  <2>4. TypeOK'
    BY <1>2, <2>1, Bounds DEF IInv, TypeOK, Frames, Points
  <2>5. CallsNest'
    BY <1>1, <1>2, <2>1, <2>2 DEF IInv, Inv, CallsNest
  <2>6. LastReadCounts'
    BY <1>2, <2>1 DEF IInv, Inv, LastReadCounts
  <2>7. SeesChanges'
    BY <1>2, <1>4, <2>3 DEF SeesChanges
  <2>8. HoldsTheSubscription'
    BY <1>2, <2>3 DEF IInv, Inv, HoldsTheSubscription
  <2>9. GoesOnce'
    BY <1>1, <1>2, <2>1, <2>3 DEF IInv, Inv, GoesOnce
  <2> QED BY <2>4, <2>5, <2>6, <2>7, <2>8, <2>9 DEF IInv, Inv
<1>6. CASE stack' # Front(stack)
  <2> DEFINE calls == Front(stack)
  <2>1. /\ calls \in Seq(Frames) /\ Len(calls) = Len(stack) - 1
        /\ \A i \in 1 .. Len(stack) - 1 : calls[i] = stack[i]
    BY <1>1, Popped
  <2>2. /\ calls # <<>> /\ Last(calls).at = "refreshed"
        /\ stack' = [calls EXCEPT ![Len(calls)].at = "failing"]
    BY <1>6 DEF Told
  <2>3. Len(calls) \in Nat \ {0} /\ Last(calls) = calls[Len(calls)] /\ Last(calls) \in Frames
    BY <2>1, <2>2, Popped
  <2> HIDE DEF calls
  <2>4. Len(calls) \in Called /\ Last(calls) = stack[Len(calls)]
    BY <1>1, <2>1, <2>3 DEF Called
  <2>5. Len(calls) = 1 /\ Len(stack) = 2 /\ stack[1].kind = "start" /\ stack[1].at = "refreshed"
    <3>1. stack[Len(calls)].kind \in {"start", "refresh", "dispose"}
      BY <2>3, <2>4 DEF Frames
    <3>2. stack[Len(calls)].kind = "start" /\ Len(calls) = 1
      BY <2>2, <2>4, <3>1 DEF IInv, Inv, CallsNest
    <3>3. Len(stack) = 2
      <4>1. Len(stack) \in Nat /\ Len(stack) - 1 = 1
        BY <1>1, <2>1, <3>2
      <4> QED BY <4>1
    <3> QED BY <2>2, <2>4, <3>2, <3>3
  <2>6. stack' = [calls EXCEPT ![Len(calls)] = [Last(calls) EXCEPT !.at = "failing"]]
    BY <2>2, <2>3
  <2>7. [Last(calls) EXCEPT !.at = "failing"] \in Frames
    BY <2>3, FramesAre DEF Points
  <2>8. /\ stack' \in Seq(Frames) /\ Len(stack') = 1
        /\ stack'[1] = [Last(calls) EXCEPT !.at = "failing"]
    BY <2>1, <2>2, <2>5, <2>6, <2>7, Replaced
  <2>9. /\ stack'[1].kind = "start" /\ stack'[1].at = "failing" /\ stack'[1].failed = stack[1].failed
        /\ Called' = {1} /\ Called = {1, 2} /\ Len(stack') = 1 /\ Len(stack) > 0
    <3>1. Called' = {1} /\ Called = {1, 2}
      BY <2>5, <2>8 DEF Called
    <3>2. stack'[1].kind = stack[1].kind /\ stack'[1].at = "failing" /\ stack'[1].failed = stack[1].failed
      BY <2>3, <2>4, <2>5, <2>8 DEF Frames
    <3> QED BY <2>5, <2>8, <3>1, <3>2
  <2>10. stack[2].kind = "refresh" /\ stack[2].at = "set"
    BY <1>1, <2>5
  <2>11. TypeOK'
    BY <1>2, <2>8, Bounds DEF IInv, TypeOK, Frames, Points
  <2>12. CallsNest'
    <3>1. phase' = "starting"
      BY <1>2, <2>5 DEF IInv, Inv, CallsNest
    <3> QED BY <2>9, <3>1 DEF CallsNest
  <2>13. LastReadCounts'
    BY <1>2, <2>9 DEF LastReadCounts
  <2>14. SeesChanges'
    BY <1>2, <1>4, <2>5 DEF SeesChanges, StartAt
  <2>15. HoldsTheSubscription'
    BY <1>2, <2>5, <2>9 DEF IInv, Inv, HoldsTheSubscription, CallsNest, StartAt
  <2>16. GoesOnce'
    BY <1>2, <2>5, <2>9, <2>10 DEF IInv, Inv, GoesOnce, StartAt
  <2> QED BY <2>11, <2>12, <2>13, <2>14, <2>15, <2>16 DEF IInv, Inv
<1> QED BY <1>5, <1>6

-----------------------------------------------------------------------------
(* bridge() and #start.                                                    *)

LEMMA ConstructSteps ==
    ASSUME IInv, Construct
    PROVE  IInv'
<1>1. /\ phase = "new" /\ Len(stack) = 0 /\ Called = {} /\ ~holds /\ ~listening
      /\ released = 0 /\ ~failure /\ reading = 0 /\ source \in Contents
      /\ UNCHANGED <<source, writes, listening, owed, reading, holds, failure, waiting, released,
                     reported>>
  <2>1. phase = "new" /\ Len(stack) = 0 /\ ~holds /\ released = 0 /\ ~failure
    BY DEF Construct, IInv, Inv, CallsNest
  <2>2. Called = {}
    BY <2>1 DEF Called
  <2>3. ~listening /\ reading = 0
    BY <2>1, <2>2 DEF IInv, Inv, HoldsTheSubscription, LastReadCounts, StartAt
  <2>4. source \in Contents
    BY DEF IInv, TypeOK
  <2> QED BY <2>1, <2>2, <2>3, <2>4 DEF Construct, foreign, closing
<1>2. CASE source = Error
  <2>1. phase' = "failed" /\ shown' = shown /\ stack' = stack /\ Called' = {} /\ shown = Gone
    BY <1>1, <1>2 DEF Construct, Called, IInv, Inv, CallsNest
  <2>2. TypeOK'
    BY <1>1, <2>1 DEF IInv, TypeOK
  <2> QED
    BY <1>1, <2>1, <2>2 DEF IInv, Inv, CallsNest, LastReadCounts, SeesChanges,
                            HoldsTheSubscription, GoesOnce, StartAt
<1>3. CASE source # Error
  <2> DEFINE f == Frame("start", "defer")
  <2>1. phase' = "starting" /\ shown' = source /\ stack' = <<f>>
    BY <1>1, <1>3 DEF Construct
  <2>2. f \in Frames /\ f.kind = "start" /\ f.at = "defer"
    BY NewFrames DEF Frame, Points
  <2> HIDE DEF f
  <2>3. stack' \in Seq(Frames) /\ Len(stack') = 1 /\ stack'[1] = f
    BY <2>1, <2>2
  <2>4. Called' = {1}
    BY <2>3 DEF Called
  <2>5. source # Gone
    BY <1>1, Distinct DEF Contents
  <2>6. TypeOK'
    BY <1>1, <2>1, <2>3 DEF IInv, TypeOK, Frames, Points
  <2>7. CallsNest' /\ LastReadCounts' /\ SeesChanges'
    BY <1>1, <2>1, <2>2, <2>3, <2>4, <2>5 DEF CallsNest, LastReadCounts, SeesChanges, StartAt
  <2>8. HoldsTheSubscription' /\ GoesOnce'
    BY <1>1, <2>1, <2>2, <2>3, <2>4, <2>5 DEF HoldsTheSubscription, GoesOnce, StartAt
  <2> QED BY <2>6, <2>7, <2>8 DEF IInv, Inv
<1> QED BY <1>2, <1>3

\* What an attachment that runs, and moves on, leaves as it is.
LEMMA AttachmentMoves ==
    ASSUME IInv, NEW from, Running("start", from), NEW at \in Points, stack' = Moved(at)
    PROVE  /\ stack' \in Seq(Frames) /\ Len(stack') = 1 /\ Called' = {1}
           /\ stack'[1].kind = "start" /\ stack'[1].at = at
<1>1. /\ stack # <<>> /\ Len(stack) = 1 /\ Called = {1} /\ stack[1].kind = "start"
  BY AttachmentRuns
<1>2. /\ stack' \in Seq(Frames) /\ Len(stack') = Len(stack)
      /\ \A i \in Called : /\ stack'[i].kind = stack[i].kind
                           /\ stack'[i].at = IF i = Len(stack) THEN at ELSE stack[i].at
  BY <1>1, MovedTo DEF IInv
<1>3. Called' = {1}
  BY <1>1, <1>2 DEF Called
<1> QED BY <1>1, <1>2, <1>3

LEMMA DeferredSteps ==
    ASSUME IInv, Deferred
    PROVE  IInv'
<1>1. /\ Len(stack) = 1 /\ Called = {1} /\ stack[1].kind = "start" /\ stack[1].at = "defer"
      /\ reading = 0 /\ phase = "starting"
  BY AttachmentRuns DEF Deferred
<1>2. UNCHANGED <<source, writes, listening, owed, shown, reading, holds, failure, waiting, released,
                  reported, phase>>
  BY DEF Deferred, foreign, closing
<1>3. ~holds /\ ~listening /\ released = 0
  BY <1>1 DEF IInv, Inv, HoldsTheSubscription, StartAt
<1>4. PICK at \in {"failing", "subscribe"} : stack' = Moved(at)
  BY DEF Deferred
<1>5. /\ stack' \in Seq(Frames) /\ Len(stack') = 1 /\ Called' = {1}
      /\ stack'[1].kind = "start" /\ stack'[1].at = at
  BY <1>4, AttachmentMoves DEF Deferred, Points
<1>6. TypeOK'
  BY <1>2, <1>5 DEF IInv, TypeOK, Frames, Points
<1>7. CallsNest'
  BY <1>1, <1>2, <1>5 DEF CallsNest
<1>8. LastReadCounts' /\ SeesChanges'
  BY <1>1, <1>2, <1>3, <1>5 DEF LastReadCounts, SeesChanges
<1>9. HoldsTheSubscription'
  BY <1>1, <1>2, <1>3, <1>5 DEF HoldsTheSubscription, StartAt
<1>10. GoesOnce'
  BY <1>1, <1>2, <1>3, <1>5 DEF IInv, Inv, GoesOnce, StartAt
<1> QED BY <1>6, <1>7, <1>8, <1>9, <1>10 DEF IInv, Inv

LEMMA SourceListensSteps ==
    ASSUME IInv, SourceListens
    PROVE  IInv'
<1>1. /\ Len(stack) = 1 /\ Called = {1} /\ stack[1].kind = "start" /\ stack[1].at = "subscribe"
      /\ reading = 0 /\ phase = "starting"
  BY AttachmentRuns DEF SourceListens
<1>2. /\ listening' = TRUE /\ stack' = stack /\ Called' = Called
      /\ UNCHANGED <<source, writes, owed, shown, reading, holds, failure, waiting, released,
                     reported, phase>>
  BY DEF SourceListens, foreign, closing, Called
<1>3. TypeOK'
  BY <1>2 DEF IInv, TypeOK
<1>4. CallsNest' /\ LastReadCounts' /\ SeesChanges'
  BY <1>1, <1>2 DEF IInv, Inv, CallsNest, LastReadCounts, SeesChanges, StartAt
<1>5. HoldsTheSubscription' /\ GoesOnce'
  BY <1>1, <1>2 DEF IInv, Inv, HoldsTheSubscription, GoesOnce, StartAt
<1> QED BY <1>3, <1>4, <1>5 DEF IInv, Inv

LEMMA SubscribeThrowsSteps ==
    ASSUME IInv, SubscribeThrows
    PROVE  IInv'
<1>1. /\ Len(stack) = 1 /\ Called = {1} /\ stack[1].kind = "start" /\ stack[1].at = "subscribe"
      /\ reading = 0 /\ phase = "starting" /\ ~listening
  BY AttachmentRuns DEF SubscribeThrows
<1>2. UNCHANGED <<source, writes, listening, owed, shown, reading, holds, failure, waiting, released,
                  reported, phase>>
  BY DEF SubscribeThrows, foreign, closing
<1>3. ~holds /\ released = 0
  BY <1>1 DEF IInv, Inv, HoldsTheSubscription, StartAt
<1>4. /\ stack' \in Seq(Frames) /\ Len(stack') = 1 /\ Called' = {1}
      /\ stack'[1].kind = "start" /\ stack'[1].at = "failing"
  BY AttachmentMoves DEF SubscribeThrows, Points
<1>5. TypeOK'
  BY <1>2, <1>4 DEF IInv, TypeOK, Frames, Points
<1>6. CallsNest'
  BY <1>1, <1>2, <1>4 DEF CallsNest
<1>7. LastReadCounts' /\ SeesChanges'
  BY <1>1, <1>2, <1>3, <1>4 DEF LastReadCounts, SeesChanges
<1>8. HoldsTheSubscription'
  BY <1>1, <1>2, <1>3, <1>4 DEF HoldsTheSubscription, StartAt
<1>9. GoesOnce'
  BY <1>1, <1>2, <1>3, <1>4 DEF IInv, Inv, GoesOnce, StartAt
<1> QED BY <1>5, <1>6, <1>7, <1>8, <1>9 DEF IInv, Inv

LEMMA SubscribedSteps ==
    ASSUME IInv, Subscribed
    PROVE  IInv'
<1>1. /\ Len(stack) = 1 /\ Called = {1} /\ stack[1].kind = "start" /\ stack[1].at = "subscribe"
      /\ stack # <<>> /\ reading = 0 /\ phase = "starting" /\ listening
  BY AttachmentRuns DEF Subscribed
<1>2. /\ holds' = TRUE
      /\ UNCHANGED <<source, writes, listening, owed, shown, failure, waiting, reported, phase>>
  BY DEF Subscribed, foreign, closing
<1>3. ~holds /\ released = 0
  BY <1>1 DEF IInv, Inv, HoldsTheSubscription, StartAt
<1>4. CASE shown = Gone
  <2>1. stack' = Moved("unsubscribe") /\ released' = 1 /\ reading' = 0
    BY <1>1, <1>3, <1>4 DEF Subscribed, Revoked
  <2>2. /\ stack' \in Seq(Frames) /\ Len(stack') = 1 /\ Called' = {1}
        /\ stack'[1].kind = "start" /\ stack'[1].at = "unsubscribe"
    BY <2>1, AttachmentMoves DEF Subscribed, Points
  <2>3. TypeOK'
    BY <1>2, <2>1, <2>2, Bounds DEF IInv, TypeOK, Frames, Points
  <2>4. CallsNest'
    BY <1>1, <1>2, <2>2 DEF CallsNest
  <2>5. LastReadCounts' /\ SeesChanges'
    BY <1>2, <1>4, <2>1, <2>2 DEF LastReadCounts, SeesChanges
  <2>6. HoldsTheSubscription'
    BY <1>1, <1>2, <1>4, <2>1, <2>2 DEF HoldsTheSubscription, StartAt
  <2>7. GoesOnce'
    BY <1>1, <1>2, <1>4, <2>1, <2>2 DEF IInv, Inv, GoesOnce, StartAt
  <2> QED BY <2>3, <2>4, <2>5, <2>6, <2>7 DEF IInv, Inv
<1>5. CASE shown # Gone
  <2> DEFINE f == Frame("refresh", "get")  s == Moved("refreshed")
  <2>1. stack' = Append(s, f) /\ released' = released /\ reading' = Len(s) + 1
    BY <1>5 DEF Subscribed, Revoked, Refreshing
  <2>2. /\ f \in Frames /\ f.kind = "refresh" /\ f.at = "get" /\ f.current = TRUE /\ f.got = NotYet
    BY NewFrames DEF Frame, Points
  <2>3. /\ s \in Seq(Frames) /\ Len(s) = 1 /\ s[1].kind = "start" /\ s[1].at = "refreshed"
    BY <1>1, MovedTo DEF IInv, Points
  <2> HIDE DEF f, s
  <2>4. /\ stack' \in Seq(Frames) /\ Len(stack') = 2 /\ stack'[1] = s[1] /\ stack'[2] = f
        /\ reading' = 2
    BY <2>1, <2>2, <2>3, Pushed
  <2>5. /\ Called' = {1, 2} /\ Len(stack') > 0 /\ stack'[1].kind = "start" /\ stack'[1].at = "refreshed"
    BY <2>3, <2>4 DEF Called
  <2>6. TypeOK'
    <3>1. reading' \in 0 .. MaxDepth + 1
      BY <2>4, Bounds
    <3> QED BY <1>2, <2>1, <2>4, <3>1 DEF IInv, TypeOK, Frames, Points
  <2>7. CallsNest'
    BY <1>1, <1>2, <2>2, <2>4, <2>5 DEF CallsNest
  <2>8. LastReadCounts'
    BY <1>1, <1>2, <1>5, <2>2, <2>4, <2>5 DEF LastReadCounts
  <2>9. SeesChanges'
    BY <2>2, <2>4 DEF SeesChanges
  <2>10. HoldsTheSubscription'
    BY <1>1, <1>2, <1>3, <2>1, <2>5 DEF HoldsTheSubscription, StartAt
  <2>11. GoesOnce'
    BY <1>1, <1>2, <1>3, <1>5, <2>1, <2>2, <2>4, <2>5 DEF IInv, Inv, GoesOnce, StartAt
  <2> QED BY <2>6, <2>7, <2>8, <2>9, <2>10, <2>11 DEF IInv, Inv
<1> QED BY <1>4, <1>5

LEMMA UnsubscribedSteps ==
    ASSUME IInv, Unsubscribed
    PROVE  IInv'
<1>1. /\ Len(stack) = 1 /\ Called = {1} /\ stack[1].kind = "start" /\ stack[1].at = "unsubscribe"
      /\ reading = 0 /\ phase = "starting"
  BY AttachmentRuns DEF Unsubscribed
<1>2. /\ \/ listening' = FALSE /\ owed' = FALSE /\ holds' = FALSE /\ failure' = failure
         \/ failure' = TRUE /\ listening' = listening /\ owed' = owed /\ holds' = holds
      /\ UNCHANGED <<source, writes, shown, reading, waiting, released, reported, phase>>
  BY DEF Unsubscribed
<1>3. /\ holds /\ listening /\ shown = Gone /\ released = 1
  BY <1>1 DEF IInv, Inv, HoldsTheSubscription, StartAt
<1>4. /\ stack' \in Seq(Frames) /\ Len(stack') = 1 /\ Called' = {1}
      /\ stack'[1].kind = "start" /\ stack'[1].at = "failing"
  BY AttachmentMoves DEF Unsubscribed, Points
<1>5. TypeOK'
  BY <1>2, <1>4 DEF IInv, TypeOK, Frames, Points
<1>6. CallsNest'
  BY <1>1, <1>2, <1>4 DEF CallsNest
<1>7. LastReadCounts' /\ SeesChanges'
  BY <1>1, <1>2, <1>3, <1>4 DEF LastReadCounts, SeesChanges
<1>8. HoldsTheSubscription'
  <2>1. CASE listening' = FALSE /\ holds' = FALSE
    BY <1>1, <1>2, <1>3, <1>4, <2>1 DEF HoldsTheSubscription, StartAt
  <2>2. CASE listening' = listening /\ holds' = holds
    BY <1>1, <1>2, <1>3, <1>4, <2>2 DEF HoldsTheSubscription, StartAt
  <2> QED BY <1>2, <2>1, <2>2
<1>9. GoesOnce'
  BY <1>1, <1>2, <1>3, <1>4 DEF IInv, Inv, GoesOnce, StartAt
<1> QED BY <1>5, <1>6, <1>7, <1>8, <1>9 DEF IInv, Inv

LEMMA StartedSteps ==
    ASSUME IInv, Started
    PROVE  IInv'
<1>1. /\ Len(stack) = 1 /\ Called = {1} /\ stack[1].kind = "start" /\ stack[1].at = "refreshed"
      /\ reading = 0 /\ phase = "starting"
  BY AttachmentRuns DEF Started
<1>2. UNCHANGED <<source, writes, listening, owed, shown, reading, holds, failure, waiting, released,
                  reported>>
  BY DEF Started, foreign, closing
<1>3. shown = Gone \/ holds
  BY <1>1 DEF IInv, Inv, HoldsTheSubscription, StartAt
<1>4. CASE shown \in Values
  <2>1. stack' = Front(stack) /\ phase' = "ready"
    BY <1>4 DEF Started
  <2>2. stack' \in Seq(Frames) /\ Len(stack') = 0 /\ Called' = {}
    <3>1. stack' \in Seq(Frames) /\ Len(stack') = 0
      BY <1>1, <2>1, AttachmentRuns, CallReturned DEF IInv, Started
    <3> QED BY <3>1 DEF Called
  <2>3. TypeOK'
    BY <1>2, <2>1, <2>2 DEF IInv, TypeOK, Frames, Points
  <2>4. CallsNest' /\ LastReadCounts'
    BY <1>1, <1>2, <2>1, <2>2 DEF CallsNest, LastReadCounts
  <2>5. SeesChanges' /\ HoldsTheSubscription'
    BY <1>1, <1>2, <1>3, <2>1, <2>2 DEF IInv, Inv, SeesChanges, HoldsTheSubscription, StartAt
  <2>6. GoesOnce'
    <3>1. shown # Gone
      BY <1>4, Distinct
    <3> QED BY <1>1, <1>2, <2>2, <3>1 DEF IInv, Inv, GoesOnce, StartAt
  <2> QED BY <2>3, <2>4, <2>5, <2>6 DEF IInv, Inv
<1>5. CASE shown \notin Values
  <2>1. stack' = Moved("failing") /\ phase' = "starting"
    BY <1>1, <1>5 DEF Started
  <2>2. /\ stack' \in Seq(Frames) /\ Len(stack') = 1 /\ Called' = {1}
        /\ stack'[1].kind = "start" /\ stack'[1].at = "failing"
    BY <2>1, AttachmentMoves DEF Started, Points
  <2>3. TypeOK'
    BY <1>2, <2>1, <2>2 DEF IInv, TypeOK, Frames, Points
  <2>4. CallsNest'
    <3>1. stack'[1].at \in {"defer", "subscribe", "unsubscribe", "refreshed", "failing"}
      BY <2>2
    <3>2. ~(1 < Len(stack')) /\ Len(stack') > 0
      BY <2>2
    <3> QED BY <2>1, <2>2, <3>1, <3>2 DEF CallsNest
  <2>5. LastReadCounts' /\ SeesChanges'
    BY <1>1, <1>2, <2>1, <2>2 DEF IInv, Inv, LastReadCounts, SeesChanges, StartAt
  <2>6. HoldsTheSubscription'
    BY <1>1, <1>2, <1>3, <2>1, <2>2 DEF IInv, Inv, HoldsTheSubscription, StartAt
  <2>7. GoesOnce'
    BY <1>1, <1>2, <2>2 DEF IInv, Inv, GoesOnce, StartAt
  <2> QED BY <2>3, <2>4, <2>5, <2>6, <2>7 DEF IInv, Inv
<1> QED BY <1>4, <1>5

-----------------------------------------------------------------------------
(* Disposal.                                                               *)

\* The first disposal makes the bridge go, and outdates every read.
LEMMA Goes ==
    ASSUME IInv, NEW s \in Seq(Frames), shown # Gone, shown' = Gone,
           stack' = Append(Outdated(s), Frame("dispose", "set"))
    PROVE  /\ stack' \in Seq(Frames) /\ Len(s) \in Nat /\ Len(stack') = Len(s) + 1
           /\ \A i \in 1 .. Len(s) : /\ stack'[i].kind = s[i].kind /\ stack'[i].at = s[i].at
                                     /\ stack'[i].failed = s[i].failed
                                     /\ stack'[i].current = FALSE
           /\ stack'[Len(stack')].kind = "dispose" /\ stack'[Len(stack')].at = "set"
<1> DEFINE f == Frame("dispose", "set")  o == Outdated(s)
<1>1. f \in Frames /\ f.kind = "dispose" /\ f.at = "set"
  BY NewFrames DEF Frame, Points
<1>2. /\ o \in Seq(Frames) /\ Len(o) = Len(s) /\ Len(s) \in Nat
      /\ \A i \in 1 .. Len(s) : /\ o[i].kind = s[i].kind /\ o[i].at = s[i].at
                                /\ o[i].failed = s[i].failed /\ o[i].current = FALSE
  BY Outdating, LenProperties
<1> HIDE DEF f, o
<1>3. stack' = Append(o, f)
  BY DEF f, o
<1>4. /\ stack' \in Seq(Frames) /\ Len(stack') = Len(o) + 1 /\ stack'[Len(o) + 1] = f
      /\ \A i \in 1 .. Len(o) : stack'[i] = o[i]
  <2>1. /\ Append(o, f) \in Seq(Frames) /\ Len(Append(o, f)) = Len(o) + 1
        /\ \A i \in 1 .. Len(o) : Append(o, f)[i] = o[i]
        /\ Append(o, f)[Len(o) + 1] = f
    BY <1>1, <1>2, Pushed
  <2> QED BY <1>3, <2>1
<1> QED BY <1>1, <1>2, <1>4

LEMMA OwnerClosesSteps ==
    ASSUME IInv, OwnerCloses
    PROVE  IInv'
<1>1. /\ Foreign /\ phase # "new" /\ Disposing(stack)
      /\ UNCHANGED <<source, writes, listening, owed, reading, holds, failure, released, phase>>
  BY DEF OwnerCloses, MayCall, foreign
<1>2. /\ stack \in Seq(Frames) /\ Len(stack) \in Nat /\ (stack = <<>> <=> Len(stack) = 0)
      /\ stack # <<>> => Top = stack[Len(stack)]
  BY CallsAre DEF IInv
<1>3. {waiting', reported'} \subseteq BOOLEAN /\ (reported => reported')
  BY <1>1 DEF OwnerCloses, Disposing, IInv, TypeOK
<1>4. CASE shown = Gone
  <2>1. stack' = stack /\ shown' = shown /\ Called' = Called
    BY <1>1, <1>4 DEF Disposing, Called
  <2>2. TypeOK'
    BY <1>1, <1>3, <2>1 DEF IInv, TypeOK
  <2>3. CallsNest' /\ LastReadCounts'
    BY <1>1, <2>1 DEF IInv, Inv, CallsNest, LastReadCounts
  <2>4. SeesChanges' /\ HoldsTheSubscription'
    BY <1>1, <1>4, <2>1 DEF IInv, Inv, SeesChanges, HoldsTheSubscription, StartAt
  <2>5. GoesOnce'
    BY <1>1, <1>3, <2>1 DEF IInv, Inv, GoesOnce, StartAt
  <2> QED BY <2>2, <2>3, <2>4, <2>5 DEF IInv, Inv
<1>5. CASE shown # Gone
  <2>1. /\ stack' = Append(Outdated(stack), Frame("dispose", "set")) /\ shown' = Gone
        /\ reported' = reported
    BY <1>1, <1>5 DEF Disposing
  <2>2. /\ stack' \in Seq(Frames) /\ Len(stack') = Len(stack) + 1
        /\ \A i \in 1 .. Len(stack) :
             /\ stack'[i].kind = stack[i].kind /\ stack'[i].at = stack[i].at
             /\ stack'[i].failed = stack[i].failed /\ stack'[i].current = FALSE
        /\ stack'[Len(stack')].kind = "dispose" /\ stack'[Len(stack')].at = "set"
    BY <1>2, <1>5, <2>1, Goes
  <2>3. /\ Called \subseteq Called' /\ Len(stack') \in Called' /\ Len(stack') \notin Called
        /\ \A i \in Called' : i = Len(stack') \/ i \in Called
        /\ \A i \in Called : /\ i < Len(stack')
                             /\ stack'[i].kind = stack[i].kind /\ stack'[i].at = stack[i].at
                             /\ stack'[i].failed = stack[i].failed /\ stack'[i].current = FALSE
        /\ (1 \in Called <=> Len(stack) > 0) /\ (1 \notin Called => Len(stack') = 1)
        /\ Len(stack') > 0
    BY <1>2, <2>2 DEF Called
  <2>4. \A i \in Called : i < Len(stack) \/ stack[i].at \in
                {"defer", "subscribe", "unsubscribe", "get", "set", "release"}
    <3>1. ASSUME NEW i \in Called, ~(i < Len(stack))
          PROVE  stack[i].at \in {"defer", "subscribe", "unsubscribe", "get", "set", "release"}
      <4>1. i = Len(stack) /\ stack # <<>>
        BY <1>2, <3>1 DEF Called
      <4> QED BY <1>1, <1>2, <4>1 DEF Foreign
    <3> QED BY <3>1
  <2>5. \A points : StartAt(points)' <=> StartAt(points)
    BY <2>2, <2>3 DEF StartAt
  <2>6. released = 0 /\ ~failure
    BY <1>5 DEF IInv, Inv, GoesOnce
  <2>7. \A i \in Called : stack[i].kind # "dispose"
    BY <1>5 DEF IInv, Inv, GoesOnce
  <2>8. ~StartAt({"unsubscribe", "failing"})
    <3>1. CASE StartAt({"unsubscribe"})
      BY <1>5, <3>1 DEF IInv, Inv, HoldsTheSubscription
    <3>2. CASE StartAt({"failing"})
      <4>1. Len(stack) > 0 /\ stack[1].at = "failing" /\ 1 \in Called
        BY <2>3, <3>2 DEF StartAt
      <4> QED BY <2>4, <4>1 DEF IInv, Inv, CallsNest
    <3> QED BY <3>1, <3>2 DEF StartAt
  <2>9. TypeOK'
    BY <1>1, <1>3, <2>1, <2>2 DEF IInv, TypeOK, Frames, Points
  <2>10. CallsNest'
    <3>1. ASSUME NEW i \in Called'
          PROVE  /\ stack'[i].kind = "start" =>
                      i = 1 /\ stack'[i].at \in {"defer", "subscribe", "unsubscribe", "refreshed", "failing"}
                 /\ stack'[i].kind = "refresh" => stack'[i].at \in {"get", "set"}
                 /\ stack'[i].kind = "dispose" => stack'[i].at \in {"set", "release", "done"}
                 /\ i < Len(stack') => stack'[i].at \in {"defer", "subscribe", "unsubscribe", "get",
                                                        "set", "release", "refreshed"}
      <4>1. CASE i = Len(stack')
        BY <2>2, <4>1
      <4>2. CASE i \in Called
        BY <2>3, <2>4, <4>2 DEF IInv, Inv, CallsNest
      <4> QED BY <2>3, <4>1, <4>2
    <3>2. phase' = "starting" <=> (Len(stack') > 0 /\ stack'[1].kind = "start")
      BY <1>1, <2>2, <2>3 DEF IInv, Inv, CallsNest
    <3> QED BY <1>1, <2>1, <3>1, <3>2 DEF CallsNest
  <2>11. LastReadCounts'
    BY <1>1, <2>1, <2>2, <2>3 DEF IInv, Inv, LastReadCounts
  <2>12. SeesChanges'
    BY <2>1 DEF SeesChanges
  <2>13. HoldsTheSubscription'
    BY <1>1, <2>1, <2>5, <2>6, <2>8 DEF IInv, Inv, HoldsTheSubscription
  <2>14. GoesOnce'
    BY <1>1, <2>1, <2>2, <2>3, <2>5, <2>6, <2>7, <2>8 DEF IInv, Inv, GoesOnce
  <2> QED BY <2>9, <2>10, <2>11, <2>12, <2>13, <2>14 DEF IInv, Inv
<1> QED BY <1>4, <1>5

LEMMA UnwindSteps ==
    ASSUME IInv, Unwind
    PROVE  IInv'
<1>1. /\ Len(stack) = 1 /\ Called = {1} /\ stack[1].kind = "start" /\ stack[1].at = "failing"
      /\ reading = 0
  BY AttachmentRuns DEF Unwind
<1>2. /\ phase' = "failed" /\ Disposing(Front(stack))
      /\ UNCHANGED <<source, writes, listening, owed, reading, holds, failure, waiting, released>>
  BY DEF Unwind, foreign
<1>3. /\ Front(stack) \in Seq(Frames) /\ Len(Front(stack)) = 0
  BY <1>1, AttachmentRuns, Popped DEF Unwind
<1> DEFINE calls == Front(stack)
<1> HIDE DEF calls
<1>4. CASE shown = Gone
  <2>1. /\ stack' = calls /\ shown' = shown /\ reported' = (reported \/ failure)
    BY <1>2, <1>4 DEF Disposing, calls
  <2>2. stack' \in Seq(Frames) /\ Len(stack') = 0 /\ Called' = {}
    <3>1. stack' \in Seq(Frames) /\ Len(stack') = 0
      BY <1>3, <2>1 DEF calls
    <3> QED BY <3>1 DEF Called
  <2>3. TypeOK'
    BY <1>2, <2>1, <2>2 DEF IInv, TypeOK, Frames, Points
  <2>4. CallsNest' /\ LastReadCounts' /\ SeesChanges'
    BY <1>1, <1>2, <1>4, <2>1, <2>2 DEF CallsNest, LastReadCounts, SeesChanges
  <2>5. HoldsTheSubscription'
    BY <1>1, <1>2, <1>4, <2>1, <2>2 DEF IInv, Inv, HoldsTheSubscription, StartAt
  <2>6. GoesOnce'
    BY <1>1, <1>2, <1>4, <2>1, <2>2 DEF IInv, Inv, GoesOnce, StartAt
  <2> QED BY <2>3, <2>4, <2>5, <2>6 DEF IInv, Inv
<1>5. CASE shown # Gone
  <2>1. /\ stack' = Append(Outdated(calls), Frame("dispose", "set")) /\ shown' = Gone
        /\ reported' = reported
    BY <1>2, <1>5 DEF Disposing, calls
  <2>2. /\ stack' \in Seq(Frames) /\ Len(stack') = 1
        /\ stack'[1].kind = "dispose" /\ stack'[1].at = "set"
    <3>1. calls \in Seq(Frames) /\ Len(calls) = 0
      BY <1>3 DEF calls
    <3>2. /\ stack' \in Seq(Frames) /\ Len(stack') = Len(calls) + 1
          /\ stack'[Len(stack')].kind = "dispose" /\ stack'[Len(stack')].at = "set"
      BY <1>5, <2>1, <3>1, Goes
    <3> QED BY <3>1, <3>2
  <2>3. Called' = {1}
    BY <2>2 DEF Called
  <2>4. released = 0 /\ ~failure
    BY <1>5 DEF IInv, Inv, GoesOnce
  <2>5. TypeOK'
    BY <1>2, <2>1, <2>2 DEF IInv, TypeOK, Frames, Points
  <2>6. CallsNest' /\ LastReadCounts' /\ SeesChanges'
    BY <1>1, <1>2, <2>1, <2>2, <2>3 DEF CallsNest, LastReadCounts, SeesChanges
  <2>7. HoldsTheSubscription'
    BY <1>1, <1>2, <2>1, <2>2, <2>4 DEF IInv, Inv, HoldsTheSubscription, StartAt
  <2>8. GoesOnce'
    BY <1>1, <1>2, <2>1, <2>2, <2>3, <2>4 DEF IInv, Inv, GoesOnce, StartAt
  <2> QED BY <2>5, <2>6, <2>7, <2>8 DEF IInv, Inv
<1> QED BY <1>4, <1>5

\* A disposal that runs: the bridge is gone, and nobody else disposes of it.
LEMMA DisposalRuns ==
    ASSUME IInv, NEW at, Running("dispose", at)
    PROVE  /\ stack \in Seq(Frames) /\ Len(stack) \in Nat \ {0} /\ Len(stack) \in Called
           /\ Top = stack[Len(stack)] /\ Top \in Frames /\ (1 \in Called)
           /\ stack[Len(stack)].kind = "dispose" /\ stack[Len(stack)].at = at
           /\ shown = Gone /\ ~StartAt({"unsubscribe", "failing"})
           /\ \A i \in Called : stack[i].kind = "dispose" => i = Len(stack)
           /\ (Len(stack) = 1 => stack[1].kind # "start")
<1>1. /\ stack \in Seq(Frames) /\ Len(stack) \in Nat \ {0} /\ Len(stack) \in Called
      /\ Top = stack[Len(stack)] /\ Top \in Frames
      /\ stack[Len(stack)].kind = "dispose" /\ stack[Len(stack)].at = at
  BY RunningCall DEF IInv
<1>2. /\ shown = Gone /\ ~StartAt({"unsubscribe", "failing"})
      /\ \A i \in Called : stack[i].kind = "dispose" => i = Len(stack)
  BY <1>1 DEF IInv, Inv, GoesOnce
<1>3. 1 \in Called
  BY <1>1 DEF Called
<1> QED BY <1>1, <1>2, <1>3

LEMMA TerminatedSteps ==
    ASSUME IInv, Terminated
    PROVE  IInv'
<1>1. /\ stack \in Seq(Frames) /\ Len(stack) \in Nat \ {0} /\ Len(stack) \in Called
      /\ Top = stack[Len(stack)] /\ Top \in Frames /\ 1 \in Called
      /\ stack[Len(stack)].kind = "dispose" /\ stack[Len(stack)].at = "set"
      /\ shown = Gone /\ ~StartAt({"unsubscribe", "failing"})
      /\ \A i \in Called : stack[i].kind = "dispose" => i = Len(stack)
      /\ Len(stack) = 1 => stack[1].kind # "start"
  BY DisposalRuns DEF Terminated
<1>2. /\ released' = IF holds THEN released + 1 ELSE released
      /\ UNCHANGED <<source, writes, listening, owed, shown, reading, holds, failure, waiting,
                     reported, phase>>
  BY DEF Terminated, foreign
<1>3. released = 0
  BY <1>1 DEF IInv, Inv, GoesOnce
<1>4. PICK threw \in BOOLEAN, at \in {"release", "done"} :
        /\ stack' = [stack EXCEPT ![Len(stack)] = [Top EXCEPT !.failed = threw, !.at = at]]
        /\ at = "release" <=> holds
  <2>1. PICK threw \in BOOLEAN :
          stack' = [stack EXCEPT ![Depth].failed = threw,
                                 ![Depth].at = IF holds THEN "release" ELSE "done"]
    BY DEF Terminated
  <2>2. stack' = [stack EXCEPT ![Len(stack)] = [Top EXCEPT !.failed = threw,
                                  !.at = IF holds THEN "release" ELSE "done"]]
    BY <1>1, <2>1 DEF Depth
  <2> QED BY <2>2
<1> DEFINE f == [Top EXCEPT !.failed = threw, !.at = at]
<1>5. /\ f \in Frames /\ f.kind = Top.kind /\ f.current = Top.current /\ f.at = at
  <2>1. f \in Frames
    BY <1>1, FramesAre DEF Points
  <2>2. f.kind = Top.kind /\ f.current = Top.current /\ f.at = at
    BY <1>1 DEF Frames
  <2> QED BY <2>1, <2>2
<1>6. /\ stack' \in Seq(Frames) /\ Len(stack') = Len(stack)
      /\ \A i \in 1 .. Len(stack) - 1 : stack'[i] = stack[i]
      /\ stack'[Len(stack)] = f
  <2>1. stack # <<>> /\ stack \in Seq(Frames) /\ f \in Frames /\ stack' = [stack EXCEPT ![Len(stack)] = f]
    BY <1>1, <1>4, <1>5 DEF Terminated, Running
  <2> HIDE DEF f
  <2> QED BY <2>1, Replaced
<1>7. /\ Called' = Called /\ Len(stack') = Len(stack) /\ Len(stack) > 0
      /\ \A i \in Called : /\ stack'[i].kind = stack[i].kind /\ stack'[i].current = stack[i].current
                           /\ i # Len(stack) => stack'[i] = stack[i]
      /\ stack'[Len(stack)].at = at
  <2>1. Called' = Called /\ \A i \in Called : i # Len(stack) => i \in 1 .. Len(stack) - 1
    BY <1>1, <1>6 DEF Called
  <2>2. /\ stack'[Len(stack)].kind = stack[Len(stack)].kind
        /\ stack'[Len(stack)].current = stack[Len(stack)].current /\ stack'[Len(stack)].at = at
    BY <1>1, <1>5, <1>6
  <2>3. \A i \in Called : i # Len(stack) => stack'[i] = stack[i]
    BY <1>6, <2>1
  <2>4. Len(stack') = Len(stack) /\ Len(stack) > 0
    BY <1>1, <1>6
  <2> QED BY <2>1, <2>2, <2>3, <2>4
<1>8. \A points : StartAt(points)' <=> StartAt(points)
  <2>1. CASE Len(stack) = 1
    BY <1>1, <1>7, <2>1 DEF StartAt
  <2>2. CASE Len(stack) # 1
    <3>1. stack'[1] = stack[1]
      BY <1>1, <1>7, <2>2
    <3> QED BY <1>7, <3>1 DEF StartAt
  <2> QED BY <2>1, <2>2
<1>9. TypeOK'
  BY <1>2, <1>3, <1>6 DEF IInv, TypeOK, Frames, Points
<1>10. CallsNest'
  BY <1>1, <1>2, <1>4, <1>7 DEF IInv, Inv, CallsNest
<1>11. LastReadCounts' /\ SeesChanges'
  <2>1. LastReadCounts'
    BY <1>1, <1>2, <1>7 DEF IInv, Inv, LastReadCounts
  <2>2. SeesChanges'
    BY <1>1, <1>2 DEF SeesChanges
  <2> QED BY <2>1, <2>2
<1>12. HoldsTheSubscription'
  BY <1>1, <1>2, <1>3, <1>8 DEF IInv, Inv, HoldsTheSubscription
<1>13. GoesOnce'
  BY <1>1, <1>2, <1>4, <1>7, <1>8 DEF IInv, Inv, GoesOnce
<1> QED BY <1>9, <1>10, <1>11, <1>12, <1>13 DEF IInv, Inv

LEMMA ReleasedSteps ==
    ASSUME IInv, Released
    PROVE  IInv'
<1>1. /\ stack \in Seq(Frames) /\ Len(stack) \in Nat \ {0} /\ Len(stack) \in Called
      /\ Top = stack[Len(stack)] /\ Top \in Frames /\ 1 \in Called
      /\ stack[Len(stack)].kind = "dispose" /\ stack[Len(stack)].at = "release"
      /\ shown = Gone /\ ~StartAt({"unsubscribe", "failing"})
      /\ \A i \in Called : stack[i].kind = "dispose" => i = Len(stack)
      /\ Len(stack) = 1 => stack[1].kind # "start"
  BY DisposalRuns DEF Released
<1>2. UNCHANGED <<source, writes, shown, reading, failure, waiting, released, reported, phase>>
  BY DEF Released
<1>3. holds /\ listening
  BY <1>1 DEF IInv, Inv, GoesOnce, HoldsTheSubscription
<1>4. PICK f \in Frames :
        /\ f.kind = "dispose" /\ f.at = "done" /\ f.current = stack[Len(stack)].current
        /\ stack' = [stack EXCEPT ![Len(stack)] = f]
        /\ \/ listening' = FALSE /\ owed' = FALSE /\ holds' = FALSE
           \/ f.failed = TRUE /\ listening' = listening /\ owed' = owed /\ holds' = holds
  <2> DEFINE g == [Top EXCEPT !.at = "done"]
  <2>1. g \in Frames
    BY <1>1, FramesAre DEF Points
  <2>2. g.kind = "dispose" /\ g.at = "done" /\ g.current = Top.current
    BY <1>1 DEF Frames
  <2>3. Moved("done") = [stack EXCEPT ![Len(stack)] = g]
    BY <1>1 DEF Moved, Depth
  <2> HIDE DEF g
  <2>4. CASE listening' = FALSE /\ owed' = FALSE /\ holds' = FALSE /\ stack' = Moved("done")
    BY <1>1, <2>1, <2>2, <2>3, <2>4
  <2>5. CASE /\ listening' = listening /\ owed' = owed /\ holds' = holds
             /\ stack' = [Moved("done") EXCEPT ![Depth].failed = TRUE]
    <3> DEFINE h == [g EXCEPT !.failed = TRUE]
    <3>1. h \in Frames
      BY <2>1 DEF Frames
    <3>2. h.kind = "dispose" /\ h.at = "done" /\ h.current = Top.current /\ h.failed = TRUE
      BY <2>1, <2>2 DEF Frames
    <3>3. stack' = [stack EXCEPT ![Len(stack)] = h]
      <4>1. DOMAIN stack = 1 .. Len(stack)
        BY <1>1, LenProperties
      <4> QED BY <1>1, <2>3, <2>5, <4>1 DEF Depth
    <3> HIDE DEF h
    <3> QED BY <1>1, <2>5, <3>1, <3>2, <3>3
  <2> QED BY <2>4, <2>5 DEF Released
<1>5. /\ stack' \in Seq(Frames) /\ Len(stack') = Len(stack)
      /\ \A i \in 1 .. Len(stack) - 1 : stack'[i] = stack[i]
      /\ stack'[Len(stack)] = f
  <2>1. stack # <<>>
    BY DEF Released, Running
  <2> QED BY <1>1, <1>4, <2>1, Replaced
<1>6. /\ Called' = Called /\ Len(stack') = Len(stack) /\ Len(stack) > 0
      /\ \A i \in Called : /\ stack'[i].kind = stack[i].kind /\ stack'[i].current = stack[i].current
                           /\ i # Len(stack) => stack'[i] = stack[i]
      /\ stack'[Len(stack)].at = "done" /\ stack'[Len(stack)].failed = f.failed
  <2>1. Called' = Called /\ \A i \in Called : i # Len(stack) => i \in 1 .. Len(stack) - 1
    BY <1>1, <1>5 DEF Called
  <2>2. /\ stack'[Len(stack)].kind = stack[Len(stack)].kind /\ stack'[Len(stack)].at = "done"
        /\ stack'[Len(stack)].current = stack[Len(stack)].current
        /\ stack'[Len(stack)].failed = f.failed
    BY <1>1, <1>4, <1>5
  <2>3. \A i \in Called : i # Len(stack) => stack'[i] = stack[i]
    BY <1>5, <2>1
  <2>4. Len(stack') = Len(stack) /\ Len(stack) > 0
    BY <1>1, <1>5
  <2> QED BY <2>1, <2>2, <2>3, <2>4
<1>7. \A points : StartAt(points)' <=> StartAt(points)
  <2>1. CASE Len(stack) = 1
    BY <1>1, <1>6, <2>1 DEF StartAt
  <2>2. CASE Len(stack) # 1
    <3>1. stack'[1] = stack[1]
      BY <1>1, <1>6, <2>2
    <3> QED BY <1>6, <3>1 DEF StartAt
  <2> QED BY <2>1, <2>2
<1>8. ~StartAt({"defer", "subscribe"}) /\ ~StartAt({"unsubscribe"}) /\ ~StartAt({"subscribe"})
  <2>1. ~StartAt({"defer", "subscribe"})
    BY <1>3 DEF IInv, Inv, HoldsTheSubscription
  <2> QED BY <1>1, <2>1 DEF StartAt
<1>9. TypeOK'
  BY <1>2, <1>4, <1>5 DEF IInv, TypeOK, Frames, Points
<1>10. CallsNest'
  BY <1>1, <1>2, <1>3, <1>4, <1>6 DEF IInv, Inv, CallsNest
<1>11. LastReadCounts'
  BY <1>1, <1>2, <1>6 DEF IInv, Inv, LastReadCounts
<1>12. SeesChanges'
  BY <1>1, <1>2 DEF SeesChanges
<1>13. HoldsTheSubscription'
  <2>1. (holds' => listening') /\ (listening' => holds')
    BY <1>3, <1>4 DEF IInv, TypeOK
  <2>2. ~StartAt({"defer", "subscribe"})' /\ ~StartAt({"unsubscribe"})' /\ ~StartAt({"defer"})'
    BY <1>7, <1>8 DEF StartAt
  <2>3. shown' = Gone /\ released' <= 1
    BY <1>1, <1>2 DEF IInv, Inv, HoldsTheSubscription
  <2> QED BY <2>1, <2>2, <2>3 DEF HoldsTheSubscription
<1>14. GoesOnce'
  BY <1>1, <1>2, <1>4, <1>6, <1>7 DEF IInv, Inv, GoesOnce
<1> QED BY <1>9, <1>10, <1>11, <1>12, <1>13, <1>14 DEF IInv, Inv

LEMMA DisposedSteps ==
    ASSUME IInv, Disposed
    PROVE  IInv'
<1>1. /\ stack \in Seq(Frames) /\ Len(stack) \in Nat \ {0} /\ Len(stack) \in Called
      /\ Top = stack[Len(stack)] /\ Top \in Frames /\ 1 \in Called
      /\ stack[Len(stack)].kind = "dispose" /\ stack[Len(stack)].at = "done"
      /\ shown = Gone /\ ~StartAt({"unsubscribe", "failing"})
      /\ \A i \in Called : stack[i].kind = "dispose" => i = Len(stack)
      /\ Len(stack) = 1 => stack[1].kind # "start"
  BY DisposalRuns DEF Disposed
<1>2. /\ stack' = Front(stack) /\ stack # <<>>
      /\ UNCHANGED <<source, writes, listening, owed, shown, reading, holds, released, phase>>
  BY DEF Disposed, Running, foreign
<1>3. Top.failed \in BOOLEAN
  BY <1>1 DEF Frames
<1>4. /\ {failure', waiting', reported'} \subseteq BOOLEAN
      /\ Top.failed => failure' /\ reported'
      /\ ~Top.failed => (failure' <=> failure) /\ (reported' <=> reported)
  <2>1. failure' = (failure \/ Top.failed) /\ reported' = (reported \/ Top.failed)
    BY DEF Disposed
  <2>2. waiting' = (waiting \/ (Attaching /\ ~Top.failed))
    BY DEF Disposed
  <2>3. waiting' \in BOOLEAN
    BY <2>2
  <2> QED BY <1>3, <2>1, <2>3 DEF IInv, TypeOK
<1>5. /\ stack' \in Seq(Frames) /\ Len(stack') = Len(stack) - 1
      /\ Called' \subseteq Called /\ Len(stack') < Len(stack)
      /\ \A i \in Called : i = Len(stack) \/ i \in Called'
      /\ \A i \in Called' : i < Len(stack) /\ stack'[i] = stack[i]
      /\ 1 \in Called' <=> Len(stack') > 0
  BY <1>2, CallReturned DEF IInv
<1>6. Len(stack') > 0 \/ Len(stack) = 1
  BY <1>1, <1>5
<1>7. \A points : StartAt(points) <=> StartAt(points)'
  BY <1>1, <1>5, <1>6 DEF StartAt
<1>8. reading # Len(stack)
  BY <1>1 DEF IInv, Inv, LastReadCounts
<1>9. TypeOK'
  BY <1>2, <1>4, <1>5 DEF IInv, TypeOK, Frames, Points
<1>10. CallsNest'
  BY <1>1, <1>2, <1>4, <1>5, <1>6 DEF IInv, Inv, CallsNest
<1>11. LastReadCounts'
  BY <1>1, <1>2, <1>5, <1>8 DEF IInv, Inv, LastReadCounts
<1>12. SeesChanges'
  BY <1>1, <1>2 DEF SeesChanges
<1>13. HoldsTheSubscription'
  BY <1>1, <1>2, <1>7 DEF IInv, Inv, HoldsTheSubscription
<1>14. GoesOnce'
  BY <1>1, <1>2, <1>3, <1>4, <1>5, <1>7 DEF IInv, Inv, GoesOnce
<1> QED BY <1>9, <1>10, <1>11, <1>12, <1>13, <1>14 DEF IInv, Inv

LEMMA WaiterChecksSteps ==
    ASSUME IInv, WaiterChecks
    PROVE  IInv'
<1>1. /\ waiting' = FALSE /\ reported' = (reported \/ failure) /\ Called' = Called
      /\ UNCHANGED <<source, writes, listening, owed, shown, reading, holds, failure, released, phase,
                     stack>>
  BY DEF WaiterChecks, foreign, Called
<1>2. TypeOK'
  BY <1>1 DEF IInv, TypeOK
<1>3. CallsNest' /\ LastReadCounts' /\ SeesChanges' /\ HoldsTheSubscription'
  BY <1>1 DEF IInv, Inv, CallsNest, LastReadCounts, SeesChanges, HoldsTheSubscription, StartAt
<1>4. GoesOnce'
  BY <1>1 DEF IInv, Inv, GoesOnce, StartAt
<1> QED BY <1>2, <1>3, <1>4 DEF IInv, Inv

-----------------------------------------------------------------------------
(* The theorems.                                                           *)

LEMMA Begins == Init => IInv
<1> SUFFICES ASSUME Init PROVE IInv
  OBVIOUS
<1>1. Len(stack) = 0 /\ stack \in Seq(Frames) /\ stack = <<>>
  BY DEF Init
<1>2. Called = {}
  BY <1>1 DEF Called
<1>3. TypeOK
  <2>1. 0 \in 0 .. MaxWrites
    <3>1. MaxWrites \in Nat
      BY BridgeAssumption
    <3> QED BY <3>1
  <2> QED BY <1>1, <2>1, Bounds DEF Init, TypeOK, Frames, Points
<1>4. Inv
  BY <1>1, <1>2 DEF Init, Inv, CallsNest, LastReadCounts, SeesChanges, HoldsTheSubscription,
                    GoesOnce, StartAt
<1> QED BY <1>3, <1>4 DEF IInv

\* Whoever calls whom in the middle of what: a read that is still to come will
\* see what has changed, and the subscription has somebody who will end it.
THEOREM Invariance == Spec => []IInv
<1>1. Init => IInv
  BY Begins
<1>2. IInv /\ [Next]_vars => IInv'
  <2> SUFFICES ASSUME IInv, [Next]_vars
               PROVE  IInv'
    OBVIOUS
  <2>1. CASE \E v \in Contents : Write(v)
    BY <2>1, WriteSteps
  <2>2. CASE Notify \/ Get \/ GetReturns \/ Told
    BY <2>2, NotifySteps, GetSteps, GetReturnsSteps, ToldSteps
  <2>3. CASE Construct \/ Deferred \/ SourceListens \/ SubscribeThrows \/ Subscribed
    BY <2>3, ConstructSteps, DeferredSteps, SourceListensSteps, SubscribeThrowsSteps, SubscribedSteps
  <2>4. CASE Unsubscribed \/ Started
    BY <2>4, UnsubscribedSteps, StartedSteps
  <2>5. CASE OwnerCloses \/ Unwind \/ Terminated \/ Released \/ Disposed \/ WaiterChecks
    BY <2>5, OwnerClosesSteps, UnwindSteps, TerminatedSteps, ReleasedSteps, DisposedSteps,
       WaiterChecksSteps
  <2>6. CASE UNCHANGED vars
    BY <2>6 DEF vars, foreign, closing, IInv, TypeOK, Inv, CallsNest, LastReadCounts, SeesChanges,
                HoldsTheSubscription, GoesOnce, StartAt, Called
  <2> QED BY <2>1, <2>2, <2>3, <2>4, <2>5, <2>6 DEF Next
<1> QED BY <1>1, <1>2, PTL DEF Spec

\* Between calls a bridge that lives shows what its source holds, unless the
\* source has still to notify it: no refresh, however they overtake each other,
\* leaves it behind.
THEOREM BridgesKeepUp == Spec => []ShowsTheLatest
<1>1. IInv => ShowsTheLatest
  <2> SUFFICES ASSUME IInv, stack = <<>>, phase = "ready", shown # Gone, ~owed
               PROVE  shown = source
    BY DEF ShowsTheLatest
  <2>1. Len(stack) = 0 /\ Called = {}
    BY CallsAre DEF IInv, Called
  <2>2. reading = 0 /\ listening
    BY <2>1 DEF IInv, Inv, LastReadCounts, HoldsTheSubscription
  <2> QED BY <2>1, <2>2 DEF IInv, Inv, SeesChanges, StartAt
<1> QED BY <1>1, Invariance, PTL

\* A subscription is asked to end at most once, and when the bridge is gone and
\* all calls have returned it has ended, or somebody was told that it would not.
THEOREM SubscriptionsEnd == Spec => []ReleaseIsHonest
<1>1. IInv => ReleaseIsHonest
  <2> SUFFICES ASSUME IInv PROVE ReleaseIsHonest
    OBVIOUS
  <2>1. released <= 1
    BY DEF IInv, Inv, HoldsTheSubscription
  <2>2. ASSUME stack = <<>>, phase = "failed" \/ (phase = "ready" /\ shown = Gone)
        PROVE  shown = Gone /\ (listening => failure) /\ (failure => reported)
    <3>1. Len(stack) = 0 /\ Called = {}
      BY <2>2, CallsAre DEF IInv, Called
    <3>2. shown = Gone
      BY <2>2 DEF IInv, Inv, CallsNest
    <3>3. listening => failure
      BY <3>1, <3>2 DEF IInv, Inv, HoldsTheSubscription, GoesOnce, StartAt
    <3>4. failure => reported
      BY <3>1 DEF IInv, Inv, GoesOnce, StartAt
    <3> QED BY <3>2, <3>3, <3>4
  <2> QED BY <2>1, <2>2 DEF ReleaseIsHonest
<1> QED BY <1>1, Invariance, PTL
===============================================================================
