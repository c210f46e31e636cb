-------------------------------- MODULE Bridge --------------------------------
(***************************************************************************)
(* bridge(): any readable source seen as a signal, owned by an owner       *)
(* (packages/reactive/src/bridge.ts).                                      *)
(*                                                                         *)
(* Everything is synchronous, but every call of foreign code (the source,  *)
(* the owner, the signal's observers) may write the source, let it notify, *)
(* or dispose the bridge before it returns.  The calls that are under way  *)
(* form a stack of which only the last one runs.                           *)
(*                                                                         *)
(* Foreign code runs outside of calculations, where writing is refused.    *)
(***************************************************************************)
EXTENDS Integers, Sequences, SequencesExt

CONSTANTS
    Values,             \* what the source may hold
    MaxWrites, MaxDepth \* bounds on writes and on nested calls

ASSUME BridgeAssumption ==
    /\ MaxWrites \in Nat /\ MaxDepth \in Nat \ {0}
    /\ Values \intersect {"error", "gone", "not yet"} = {}

VARIABLES
    source,     \* what source.get() returns, or Error when it throws
    writes,
    listening,  \* has the source our listener?
    owed,       \* has it still to notify?
    shown,      \* #value: what the bridge shows, Error, or Gone for undefined
    reading,    \* #reading: the depth of a call of #refresh, or 0
    holds,      \* #release # undefined
    failure,    \* #failure # undefined
    phase,      \* of bridge(): "new", "starting", "ready", "failed"
    stack,      \* the calls under way, the running one last
    waiting,    \* does a cleanup wait until the attachment has ended?
    released,   \* history: how often the subscription was asked to end
    reported    \* history: was the failure thrown to somebody?

foreign == <<source, writes, owed>>
closing == <<holds, failure, waiting, released, reported>>
vars == <<foreign, listening, shown, reading, closing, phase, stack>>

Error == "error"
Gone == "gone"
NotYet == "not yet"
Contents == Values \union {Error}
Frame(kind, at) == [kind |-> kind, at |-> at, current |-> TRUE, got |-> NotYet, failed |-> FALSE]

Init ==
    /\ source \in Contents /\ writes = 0
    /\ listening = FALSE /\ owed = FALSE
    /\ shown = Gone /\ reading = 0
    /\ holds = FALSE /\ failure = FALSE
    /\ phase = "new" /\ stack = <<>> /\ waiting = FALSE
    /\ released = 0 /\ reported = FALSE

Depth == Len(stack)
Top == Last(stack)
Running(kind, at) == stack # <<>> /\ Top.kind = kind /\ Top.at = at
Moved(at) == [stack EXCEPT ![Depth].at = at]
\* Foreign code is running, and may call.
Foreign == stack # <<>> =>
             Top.at \in {"defer", "subscribe", "unsubscribe", "get", "set", "release"}
MayCall == Foreign /\ Depth < MaxDepth
\* What signal.set() does to the calls that remember the state before.
Outdated(calls) == [i \in DOMAIN calls |-> [calls[i] EXCEPT !.current = FALSE]]

-----------------------------------------------------------------------------
(* The source.                                                             *)

Write(v) ==
    /\ Foreign /\ writes < MaxWrites /\ v # source
    /\ source' = v /\ writes' = writes + 1
    /\ owed' = listening
    /\ UNCHANGED <<listening, shown, reading, closing, phase, stack>>

\* #refresh begins, unless the bridge is gone.
Refreshing(calls) ==
    IF shown = Gone THEN stack' = calls /\ UNCHANGED reading
    ELSE /\ stack' = Append(calls, Frame("refresh", "get"))
         /\ reading' = Len(calls) + 1

\* The source calls its listener, also without a change.
Notify ==
    /\ MayCall /\ listening
    /\ owed' = FALSE
    /\ Refreshing(stack)
    /\ UNCHANGED <<source, writes, listening, shown, closing, phase>>

-----------------------------------------------------------------------------
(* #refresh.                                                               *)

\* The getter makes up its mind, some time before it returns.
Get ==
    /\ Running("refresh", "get") /\ Top.got = NotYet
    /\ stack' = [stack EXCEPT ![Depth].got = source]
    /\ UNCHANGED <<foreign, listening, shown, reading, closing, phase>>

\* Mutant: only a state that was set since makes a read obsolete.
OvertakenObsolete == ~Top.current
\* Another refresh has read since, or another state was set.
Obsolete == reading # Depth \/ ~Top.current

GetReturns ==
    /\ Running("refresh", "get") /\ Top.got # NotYet
    /\ IF Obsolete \/ Top.got = shown
       THEN stack' = Front(stack) /\ reading' = 0 /\ UNCHANGED shown
       ELSE /\ shown' = Top.got
            /\ stack' = Outdated(Moved("set"))
            /\ UNCHANGED reading
    /\ UNCHANGED <<foreign, listening, closing, phase>>

\* The observers have been told; one of them may have thrown, which ends an
\* attachment that refreshes.
Told ==
    /\ Running("refresh", "set")
    /\ reading' = 0
    /\ LET calls == Front(stack) IN
       \/ stack' = calls
       \/ /\ calls # <<>> /\ Last(calls).at = "refreshed"
          /\ stack' = [calls EXCEPT ![Len(calls)].at = "failing"]
    /\ UNCHANGED <<foreign, listening, shown, closing, phase>>

-----------------------------------------------------------------------------
(* bridge() and #start.                                                    *)

\* The first read, which may throw; then owner.defer() is called.
Construct ==
    /\ phase = "new" /\ stack = <<>>
    /\ IF source = Error
       THEN phase' = "failed" /\ UNCHANGED <<shown, stack>>
       ELSE /\ phase' = "starting" /\ shown' = source
            /\ stack' = <<Frame("start", "defer")>>
    /\ UNCHANGED <<foreign, listening, reading, closing>>

Deferred ==
    /\ Running("start", "defer")
    /\ stack' \in {Moved("failing")}
                  \union (IF shown = Gone THEN {} ELSE {Moved("subscribe")})
    /\ UNCHANGED <<foreign, listening, shown, reading, closing, phase>>

\* subscribe() registers the listener before it returns, or throws.
SourceListens ==
    /\ Running("start", "subscribe") /\ ~listening
    /\ listening' = TRUE
    /\ UNCHANGED <<foreign, shown, reading, closing, phase, stack>>
SubscribeThrows ==
    /\ Running("start", "subscribe") /\ ~listening
    /\ stack' = Moved("failing")
    /\ UNCHANGED <<foreign, listening, shown, reading, closing, phase>>

\* Mutant: nobody looks whether the bridge is gone meanwhile.
HastyRevoked == FALSE
Revoked == shown = Gone

\* Hold the subscription; return it if the owner has closed meanwhile, else
\* read again.
Subscribed ==
    /\ Running("start", "subscribe") /\ listening
    /\ holds' = TRUE
    /\ IF Revoked
       THEN /\ stack' = Moved("unsubscribe") /\ released' = released + 1
            /\ UNCHANGED reading
       ELSE Refreshing(Moved("refreshed")) /\ UNCHANGED released
    /\ UNCHANGED <<foreign, listening, shown, failure, waiting, reported, phase>>

Unsubscribed ==
    /\ Running("start", "unsubscribe")
    /\ \/ listening' = FALSE /\ owed' = FALSE /\ holds' = FALSE /\ UNCHANGED failure
       \/ failure' = TRUE /\ UNCHANGED <<listening, owed, holds>>
    /\ stack' = Moved("failing")
    /\ UNCHANGED <<source, writes, shown, reading, waiting, released, reported, phase>>

\* The last check of an attachment: the view can be read.
Started ==
    /\ Running("start", "refreshed")
    /\ IF shown \in Values
       THEN phase' = "ready" /\ stack' = Front(stack)
       ELSE stack' = Moved("failing") /\ UNCHANGED phase
    /\ UNCHANGED <<foreign, listening, shown, reading, closing>>

-----------------------------------------------------------------------------
(* Disposal.                                                               *)

Attaching == \E i \in DOMAIN stack : stack[i].kind = "start"

\* Dispose: the first call makes the bridge go and tells its observers; a
\* later one only reports what the first has left.
Disposing(calls) ==
    IF shown = Gone
    THEN /\ stack' = calls /\ reported' = (reported \/ failure)
         /\ UNCHANGED shown
    ELSE /\ stack' = Append(Outdated(calls), Frame("dispose", "set"))
         /\ shown' = Gone
         /\ UNCHANGED reported

\* The cleanup runs, also while it is being registered and more than once; the
\* owner waits for an attachment to end.
OwnerCloses ==
    /\ MayCall /\ phase # "new"
    /\ Disposing(stack)
    /\ waiting' = (waiting \/ (shown = Gone /\ ~failure /\ Attaching))
    /\ UNCHANGED <<foreign, listening, reading, holds, failure, released, phase>>

\* The factory unwinds an attachment that threw.
Unwind ==
    /\ Running("start", "failing")
    /\ phase' = "failed"
    /\ Disposing(Front(stack))
    /\ UNCHANGED <<foreign, listening, reading, holds, failure, waiting, released>>

\* The observers have been told, whether or not they threw; the subscription
\* ends if there is one.
Terminated ==
    /\ Running("dispose", "set")
    /\ \E threw \in BOOLEAN :
         stack' = [stack EXCEPT ![Depth].failed = threw,
                                ![Depth].at = IF holds THEN "release" ELSE "done"]
    /\ released' = IF holds THEN released + 1 ELSE released
    /\ UNCHANGED <<foreign, listening, shown, reading, holds, failure, waiting, reported, phase>>

Released ==
    /\ Running("dispose", "release")
    /\ \/ /\ listening' = FALSE /\ owed' = FALSE /\ holds' = FALSE
          /\ stack' = Moved("done")
       \/ /\ stack' = [Moved("done") EXCEPT ![Depth].failed = TRUE]
          /\ UNCHANGED <<listening, owed, holds>>
    /\ UNCHANGED <<source, writes, shown, reading, failure, waiting, released, reported, phase>>

Disposed ==
    /\ Running("dispose", "done")
    /\ failure' = (failure \/ Top.failed)
    /\ reported' = (reported \/ Top.failed)
    /\ waiting' = (waiting \/ (Attaching /\ ~Top.failed))
    /\ stack' = Front(stack)
    /\ UNCHANGED <<foreign, listening, shown, reading, holds, released, phase>>

\* The owner that waited joins the outcome.
WaiterChecks ==
    /\ stack = <<>> /\ waiting
    /\ waiting' = FALSE
    /\ reported' = (reported \/ failure)
    /\ UNCHANGED <<foreign, listening, shown, reading, holds, failure, released, phase, stack>>

Next ==
    \/ \E v \in Contents : Write(v)
    \/ Notify \/ Get \/ GetReturns \/ Told
    \/ Construct \/ Deferred \/ SourceListens \/ SubscribeThrows \/ Subscribed
    \/ Unsubscribed \/ Started
    \/ OwnerCloses \/ Unwind \/ Terminated \/ Released \/ Disposed \/ WaiterChecks

Spec == Init /\ [][Next]_vars

-----------------------------------------------------------------------------
TypeOK ==
    /\ source \in Contents /\ writes \in 0 .. MaxWrites
    /\ shown \in Contents \union {Gone}
    /\ {listening, owed, holds, failure, waiting, reported} \subseteq BOOLEAN
    /\ reading \in 0 .. MaxDepth + 1 /\ released \in Nat
    /\ phase \in {"new", "starting", "ready", "failed"}
    /\ stack \in Seq([kind : {"start", "refresh", "dispose"},
                      at : {"defer", "subscribe", "unsubscribe", "refreshed", "failing",
                            "get", "set", "release", "done"},
                      current : BOOLEAN, got : Contents \union {NotYet}, failed : BOOLEAN])

\* Between calls a live bridge shows what its source holds, as soon as the
\* source has notified: however the reads overtook each other, whether the
\* source changed during the attachment, during a read or while the observers
\* were told, and back to what it was (bridge.ts 89 to 112).
ShowsTheLatest ==
    stack = <<>> /\ phase = "ready" /\ shown # Gone /\ ~owed => shown = source

\* A bridge that is gone, or never came to be, has given its subscription back,
\* or somebody was told that it could not; it asks only once, although owner
\* and factory may both dispose it at any point of the attachment
\* (bridge.ts 43 to 83 and 126 to 153).
ReleaseIsHonest ==
    /\ released <= 1
    /\ stack = <<>> /\ ~waiting /\ (phase = "failed" \/ (phase = "ready" /\ shown = Gone)) =>
         /\ shown = Gone
         /\ listening => failure
         /\ failure => reported
=============================================================================
