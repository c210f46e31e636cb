---------------------------- MODULE Observation -----------------------------
(***************************************************************************)
(* observe() of the reactive package: reactive/src/observe.ts.              *)
(*                                                                         *)
(* An observation builds a child owner for the value of a source, and a     *)
(* drain task of its owner replaces the child when the value changes: it    *)
(* joins the release of the old child first.  It ends when its handle is    *)
(* disposed, its owner shuts down, or a replacement fails.                  *)
(*                                                                         *)
(* subscribe(), child(), the observer and spawn() are calls into foreign    *)
(* code: while one of them runs (call), others may write the source or      *)
(* close the owner, but no promise reaction runs.  get() is atomic.         *)
(***************************************************************************)
EXTENDS Integers

CONSTANTS
    Values,     \* what the source may hold
    MaxWrites,  \* bound on the writes
    None

ASSUME ObservationAssumption == Values # {} /\ None \notin Values /\ MaxWrites \in Nat

\* A replacement needs a notification, so there are no more children than this.
Children == 1..(MaxWrites + 1)

VARIABLES
    source,       \* the value of the source
    writes,       \* how often it has been written
    owed,         \* has its listener still to be called?
    constructed,  \* how far observe() has come: "starting" is #starting
    call,         \* the foreign code that is running
    reading,      \* the value the observer was given
    phase,        \* of #state
    observed,     \* #observed
    dirty,        \* #dirty
    subscription, \* #unsubscribe and what came of it
    made,         \* how many children there have been; the last one is #current
    child,        \* and how they are: #currentRelease is that of the last one
    drain,        \* where #drain stands
    task,         \* is there a #drainTask to cancel?
    aborted,      \* the signal of that task
    owner,        \* is the owner shutting down?
    registered,   \* #ownerCleanup
    asked,        \* has the owner been asked for its cleanup?
    closing,      \* #closingRegistration
    disposal,     \* #disposePromise
    work,         \* where #disposeResources stands
    joined,       \* does it join the drain?
    errors        \* has it collected any?

sourceVars == <<source, writes, owed>>
callVars   == <<constructed, call, reading>>
childVars  == <<made, child>>
ownerVars  == <<owner, asked, closing>>
closeVars  == <<subscription, aborted, registered, disposal, work, joined, errors>>
vars == <<sourceVars, callVars, childVars, ownerVars, closeVars,
          phase, observed, dirty, drain, task>>

Outcomes == {"done", "failed"}

TypeOK ==
    /\ source \in Values /\ writes \in 0..MaxWrites /\ owed \in BOOLEAN
    /\ constructed \in {"starting", "ready", "failed"}
    /\ call \in {"none", "subscribe", "child", "observer", "spawn"}
    /\ reading \in Values \union {None} /\ observed \in Values \union {None}
    /\ phase \in {"active", "stopped", "disposed"} /\ dirty \in BOOLEAN
    /\ subscription \in {"none", "held", "ended", "failed"}
    /\ made \in 0..(MaxWrites + 1)
    /\ child \in [Children -> {"none", "open", "releasing", "released", "failed"}]
    /\ drain \in {"none", "running", "waiting", "releasing", "stopping"} \union Outcomes
    /\ task \in BOOLEAN /\ aborted \in BOOLEAN
    /\ owner \in {"open", "closing"} /\ registered \in BOOLEAN /\ asked \in BOOLEAN
    /\ closing \in {"none", "pending"} \union Outcomes
    /\ disposal \in {"none", "pending"} \union Outcomes
    /\ work \in {"none", "deferred", "joining", "releasing", "over"}
    /\ joined \in BOOLEAN /\ errors \in BOOLEAN

\* observe() has registered its cleanup and subscribes to the source.
Init ==
    /\ source \in Values /\ writes = 0 /\ owed = FALSE
    /\ constructed = "starting" /\ call = "subscribe" /\ reading = None
    /\ phase = "active" /\ observed = None /\ dirty = FALSE
    /\ subscription = "none" /\ made = 0 /\ child = [c \in Children |-> "none"]
    /\ drain = "none" /\ task = FALSE /\ aborted = FALSE
    /\ owner = "open" /\ registered = TRUE /\ asked = FALSE /\ closing = "none"
    /\ disposal = "none" /\ work = "none" /\ joined = FALSE /\ errors = FALSE

Starting == constructed = "starting"
Idle == call = "none"

\* #current, and has its release settled?
Current(c) == c # 0 /\ child[c] # "released"
Settled(c) == c # 0 => child[c] \in {"released", "failed"}

Awake(d) == IF d = "waiting" THEN "running" ELSE d

-----------------------------------------------------------------------------
(* The source.                                                             *)

Write ==
    /\ writes < MaxWrites /\ writes' = writes + 1
    /\ source' \in Values \ {source}
    /\ owed' = (subscription # "none")
    /\ UNCHANGED <<callVars, childVars, ownerVars, closeVars, phase, observed, dirty, drain, task>>

\* #invalidate, by a listener that is told at once or after a batch.
Invalidate ==
    /\ owed /\ owed' = FALSE
    /\ IF phase = "active" THEN dirty' = TRUE /\ drain' = Awake(drain)
                           ELSE UNCHANGED <<dirty, drain>>
    /\ UNCHANGED <<source, writes, callVars, childVars, ownerVars, closeVars, phase, observed, task>>

-----------------------------------------------------------------------------
(* Failures.                                                               *)

\* The drain does not wait for itself.
StoppedTask == FALSE

\* #stop, by the drain: close the registration and wait for that.
Stop ==
    /\ phase' = "stopped" /\ observed' = None /\ dirty' = FALSE
    /\ task' = StoppedTask /\ drain' = "stopping"
    /\ IF closing = "none" THEN closing' = "pending" /\ asked' = TRUE
                           ELSE UNCHANGED <<closing, asked>>

\* An error leaves observe(), which rolls back, or the loop of #drain.
Raise ==
    /\ call' = "none"
    /\ IF Starting
       THEN /\ constructed' = "failed" /\ asked' = TRUE
            /\ UNCHANGED <<closing, phase, observed, dirty, drain, task>>
       ELSE /\ UNCHANGED constructed
            /\ IF phase = "active" THEN Stop
               ELSE /\ drain' = "failed" /\ task' = FALSE
                    /\ UNCHANGED <<closing, asked, phase, observed, dirty>>

Continue == UNCHANGED <<constructed, closing, asked, phase, observed, dirty, drain, task>>

-----------------------------------------------------------------------------
(* Foreign calls of #attach and #createCurrent.                            *)

\* subscribe() returns; #requireBinding comes after it.
Subscribed ==
    /\ call = "subscribe" /\ subscription' = "held"
    /\ IF phase = "active" THEN call' = "child" /\ Continue ELSE Raise
    /\ UNCHANGED <<sourceVars, reading, childVars, owner, aborted, registered, disposal, work,
                   joined, errors>>

\* child() returns the next child; read the source for it.
ChildMade ==
    /\ call = "child" /\ made' = made + 1 /\ child' = [child EXCEPT ![made + 1] = "open"]
    /\ IF ~Starting /\ aborted THEN call' = "none" /\ Continue /\ UNCHANGED reading
       ELSE IF phase = "active" THEN call' = "observer" /\ reading' = source /\ Continue
       ELSE Raise /\ UNCHANGED reading
    /\ UNCHANGED <<sourceVars, owner, closeVars>>

\* subscribe(), child(), the reading, the observer or spawn() throws.
CallFails ==
    /\ call # "none" /\ Raise
    /\ \/ UNCHANGED childVars
       \/ call = "child" /\ made' = made + 1 /\ child' = [child EXCEPT ![made + 1] = "open"]
    /\ UNCHANGED <<sourceVars, reading, owner, closeVars>>

\* Mutant: the dirty mark is reset after the replacement instead of before.
ForgottenDirt == FALSE
\* A change during the replacement is left for the next round.
Dirt == dirty

\* The observer returns; observe() goes on to spawn the drain.
Observes ==
    /\ call = "observer"
    /\ IF phase = "active"
       THEN /\ observed' = reading /\ dirty' = Dirt
            /\ call' = IF Starting THEN "spawn" ELSE "none"
            /\ UNCHANGED <<constructed, closing, asked, phase, drain, task>>
       ELSE IF Starting THEN Raise
       ELSE call' = "none" /\ Continue
    /\ UNCHANGED <<sourceVars, reading, childVars, owner, closeVars>>

\* spawn() returns and so does observe().
Spawned ==
    /\ call = "spawn" /\ call' = "none" /\ constructed' = "ready"
    /\ drain' = "running" /\ task' = TRUE
    /\ UNCHANGED <<sourceVars, reading, childVars, ownerVars, closeVars, phase, observed, dirty>>

-----------------------------------------------------------------------------
(* The drain.                                                              *)

DrainEnds ==
    /\ drain = "running" /\ Idle /\ (phase # "active" \/ aborted)
    /\ drain' = "done" /\ task' = FALSE
    /\ UNCHANGED <<sourceVars, callVars, childVars, ownerVars, closeVars, phase, observed, dirty>>

DrainWaits ==
    /\ drain = "running" /\ Idle /\ phase = "active" /\ ~aborted
    /\ ~dirty /\ drain' = "waiting"
    /\ UNCHANGED <<sourceVars, callVars, childVars, ownerVars, closeVars, phase, observed, dirty, task>>

\* Begin the release of the last child, or join it if it has begun.
ReleaseCurrent == child' = IF made # 0 /\ child[made] = "open"
                           THEN [child EXCEPT ![made] = "releasing"] ELSE child

\* #replaceCurrent up to the release it joins.
Replace ==
    /\ drain = "running" /\ Idle /\ phase = "active" /\ ~aborted
    /\ dirty /\ dirty' = FALSE
    /\ IF observed = source THEN UNCHANGED <<drain, child>>
                            ELSE drain' = "releasing" /\ ReleaseCurrent
    /\ UNCHANGED <<sourceVars, callVars, made, ownerVars, closeVars, phase, observed, task>>

\* The reading of the source fails.
ReplaceFails ==
    /\ drain = "running" /\ Idle /\ phase = "active" /\ ~aborted /\ dirty
    /\ Stop /\ UNCHANGED <<sourceVars, callVars, childVars, owner, closeVars>>

\* Mutant: the replacement does not look at how the release ended.
Replaceable(c) == c # 0 => child[c] \in {"released", "failed"}
\* A failed release is never followed by another child.
Released(c) == c # 0 => child[c] = "released"

\* The release is over: make the next child.
Replaced ==
    /\ drain = "releasing" /\ Idle /\ Released(made)
    /\ observed' = None /\ drain' = "running"
    /\ call' = IF phase # "active" \/ aborted THEN "none" ELSE "child"
    /\ UNCHANGED <<sourceVars, constructed, reading, childVars, ownerVars, closeVars, phase, dirty, task>>

ReleaseFailed ==
    /\ drain = "releasing" /\ Idle /\ Current(made) /\ child[made] = "failed"
    /\ Raise /\ UNCHANGED <<sourceVars, reading, childVars, owner, closeVars>>

\* The registration has been closed: the drain rejects.
StopEnds ==
    /\ drain = "stopping" /\ Idle /\ closing \in Outcomes /\ drain' = "failed"
    /\ UNCHANGED <<sourceVars, callVars, childVars, ownerVars, closeVars, phase, observed, dirty, task>>

-----------------------------------------------------------------------------
(* Closing.                                                                *)

\* The handle is disposed: #closeRegistration.
Close ==
    /\ constructed = "ready" /\ registered /\ closing = "none"
    /\ closing' = "pending" /\ asked' = TRUE
    /\ UNCHANGED <<sourceVars, callVars, childVars, owner, closeVars, phase, observed, dirty, drain, task>>

\* The owner begins its shutdown: it cancels its tasks.
OwnerCloses ==
    /\ owner = "open" /\ owner' = "closing"
    /\ aborted' = TRUE /\ drain' = Awake(drain)
    /\ UNCHANGED <<sourceVars, callVars, childVars, asked, closing, subscription, registered,
                   disposal, work, joined, errors, phase, observed, dirty, task>>

\* The first section of #disposeResources.
ReleaseResources ==
    /\ work' = "joining"
    /\ \E outcome \in {"ended", "failed"} :
         /\ subscription' = IF subscription = "held" THEN outcome ELSE subscription
         /\ errors' = (subscription = "held" /\ outcome = "failed")
    /\ joined' = task /\ task' = FALSE /\ aborted' = (aborted \/ task)

\* Mutant: disposal does not wait for the factory.
Reckless == FALSE
\* Does observe() still have to return resources?
Deferred == Starting

\* dispose(), called by the owner: on request, or once its tasks have ended.
Dispose ==
    /\ disposal = "none" /\ disposal' = "pending"
    /\ asked \/ (owner = "closing" /\ drain \in {"none"} \union Outcomes)
    /\ registered' = FALSE /\ phase' = "disposed" /\ observed' = None /\ dirty' = FALSE
    /\ drain' = Awake(drain)
    /\ IF Deferred
       THEN work' = "deferred" /\ UNCHANGED <<subscription, errors, joined, task, aborted>>
       ELSE ReleaseResources
    /\ UNCHANGED <<sourceVars, callVars, childVars, ownerVars>>

\* The factory has returned: go on with its resources.
DisposeDeferred ==
    /\ work = "deferred" /\ Idle /\ ReleaseResources /\ drain' = Awake(drain)
    /\ UNCHANGED <<sourceVars, callVars, childVars, ownerVars, registered, disposal, phase,
                   observed, dirty>>

\* The drain has been joined; a task may answer its cancellation with its error.
DrainJoined ==
    /\ work = "joining" /\ Idle /\ (joined => drain \in Outcomes)
    /\ work' = "releasing" /\ ReleaseCurrent
    /\ errors' \in {errors, errors \/ (joined /\ drain = "failed")}
    /\ UNCHANGED <<sourceVars, callVars, made, ownerVars, subscription, aborted, registered,
                   disposal, joined, phase, observed, dirty, drain, task>>

\* A child ends its release.
ChildReleased ==
    /\ Idle /\ made # 0 /\ child[made] = "releasing"
    /\ \E outcome \in {"released", "failed"} : child' = [child EXCEPT ![made] = outcome]
    /\ UNCHANGED <<sourceVars, callVars, made, ownerVars, closeVars, phase, observed, dirty, drain, task>>

Disposed ==
    /\ work = "releasing" /\ Idle /\ Settled(made)
    /\ work' = "over" /\ disposal' = IF errors \/ Current(made) THEN "failed" ELSE "done"
    /\ UNCHANGED <<sourceVars, callVars, childVars, ownerVars, subscription, aborted, registered,
                   joined, errors, phase, observed, dirty, drain, task>>

\* The owner answers whoever closed the registration.
Closed ==
    /\ closing = "pending" /\ Idle /\ disposal \in Outcomes /\ closing' = disposal
    /\ UNCHANGED <<sourceVars, callVars, childVars, owner, asked, closeVars, phase, observed, dirty,
                   drain, task>>

-----------------------------------------------------------------------------
Returns   == Subscribed \/ ChildMade \/ CallFails \/ Observes \/ Spawned
Drains    == DrainEnds \/ DrainWaits \/ Replace \/ ReplaceFails \/ Replaced \/ ReleaseFailed
             \/ StopEnds
Disposals == Dispose \/ DisposeDeferred \/ DrainJoined \/ Disposed \/ Closed

Next == Write \/ Invalidate \/ Returns \/ Drains \/ Close \/ OwnerCloses \/ Disposals
        \/ ChildReleased

Spec == Init /\ [][Next]_vars

\* Foreign calls return, promise reactions run, listeners are told, owners
\* run the cleanups they are asked for, and children end their release.
FairSpec == /\ Spec /\ WF_vars(Returns) /\ WF_vars(Drains) /\ WF_vars(Disposals)
            /\ WF_vars(Invalidate) /\ WF_vars(ChildReleased)

-----------------------------------------------------------------------------
(* Safety.                                                                 *)

\* Generations never overlap: there is a child only when all before it have been
\* released successfully; and a value counts as observed only while the child
\* that was built for it is whole or being replaced, never when it was
\* interrupted (observe.ts 196-214).
GenerationsAreSerial ==
    /\ \A c \in Children : c < made => child[c] = "released"
    /\ observed # None => /\ reading = observed
                          /\ child[made] = "open" \/ drain = "releasing"

\* Whoever is told that the observation is closed can rely on it: no listener,
\* child or running drain is left, and no failed release is reported as success,
\* also when disposal struck while observe() was still building, or while the
\* drain was replacing or failing (observe.ts 125-156, 239-267).
ClosedIsReleased ==
    disposal \in Outcomes =>
        /\ subscription # "held" /\ Settled(made) /\ call = "none"
        /\ drain \in {"none", "stopping"} \union Outcomes
        /\ disposal = "done" => subscription # "failed" /\ ~Current(made)

-----------------------------------------------------------------------------
(* Liveness.                                                               *)

\* Whatever asks for the end of an observation, it comes, and ends the drain too
\* although the drain may be the one who asks (observe.ts 180-190, 261-266).
ClosingEnds ==
    (owner = "closing" \/ asked) ~> (disposal \in Outcomes /\ drain \in {"none"} \union Outcomes)

\* No change is slept through: the drain observes what the source holds, unless
\* it is cancelled or fails (observe.ts 158-179).
LatestIsObserved ==
    (constructed = "ready" /\ observed # source)
        ~> (observed = source \/ phase # "active" \/ aborted)

\* An observation keeps up with its source, and lets go of it.
KeepsUp == ClosingEnds /\ LatestIsObserved
=============================================================================
