-------------------------------- MODULE Events --------------------------------
(***************************************************************************)
(* The event hub of a host (packages/dougong/src/events/event-hub.ts), for *)
(* one event: every event has a set of listeners of its own.               *)
(*                                                                         *)
(* emit() captures the listeners and calls them one after the other in one *)
(* synchronous section.  What a listener runs before it first waits may    *)
(* register and withdraw listeners, dispose a scope or emit again, so the  *)
(* emissions that are still calling form a stack; what it does afterwards  *)
(* interleaves with everything.                                            *)
(***************************************************************************)
EXTENDS Integers, Sequences, SequencesExt

CONSTANTS
    Owners,      \* scopes that may own listeners
    Instance,    \* the root scope of the tree that a scope belongs to
    Listeners,   \* registrations
    Emissions,   \* calls of emit()
    NoOwner, Idle

ASSUME EventsAssumption ==
    /\ Instance \in [Owners -> Owners]
    /\ \A o \in Owners : Instance[Instance[o]] = Instance[o]
    /\ NoOwner \notin Owners /\ Idle \notin Listeners

VARIABLES
    phase,       \* of a scope
    foreground,  \* borrows of a scope that have not been returned
    published,   \* the instances that have been published
    owner,       \* of a registration
    staged,      \* registrations of instances that are not published, in order
    hub,         \* #listeners of the event, in order
    calls,       \* emissions that still call listeners, the running one last
    captured,    \* the listeners an emission found
    todo,        \* those it has not called yet
    current,     \* the listener that runs synchronously
    running,     \* listeners that were called and whose promise is pending
    heard,       \* history: listeners it has called, in order
    failed,      \* listeners that threw or rejected
    outcome      \* of the promise of emit()

scopes == <<phase, foreground, published>>
bindings == <<owner, staged, hub>>
emissions == <<calls, captured, todo, current, running, heard, failed, outcome>>
vars == <<scopes, bindings, emissions>>

Roots == {o \in Owners : Instance[o] = o}
Tree(o) == {s \in Owners : s = o \/ Instance[s] = o}

Init ==
    /\ phase = [o \in Owners |-> "active"] /\ foreground = [o \in Owners |-> 0]
    /\ published = {}
    /\ owner = [l \in Listeners |-> NoOwner] /\ staged = <<>> /\ hub = <<>>
    /\ calls = <<>>
    /\ captured = [e \in Emissions |-> <<>>] /\ todo = [e \in Emissions |-> <<>>]
    /\ current = [e \in Emissions |-> Idle] /\ running = [e \in Emissions |-> {}]
    /\ heard = [e \in Emissions |-> <<>>] /\ failed = [e \in Emissions |-> {}]
    /\ outcome = [e \in Emissions |-> "none"]

AcceptsWork(o) == phase[o] = "active"
Busy(o) == \E s \in Tree(o) : foreground[s] > 0
Without(s, L) == SelectSeq(s, LAMBDA l : l \notin L)
Owned(S) == {l \in Listeners : owner[l] \in S}
\* Plugin code is running: a listener that was called, or code of its own.
Foreign == calls # <<>> => current[Last(calls)] # Idle

-----------------------------------------------------------------------------
(* Scopes.                                                                 *)

\* The transition publishes a candidate: scope by scope, its own listeners before
\* those of its child scopes, each in the order they registered in.
Publish(o) ==
    /\ calls = <<>> /\ o \in Roots \ published /\ AcceptsWork(o)
    /\ published' = published \union {o}
    /\ \E children \in SetToSeqs(Tree(o) \ {o}) :
         LET tree == <<o>> \o children
             Of(s) == SelectSeq(staged, LAMBDA l : owner[l] = s)
         IN  hub' = hub \o FlattenSeq([i \in DOMAIN tree |-> Of(tree[i])])
    /\ staged' = Without(staged, Owned(Tree(o)))
    /\ UNCHANGED <<phase, foreground, owner, emissions>>

\* Work is refused from here on, though callbacks may still run: the host
\* stops, or the signal of a starting instance aborts.
Block(o) ==
    /\ o \in Roots /\ calls = <<>> /\ AcceptsWork(o)
    /\ phase' = [s \in Owners |-> IF s \in Tree(o) /\ AcceptsWork(s) THEN "sealed" ELSE phase[s]]
    /\ UNCHANGED <<foreground, published, bindings, emissions>>

\* dispose() of an idle scope withdraws its listeners before it returns; plugin
\* code disposes child scopes, the host instances.
Dispose(o) ==
    /\ IF o \in Roots THEN calls = <<>> ELSE Foreign
    /\ phase[o] # "disposed" /\ ~Busy(o)
    /\ phase' = [s \in Owners |-> IF s \in Tree(o) THEN "disposed" ELSE phase[s]]
    /\ staged' = Without(staged, Owned(Tree(o)))
    /\ hub' = Without(hub, Owned(Tree(o)))
    /\ UNCHANGED <<foreground, published, owner, emissions>>

-----------------------------------------------------------------------------
(* Listeners.                                                              *)

On(o, l) ==
    /\ Foreign /\ owner[l] = NoOwner
    /\ AcceptsWork(Instance[o]) /\ AcceptsWork(o)
    /\ owner' = [owner EXCEPT ![l] = o]
    /\ IF Instance[o] \in published
       THEN hub' = Append(hub, l) /\ UNCHANGED staged
       ELSE staged' = Append(staged, l) /\ UNCHANGED hub
    /\ UNCHANGED <<scopes, emissions>>

\* The handle of a listener is disposed.
Withdraw(l) ==
    /\ Foreign /\ owner[l] # NoOwner
    /\ staged' = Without(staged, {l}) /\ hub' = Without(hub, {l})
    /\ UNCHANGED <<scopes, owner, emissions>>

-----------------------------------------------------------------------------
(* Emissions.                                                              *)

Emit(o, e) ==
    /\ Foreign /\ outcome[e] = "none"
    /\ o \in published /\ AcceptsWork(o)
    /\ outcome' = [outcome EXCEPT ![e] = "pending"]
    /\ captured' = [captured EXCEPT ![e] = hub] /\ todo' = [todo EXCEPT ![e] = hub]
    /\ calls' = Append(calls, e)
    /\ UNCHANGED <<scopes, bindings, current, running, heard, failed>>

\* Mutant: whoever was captured is called while its owner accepts work.
CapturedInvocable(l) == AcceptsWork(owner[l])
\* Is the binding still there, and does its owner accept work?
Invocable(l) == l \in ToSet(hub) /\ AcceptsWork(owner[l])

\* Call the next listener in a borrow of its owner, or skip it.
Invoke(e) ==
    /\ calls # <<>> /\ e = Last(calls) /\ current[e] = Idle /\ todo[e] # <<>>
    /\ LET l == Head(todo[e]) IN
         IF Invocable(l)
         THEN /\ current' = [current EXCEPT ![e] = l]
              /\ heard' = [heard EXCEPT ![e] = Append(@, l)]
              /\ foreground' = [foreground EXCEPT ![owner[l]] = @ + 1]
         ELSE UNCHANGED <<current, heard, foreground>>
    /\ todo' = [todo EXCEPT ![e] = Tail(@)]
    /\ UNCHANGED <<phase, published, bindings, calls, captured, running, failed, outcome>>

Returned(l) == foreground' = [foreground EXCEPT ![owner[l]] = @ - 1]

\* The listener throws, or returns what it waits for.
ListenerThrows(e) ==
    /\ calls # <<>> /\ e = Last(calls) /\ current[e] # Idle
    /\ current' = [current EXCEPT ![e] = Idle]
    /\ failed' = [failed EXCEPT ![e] = @ \union {current[e]}]
    /\ Returned(current[e])
    /\ UNCHANGED <<phase, published, bindings, calls, captured, todo, running, heard, outcome>>
ListenerWaits(e) ==
    /\ calls # <<>> /\ e = Last(calls) /\ current[e] # Idle
    /\ current' = [current EXCEPT ![e] = Idle]
    /\ running' = [running EXCEPT ![e] = @ \union {current[e]}]
    /\ UNCHANGED <<scopes, bindings, calls, captured, todo, heard, failed, outcome>>

\* All have been called: emit() returns its promise.
Called(e) ==
    /\ calls # <<>> /\ e = Last(calls) /\ current[e] = Idle /\ todo[e] = <<>>
    /\ calls' = Front(calls)
    /\ UNCHANGED <<scopes, bindings, captured, todo, current, running, heard, failed, outcome>>

ListenerSettles(e, l) ==
    /\ calls = <<>> /\ l \in running[e]
    /\ running' = [running EXCEPT ![e] = @ \ {l}]
    /\ \/ failed' = [failed EXCEPT ![e] = @ \union {l}]
       \/ UNCHANGED failed
    /\ Returned(l)
    /\ UNCHANGED <<phase, published, bindings, calls, captured, todo, current, heard, outcome>>

EmitSettles(e) ==
    /\ calls = <<>> /\ outcome[e] = "pending" /\ running[e] = {}
    /\ outcome' = [outcome EXCEPT ![e] = IF failed[e] = {} THEN "resolved" ELSE "rejected"]
    /\ captured' = [captured EXCEPT ![e] = <<>>]
    /\ heard' = [heard EXCEPT ![e] = <<>>] /\ failed' = [failed EXCEPT ![e] = {}]
    /\ UNCHANGED <<scopes, bindings, calls, todo, current, running>>

Next ==
    \/ \E o \in Owners : \/ Publish(o) \/ Block(o) \/ Dispose(o)
                         \/ \E l \in Listeners : On(o, l)
                         \/ \E e \in Emissions : Emit(o, e)
    \/ \E l \in Listeners : Withdraw(l)
    \/ \E e \in Emissions : \/ Invoke(e) \/ ListenerThrows(e) \/ ListenerWaits(e) \/ Called(e)
                            \/ EmitSettles(e)
                            \/ \E l \in Listeners : ListenerSettles(e, l)

Spec == Init /\ [][Next]_vars

-----------------------------------------------------------------------------
TypeOK ==
    /\ phase \in [Owners -> {"active", "sealed", "disposed"}]
    /\ foreground \in [Owners -> Nat] /\ published \subseteq Roots
    /\ owner \in [Listeners -> Owners \union {NoOwner}]
    /\ {staged, hub} \subseteq Seq(Listeners) /\ calls \in Seq(Emissions)
    /\ captured \in [Emissions -> Seq(Listeners)] /\ todo \in [Emissions -> Seq(Listeners)]
    /\ heard \in [Emissions -> Seq(Listeners)]
    /\ current \in [Emissions -> Listeners \union {Idle}]
    /\ running \in [Emissions -> SUBSET Listeners] /\ failed \in [Emissions -> SUBSET Listeners]
    /\ outcome \in [Emissions -> {"none", "pending", "resolved", "rejected"}]

\* Nobody has withdrawn the listener or closed its scope.
Live(l) == l \in ToSet(hub) /\ phase[owner[l]] = "active"
\* What runs for an emission.
Active(e) == running[e] \union ({current[e]} \ {Idle})

\* However listeners and scopes come and go while an emission calls and waits:
\* a listener is never called once its handle or its scope is disposed, and no
\* scope is disposed under a listener that runs; one that nobody has withdrawn
\* is called, once, in the order of publication; and emit() ends when all that
\* it called have ended, with their failures (event-hub.ts 49 to 54, 142 to 155).
DeliveryIsHonest ==
    /\ [][\A e \in Emissions :
            /\ \A l \in ToSet(heard'[e]) \ ToSet(heard[e]) : Live(l)
            /\ outcome[e] = "pending" /\ outcome'[e] # "pending" =>
                 /\ Active(e) = {} /\ todo[e] = <<>>
                 /\ outcome'[e] = "rejected" <=> failed[e] # {}]_vars
    /\ [](\A e \in Emissions :
            /\ \A l \in Active(e) : phase[owner[l]] # "disposed"
            /\ heard[e] = SelectSeq(captured[e], LAMBDA l : l \in ToSet(heard[e]))
            /\ \A l \in ToSet(captured[e]) \ ToSet(todo[e]) : Live(l) => l \in ToSet(heard[e]))
=============================================================================
