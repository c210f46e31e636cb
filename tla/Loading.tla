------------------------------ MODULE Loading -------------------------------
(***************************************************************************)
(* Loading modules for a platform: activation/loading.ts with               *)
(* activation/preparation.ts.                                              *)
(*                                                                         *)
(* Activations that need the same artifact share one load.  A load has the  *)
(* artifact authorised and then asks the loader for its module; both are    *)
(* external, may never answer, or answer when nobody wants to know.  A      *)
(* waiter leaves when its own signal aborts; the last one to leave cancels  *)
(* the load, and a new load may begin while the old one is still running.   *)
(***************************************************************************)
EXTENDS Integers, Delivery

CONSTANTS
    Waiters,    \* load() calls, each with a signal of its own
    MaxLoads    \* bound on the loads that are started

ASSUME LoadAssumption == MaxLoads \in Nat /\ None \notin Waiters \union (0..MaxLoads)

Loads == 1..MaxLoads

VARIABLES
    open,      \* has close() not been called yet?
    placed,    \* does assertPlacement pass?
    started,   \* how many loads have been started
    cache,     \* loads: the load an artifact is known by
    artifact,  \* what a load loads
    state,     \* #state of its Preparation; "cancelled" if its signal aborted
    waiters,   \* who waits for it
    step,      \* where #load stands
    result,    \* what #load came to
    on,        \* the load a waiter waits for or has been told of
    told       \* what a waiter has been told

loadVars == <<open, placed, started, cache, artifact, state, waiters, step, result, on, told>>

States  == {"none", "running", "settled", "cancelled"}
Steps   == {"none", "queued", "authorizing", "loading", "ended", "over"}
Results == {"none", "module", "error"}

LoadTypes ==
    /\ open \in BOOLEAN /\ placed \in BOOLEAN
    /\ started \in 0..MaxLoads
    /\ cache \in [Artifacts -> Loads \union {None}]
    /\ artifact \in [Loads -> Artifacts \union {None}]
    /\ state \in [Loads -> States] /\ waiters \in [Loads -> SUBSET Waiters]
    /\ step \in [Loads -> Steps] /\ result \in [Loads -> Results]
    /\ on \in [Waiters -> Loads \union {None}]
    /\ told \in [Waiters -> Results \union {"aborted"}]

LoadingInit ==
    /\ open = TRUE /\ placed = TRUE /\ started = 0
    /\ cache = [a \in Artifacts |-> None]
    /\ artifact = [l \in Loads |-> None]
    /\ state = [l \in Loads |-> "none"] /\ waiters = [l \in Loads |-> {}]
    /\ step = [l \in Loads |-> "none"] /\ result = [l \in Loads |-> "none"]
    /\ on = [w \in Waiters |-> None] /\ told = [w \in Waiters |-> "none"]

Waiting(w) == on[w] # None /\ told[w] = "none"

-----------------------------------------------------------------------------
(* Callers.                                                                *)

\* Can a call join what the cache holds?
Joinable(a) == cache[a] # None /\ state[cache[a]] # "cancelled"

\* load() joins the load under way, or learns what it came to.
Join(w, a) ==
    /\ open /\ on[w] = None /\ Joinable(a)
    /\ on' = [on EXCEPT ![w] = cache[a]]
    /\ IF state[cache[a]] = "settled"
       THEN told' = [told EXCEPT ![w] = result[cache[a]]] /\ UNCHANGED waiters
       ELSE waiters' = [waiters EXCEPT ![cache[a]] = @ \union {w}] /\ UNCHANGED told
    /\ UNCHANGED <<open, placed, started, cache, artifact, state, step, result>>

\* load() starts a load, also while a cancelled one still runs.
Start(w, a) ==
    /\ open /\ on[w] = None /\ ~Joinable(a)
    /\ started < MaxLoads
    /\ LET l == started + 1
       IN  /\ started' = l
           /\ cache' = [cache EXCEPT ![a] = l]
           /\ artifact' = [artifact EXCEPT ![l] = a]
           /\ state' = [state EXCEPT ![l] = "running"]
           /\ waiters' = [waiters EXCEPT ![l] = {w}]
           /\ step' = [step EXCEPT ![l] = "queued"]
           /\ on' = [on EXCEPT ![w] = l]
    /\ UNCHANGED <<open, placed, result, told>>

\* The load is cancelled with its last waiter.
Abandoned(l, left) == left = {}

\* The signal of a waiter aborts.
Abort(w) ==
    /\ Waiting(w) /\ w \in waiters[on[w]]
    /\ LET l == on[w]
           left == waiters[l] \ {w}
       IN  /\ waiters' = [waiters EXCEPT ![l] = left]
           /\ state' = [state EXCEPT ![l] = IF Abandoned(l, left) THEN "cancelled" ELSE @]
    /\ told' = [told EXCEPT ![w] = "aborted"]
    /\ UNCHANGED <<open, placed, started, cache, artifact, step, result, on>>

\* The platform closes the modules when all its activations have ended.
Close ==
    /\ open /\ \A w \in Waiters : ~Waiting(w)
    /\ open' = FALSE
    /\ UNCHANGED <<placed, started, cache, artifact, state, waiters, step, result, on, told>>

\* The Host is quarantined or the group has gone.
Displaced ==
    /\ placed /\ placed' = FALSE
    /\ UNCHANGED <<open, started, cache, artifact, state, waiters, step, result, on, told>>

-----------------------------------------------------------------------------
(* #load.                                                                  *)

\* Mutant: an admission decision is taken to keep the destination alive.
Unchecked(l) == state[l] # "cancelled"
\* throwIfAborted, #ports and assertPlacement.
MayAsk(l) == state[l] # "cancelled" /\ open /\ placed

End(l, outcome) == /\ step' = [step EXCEPT ![l] = "ended"]
                   /\ result' = [result EXCEPT ![l] = outcome]

\* The microtask of Preparation.start: ask the authoriser.
Authorize(l) ==
    /\ step[l] = "queued"
    /\ IF MayAsk(l)
       THEN step' = [step EXCEPT ![l] = "authorizing"] /\ UNCHANGED result
       ELSE End(l, "error")
    /\ UNCHANGED <<open, placed, started, cache, artifact, state, waiters, on, told>>

\* The authoriser agrees: ask the loader, if that is still in order.
Authorized(l) ==
    /\ step[l] = "authorizing"
    /\ IF MayAsk(l)
       THEN step' = [step EXCEPT ![l] = "loading"] /\ UNCHANGED result
       ELSE End(l, "error")
    /\ UNCHANGED <<open, placed, started, cache, artifact, state, waiters, on, told>>

\* The loader has the module of the plugin.
Loaded(l) ==
    /\ step[l] = "loading" /\ state[l] # "cancelled"
    /\ End(l, "module")
    /\ UNCHANGED <<open, placed, started, cache, artifact, state, waiters, on, told>>

\* The adapter fails or has loaded something else; or waitFor detaches from an
\* adapter whose answer nobody wants any more.
Fails(l) ==
    /\ step[l] \in {"authorizing", "loading"}
    /\ End(l, "error")
    /\ UNCHANGED <<open, placed, started, cache, artifact, state, waiters, on, told>>

\* Mutant: a late failure removes whatever the cache holds.
ForgottenAnyhow(l) == [cache EXCEPT ![artifact[l]] = IF result[l] = "error" THEN None ELSE @]
\* A failed load leaves the cache unless another has taken its place.
Uncached(l) ==
    [a \in Artifacts |-> IF result[l] = "error" /\ cache[a] = l THEN None ELSE cache[a]]

\* The reactions to the result: tell the waiters, and forget a failed load.
SettleLoad(l) ==
    /\ step[l] = "ended"
    /\ step' = [step EXCEPT ![l] = "over"]
    /\ state' = [state EXCEPT ![l] = IF @ = "running" THEN "settled" ELSE @]
    /\ told' = [w \in Waiters |-> IF w \in waiters[l] THEN result[l] ELSE told[w]]
    /\ waiters' = [waiters EXCEPT ![l] = {}]
    /\ cache' = Uncached(l)
    /\ UNCHANGED <<open, placed, started, artifact, result, on>>

-----------------------------------------------------------------------------
LoadingNext ==
    \/ \E w \in Waiters : Abort(w) \/ \E a \in Artifacts : Join(w, a) \/ Start(w, a)
    \/ Close \/ Displaced
    \/ \E l \in Loads : \/ Authorize(l) \/ Authorized(l) \/ Loaded(l) \/ Fails(l)
                        \/ SettleLoad(l)

LoadingSpec == LoadingInit /\ [][LoadingNext]_loadVars

-----------------------------------------------------------------------------
(* Safety.                                                                 *)

\* Nobody is left behind and nothing is loaded twice: who waits, waits for the
\* one load of its artifact that has not been cancelled, although others leave
\* it, and although cancelled loads of the same artifact end late
\* (preparation.ts 58-78, loading.ts 40-50).
WaitersShareLiveWork ==
    \A w \in Waiters : Waiting(w) =>
        /\ w \in waiters[on[w]] /\ state[on[w]] = "running"
        /\ cache[artifact[on[w]]] = on[w]

\* No adapter is asked in vain: when the loader is called somebody waits for
\* the module, the modules are open and the destination exists, although the
\* authoriser took its time; and a closed LoadedModules has no load that is
\* neither over nor cancelled (loading.ts 58-78).
NoUnwantedCall ==
    [][/\ \A l \in Loads : step[l] # "loading" /\ step'[l] = "loading" =>
              waiters[l] # {} /\ open /\ placed
       /\ ~open' => \A l \in Loads : state'[l] # "running"]_loadVars
=============================================================================
