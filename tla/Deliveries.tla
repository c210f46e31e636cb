----------------------------- MODULE Deliveries -----------------------------
(***************************************************************************)
(* What a delivery platform promises those who ask it to activate           *)
(* something, without queue, loading, authorisation or plans.  A request    *)
(* takes effect at one instant between its call and its answer, or never.   *)
(* At that instant it is delivered whole: what it asks for and all that     *)
(* needs run as selected just then, what it removes is gone, the artifacts  *)
(* of others stay, and all fits together.  "ok" says that this happened,    *)
(* "aborted" that it did not, and so does "error", unless the Host broke at *)
(* that very instant: a broken Host keeps what it has got for good.  A      *)
(* request that was cancelled before it was entrusted to the Host is never  *)
(* delivered, and one that was entrusted is never called cancelled.         *)
(***************************************************************************)
EXTENDS Integers, Delivery

CONSTANTS
    Names,
    NameOf,
    Deps,       \* per artifact and name it depends on, what satisfies it
    Requests

VARIABLES
    mode,       \* "active", "disposing" or "disposed"
    selection,  \* the artifact selected under a name, if it is registered
    edition,    \* how often a name has been registered
    running,    \* the artifact the Host has under a name
    broken,     \* is the Host quarantined?  It then changes nothing any more
    request,    \* how far a request has got
    wish,       \* what it is for, under names of which registration
    cancelled,
    answer

vars == <<mode, selection, edition, running, broken, request, wish, cancelled, answer>>

Registered == {n \in Names : selection[n] # None}
Nothing == [roots |-> {}, removing |-> {}, edition |-> [n \in Names |-> 0]]

\* Names that roots need by their selections, D left out.
Closed(S, D) == \A n \in S : \A d \in DOMAIN Deps[selection[n]] :
                    d \in Registered \ D => d \in S
Needed(R, D) == {n \in Registered : \A S \in SUBSET Registered :
                    R \ D \subseteq S /\ Closed(S, D) => n \in S}

\* Every dependency runs in a version that satisfies it, and there is no cycle.
Fits(r) ==
    LET on == {n \in Names : r[n] # None} IN
    /\ \A n \in on : \A d \in DOMAIN Deps[r[n]] : d \in on /\ r[d] \in Deps[r[n]][d]
    /\ \A X \in (SUBSET on) \ {{}} : \E n \in X : X \intersect DOMAIN Deps[r[n]] = {}

\* What runs when a request has been delivered, and nothing else has changed.
Delivery(o) == [n \in Names |-> IF n \in wish[o].removing THEN None
                                ELSE IF n \in Needed(wish[o].roots, wish[o].removing)
                                THEN selection[n] ELSE running[n]]

\* A wish is about registrations, not about namesakes that came later.
Meant(o) == \A n \in wish[o].roots \union wish[o].removing :
                n \in Registered /\ wish[o].edition[n] = edition[n]

\* The Host works for one request at a time, and nobody else decides meanwhile.
Busy == \E o \in Requests : request[o] \in {"entrusted", "effective"}
Cancels == /\ cancelled \subseteq cancelled'
           /\ cancelled' \ cancelled \subseteq
                {o \in Requests : request[o] \in {"open", "fulfilled"}}
Moves(o, s) == request' = [request EXCEPT ![o] = s]
Unregistered(D) == [n \in Names |-> IF n \in D THEN None ELSE selection[n]]

Init == /\ mode = "active"
        /\ selection = [n \in Names |-> None] /\ edition = [n \in Names |-> 0]
        /\ running = [n \in Names |-> None] /\ broken = FALSE
        /\ request = [o \in Requests |-> "free"] /\ wish = [o \in Requests |-> Nothing]
        /\ cancelled = {} /\ answer = [o \in Requests |-> "none"]

\* A name is registered, or another artifact selected under it.
Choose ==
    /\ mode = "active" /\ ~Busy
    /\ \E N \in (SUBSET Names) \ {{}} : \E choice \in [N -> Artifacts] :
         /\ \A n \in N : NameOf[choice[n]] = n /\ choice[n] # selection[n]
         /\ selection' = [n \in Names |-> IF n \in N THEN choice[n] ELSE selection[n]]
         /\ edition' = [n \in Names |-> IF n \in N \ Registered THEN edition[n] + 1
                                        ELSE edition[n]]
    /\ Cancels
    /\ UNCHANGED <<mode, running, broken, request, wish, answer>>

Ask(o) ==
    /\ mode = "active" /\ request[o] = "free" /\ Moves(o, "open")
    /\ \E R, D \in SUBSET Registered :
         /\ R \union D # {}
         /\ wish' = [wish EXCEPT ![o] = [roots |-> R, removing |-> D, edition |->
                        [n \in Names |-> IF n \in R \union D THEN edition[n] ELSE 0]]]
    /\ UNCHANGED <<mode, selection, edition, running, broken, cancelled, answer>>

Cancel == /\ Cancels
          /\ UNCHANGED <<mode, selection, edition, running, broken, request, wish, answer>>

\* It is delivered already.
Confirm(o) ==
    /\ mode = "active" /\ ~Busy /\ request[o] = "open" /\ o \notin cancelled /\ Meant(o)
    /\ running = Delivery(o) /\ Fits(running)
    /\ Moves(o, "fulfilled")
    /\ selection' = Unregistered(wish[o].removing)
    /\ Cancels
    /\ UNCHANGED <<mode, edition, running, broken, wish, answer>>

Entrust(o) ==
    /\ mode = "active" /\ ~Busy /\ request[o] = "open" /\ o \notin cancelled /\ Meant(o)
    /\ Moves(o, "entrusted")
    /\ UNCHANGED <<mode, selection, edition, running, broken, wish, cancelled, answer>>

\* The instant of a delivery.
Delivered(o) ==
    /\ mode = "active" /\ request[o] = "entrusted" /\ Meant(o) /\ ~broken
    /\ running' = Delivery(o) /\ Fits(running')
    /\ UNCHANGED <<mode, selection, edition, wish, cancelled, answer>>

Deliver(o) == Delivered(o) /\ Moves(o, "effective") /\ UNCHANGED broken

\* The Host breaks over it.  What was removed keeps its registration.
Strand(o) == Delivered(o) /\ Moves(o, "stranded") /\ broken' = TRUE

\* The Host did not do it: it has changed nothing, but it may have broken.
Reject(o) ==
    /\ request[o] = "entrusted" /\ Moves(o, "rejected")
    /\ broken' \in {broken, TRUE}
    /\ UNCHANGED <<mode, selection, edition, running, wish, cancelled, answer>>

\* What was removed is forgotten.
Complete(o) ==
    /\ request[o] = "effective" /\ Moves(o, "fulfilled")
    /\ selection' = Unregistered(wish[o].removing)
    /\ Cancels
    /\ UNCHANGED <<mode, edition, running, broken, wish, answer>>

Answer(o) ==
    /\ \/ request[o] = "fulfilled" /\ answer' = [answer EXCEPT ![o] = "ok"]
       \/ request[o] \in {"rejected", "stranded"} /\ answer' = [answer EXCEPT ![o] = "error"]
       \/ request[o] = "open" /\ answer' = [answer EXCEPT ![o] = "aborted"]
       \/ /\ request[o] = "open" /\ o \notin cancelled
          /\ answer' = [answer EXCEPT ![o] = "error"]
    /\ Moves(o, "answered")
    /\ wish' = [wish EXCEPT ![o] = Nothing] /\ cancelled' = cancelled \ {o}
    /\ UNCHANGED <<mode, selection, edition, running, broken>>

Shut ==
    /\ mode = "active" /\ ~Busy /\ mode' = "disposing"
    /\ Cancels
    /\ UNCHANGED <<selection, edition, running, broken, request, wish, answer>>

\* Disposal fails: the Host has changed nothing, or it has broken over what it
\* was to take off.
Reopen ==
    /\ mode = "disposing" /\ ~Busy /\ mode' = "active"
    /\ \/ UNCHANGED running /\ broken' \in {broken, TRUE}
       \/ running' = [n \in Names |-> None] /\ ~broken /\ broken' = TRUE
    /\ UNCHANGED <<selection, edition, request, wish, cancelled, answer>>

\* Nothing is selected, running or on its way any more.  A broken Host cannot
\* take anything off.
Close ==
    /\ mode = "disposing" /\ ~Busy /\ mode' = "disposed"
    /\ selection' = [n \in Names |-> None] /\ running' = [n \in Names |-> None]
    /\ broken => UNCHANGED running
    /\ UNCHANGED <<edition, broken, request, wish, cancelled, answer>>

\* Others may take an artifact off the Host, but never put one there.
Intrude ==
    /\ ~broken
    /\ \E n \in Names : running' = [running EXCEPT ![n] = None]
    /\ UNCHANGED <<mode, selection, edition, broken, request, wish, cancelled, answer>>

Break ==
    /\ broken' = TRUE
    /\ UNCHANGED <<mode, selection, edition, running, request, wish, cancelled, answer>>

Next ==
    \/ \E o \in Requests : \/ Ask(o) \/ Confirm(o) \/ Entrust(o) \/ Deliver(o)
                           \/ Strand(o) \/ Reject(o) \/ Complete(o) \/ Answer(o)
    \/ Choose \/ Cancel \/ Shut \/ Reopen \/ Close \/ Intrude \/ Break

Spec == Init /\ [][Next]_vars
=============================================================================
