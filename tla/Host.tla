-------------------------------- MODULE Host --------------------------------
(***************************************************************************)
(* What a Host promises its application, without layers, disposal or        *)
(* rollback: it serves one whole composition at a time.  An attempt to       *)
(* change it first withdraws what it replaces, together with everybody who   *)
(* needs it, and ends in a new revision: a whole composition is served, by   *)
(* those who stayed and by instances that were never served before, or the   *)
(* Host stops, or it is quarantined and never serves again.  A ticket (a     *)
(* plan) changes the composition at most once and is void after any revision.*)
(***************************************************************************)
EXTENDS Integers

CONSTANTS
    Compositions,
    Roster,       \* Roster[c]: the installations of a composition
    Uses,          \* Uses[c][x]: the installations that x needs in it
    Tickets

VARIABLES
    mode, revision, composition,
    attempt, target,   \* what is being attempted, and the composition it is for
    serving,           \* <<installation, edition>>: the instances that serve
    served,            \* those that have ever served
    ticket, goal       \* the tickets, and the compositions they are for

vars == <<mode, revision, composition, attempt, target, serving, served, ticket, goal>>

\* One edition of every member and nothing else.
PartOf(c, S) == /\ \A i \in S : i[1] \in Roster[c]
                /\ \A i, k \in S : i[1] = k[1] => i = k
Whole(c, S) == PartOf(c, S) /\ \A x \in Roster[c] : \E i \in S : i[1] = x

Init == /\ mode = "stopped" /\ revision = 0
        /\ composition \in Compositions /\ target = composition /\ attempt = "none"
        /\ serving = {} /\ served = {}
        /\ ticket = [t \in Tickets |-> "none"]
        /\ goal = [t \in Tickets |-> composition]

\* A revision ends the attempt and voids every open ticket.
Revise(n) ==
    /\ revision' = revision + n
    /\ ticket' = [t \in Tickets |-> IF ticket[t] = "open" THEN "void" ELSE ticket[t]]
    /\ attempt' = "none" /\ target' = composition'
    /\ UNCHANGED goal

Offer(t) ==
    /\ mode # "quarantined" /\ ticket[t] = "none"
    /\ ticket' = [ticket EXCEPT ![t] = "open"]
    /\ \E c \in Compositions : goal' = [goal EXCEPT ![t] = c]
    /\ UNCHANGED <<mode, revision, composition, attempt, target, serving, served>>

\* A ticket that cannot be executed is used up.
Spend(t) ==
    /\ attempt = "none" /\ ticket[t] = "open"
    /\ ticket' = [ticket EXCEPT ![t] = "void"]
    /\ UNCHANGED <<mode, revision, composition, attempt, target, serving, served, goal>>

\* A stopped Host only takes note of a new composition.
TakeNote(t) ==
    /\ attempt = "none" /\ mode = "stopped" /\ ticket[t] = "open"
    /\ composition' = goal[t]
    /\ Revise(1)
    /\ UNCHANGED <<mode, serving, served>>

\* Nobody goes on serving without the instances it needs.
Withdraw ==
    /\ serving' \subseteq serving
    /\ \A c \in serving', p \in serving : p[1] \in Uses[composition][c[1]] => p \in serving'

Begin ==
    /\ attempt = "none"
    /\ \/ /\ mode = "running" /\ attempt' = "change"
          /\ \E t \in Tickets : /\ ticket[t] = "open" /\ target' = goal[t]
                                /\ ticket' = [ticket EXCEPT ![t] = "void"]
       \/ mode = "stopped" /\ attempt' = "start" /\ UNCHANGED <<target, ticket>>
       \/ mode = "running" /\ attempt' = "stop" /\ serving' = {} /\ UNCHANGED <<target, ticket>>
    /\ Withdraw
    /\ UNCHANGED <<mode, revision, composition, served, goal>>

\* A change that failed goes back to the composition it came from.
TurnBack ==
    /\ attempt \in {"change", "start"} /\ attempt' = "back" /\ target' = composition
    /\ UNCHANGED <<mode, revision, composition, serving, served, ticket, goal>>

Completing == attempt \in {"change", "start"} \/ (attempt = "back" /\ mode = "running")

Complete ==
    /\ Completing
    /\ mode' = "running" /\ composition' = target
    /\ serving \subseteq serving' /\ Whole(target, serving')
    /\ (serving' \ serving) \intersect served = {}
    /\ served' = served \union serving'
    /\ Revise(1)

Halt ==
    /\ \/ attempt = "stop" /\ mode = "running"
       \/ attempt = "back" /\ mode = "stopped"
    /\ mode' = "stopped"
    /\ Revise(1)
    /\ UNCHANGED <<composition, serving, served>>

\* The way back is blocked, if need be after some have been served.
Falter ==
    /\ attempt = "back" /\ mode = "running" /\ attempt' = "doomed"
    /\ \/ UNCHANGED <<revision, serving, served, ticket>>
       \/ /\ revision' = revision + 1
          /\ ticket' = [t \in Tickets |-> IF ticket[t] = "open" THEN "void" ELSE ticket[t]]
          /\ serving \subseteq serving' /\ PartOf(composition, serving')
          /\ (serving' \ serving) \intersect served = {}
          /\ served' = served \union serving'
    /\ UNCHANGED <<mode, composition, target, goal>>

Recede ==
    /\ attempt = "doomed"
    /\ Withdraw
    /\ UNCHANGED <<mode, revision, composition, attempt, target, served, ticket, goal>>

\* Quarantine, at any time or right after a completion.
Collapse ==
    /\ mode # "quarantined" /\ mode' = "quarantined" /\ serving' = {}
    /\ \/ Revise(1) /\ UNCHANGED <<composition, served>>
       \/ /\ Completing
          /\ composition' = target /\ served \subseteq served'
          /\ PartOf(target, served' \ served)
          /\ Revise(2)

Next ==
    \/ \E t \in Tickets : Offer(t) \/ Spend(t) \/ TakeNote(t)
    \/ Begin \/ TurnBack \/ Complete \/ Halt \/ Falter \/ Recede \/ Collapse

Spec == Init /\ [][Next]_vars
=============================================================================
