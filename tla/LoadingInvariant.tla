-------------------------- MODULE LoadingInvariant --------------------------
(***************************************************************************)
(* What is true of loads besides what Loading states.                       *)
(*                                                                         *)
(* WaitersShareLiveWork is not inductive: that a waiter's load is in the     *)
(* cache follows from what is known of every running load, whether it is     *)
(* waited for or not, and from no reaction touching the entry of another.    *)
(***************************************************************************)
EXTENDS Loading

\* Loads begin in order, and a load that has not begun has nothing.
StartedInOrder ==
    \A l \in Loads :
        /\ l > started => state[l] = "none"
        /\ state[l] = "none" => step[l] = "none" /\ waiters[l] = {}

\* The cache knows loads by what they load.
Known == \A a \in Artifacts : cache[a] # None =>
            artifact[cache[a]] = a /\ state[cache[a]] # "none"

\* A running load is known, waited for and not over.
Live ==
    \A l \in Loads : state[l] = "running" =>
        /\ artifact[l] \in Artifacts /\ cache[artifact[l]] = l
        /\ waiters[l] # {} /\ step[l] # "over"

\* A load has something to tell when it has ended.
Answered ==
    \A l \in Loads : /\ step[l] = "ended" => result[l] # "none"
                     /\ state[l] = "settled" => step[l] = "over" /\ result[l] # "none"

\* A load and its waiters know each other, and only they are told something.
Attended ==
    /\ \A l \in Loads : \A w \in waiters[l] :
          on[w] = l /\ told[w] = "none" /\ state[l] = "running"
    /\ \A w \in Waiters : Waiting(w) => w \in waiters[on[w]]
    /\ \A w \in Waiters : on[w] = None => told[w] = "none"

\* Nothing runs behind closed doors.
Silent == ~open => \A l \in Loads : state[l] # "running"

LoadInv == LoadTypes /\ StartedInOrder /\ Known /\ Live /\ Answered /\ Attended /\ Silent
=============================================================================
