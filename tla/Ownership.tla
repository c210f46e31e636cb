----------------------------- MODULE Ownership ------------------------------
(***************************************************************************)
(* What an ownership tree promises, without how it shuts down.  A scope     *)
(* takes on debts while it is open.  A debt is paid when its release or its *)
(* work ends well and lost when its release fails.  A scope closes once and *)
(* may only go when no debt in its tree is owed or lost and everything      *)
(* below it has gone.                                                       *)
(***************************************************************************)
CONSTANTS Scopes, Root, Subtree, Records

VARIABLES state, holder, debt

vars == <<state, holder, debt>>

States == {"absent", "open", "closed", "gone"}
Debts  == {"free", "owed", "paid", "lost"}

TypeOK == /\ state \in [Scopes -> States]
          /\ holder \in [Records -> Scopes]
          /\ debt \in [Records -> Debts]

Init == /\ state = [s \in Scopes |-> IF s = Root THEN "open" ELSE "absent"]
        /\ holder = [r \in Records |-> Root]
        /\ debt = [r \in Records |-> "free"]

\* A new scope opens below an open one.
Open(s) ==
    /\ state[s] = "absent"
    /\ \A t \in Scopes \ {s} : s \in Subtree[t] => state[t] = "open"
    /\ state' = [state EXCEPT ![s] = "open"]
    /\ UNCHANGED <<holder, debt>>

\* An open scope takes on a debt.
Take(s, r) ==
    /\ state[s] = "open" /\ debt[r] = "free"
    /\ holder' = [holder EXCEPT ![r] = s]
    /\ debt' = [debt EXCEPT ![r] = "owed"]
    /\ UNCHANGED state

\* Some debts end, and some scopes close: with a scope, all that is below it.
Resolve(paid, lost, closing) ==
    /\ \A r \in paid \union lost : debt[r] = "owed"
    /\ debt' = [r \in Records |-> CASE r \in lost -> "lost"
                                    [] r \in paid -> "paid"
                                    [] OTHER      -> debt[r]]
    /\ \A s \in closing : \A t \in Subtree[s] : state[t] = "open" => t \in closing
    /\ state' = [s \in Scopes |->
                   IF s \in closing /\ state[s] = "open" THEN "closed" ELSE state[s]]
    /\ UNCHANGED holder

\* A scope goes when its tree owes nothing.
Go(s) ==
    /\ state[s] = "closed"
    /\ \A r \in Records : holder[r] \in Subtree[s] => debt[r] \in {"free", "paid"}
    /\ \A t \in Subtree[s] \ {s} : state[t] \in {"absent", "gone"}
    /\ state' = [state EXCEPT ![s] = "gone"]
    /\ UNCHANGED <<holder, debt>>

Next ==
    \/ \E s \in Scopes : Open(s) \/ Go(s) \/ \E r \in Records : Take(s, r)
    \/ \E paid, lost \in SUBSET Records, closing \in SUBSET Scopes :
         Resolve(paid, lost, closing)

Spec == Init /\ [][Next]_vars
=============================================================================
