------------------------------- MODULE MCEvents -------------------------------
(* A host with two instances, one of which has a child scope.              *)
EXTENDS Events, TLC
CONSTANTS sender, receiver, child
MCOwners == {sender, receiver, child}
MCInstance == [o \in MCOwners |-> IF o = child THEN receiver ELSE o]
Symmetry == Permutations(Listeners) \union Permutations(Emissions)
=============================================================================
