------------------------------ MODULE MCSignals ------------------------------
(* A diamond from s over a and b to c, with branches: a reads s and, if that *)
(* is one, t; b reads t and, if that is zero, s; c reads b and then a or s.  *)
EXTENDS Signals, TLC

MCFirst == [a |-> "s", b |-> "t", c |-> "b"]
MCLeft  == [a |-> "s", b |-> "s", c |-> "a"]
MCRight == [a |-> "t", b |-> "t", c |-> "s"]

Symmetry == Permutations(Observers)
=============================================================================
