------------------------------- MODULE MCBridge -------------------------------
(* A source of two values that may throw.                                  *)
EXTENDS Bridge, TLC

Symmetry == Permutations(Values)
=============================================================================
