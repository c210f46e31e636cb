------------------------------ MODULE MCRelease ------------------------------
(* Two packages; clones are interchangeable.                               *)
EXTENDS Release, TLC

Symmetry == Permutations(Clones)
=============================================================================
