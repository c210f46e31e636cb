----------------------------- MODULE MCLoading ------------------------------
(* Three callers of load() for two artifacts, and a few loads.              *)
EXTENDS Loading, TLC

Symmetry == Permutations(Waiters) \union Permutations(Artifacts)
=============================================================================
