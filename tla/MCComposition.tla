---------------------------- MODULE MCComposition ----------------------------
(* Two drafts beside the initial composition.                              *)
EXTENDS Composition, TLC

Symmetry == Permutations(Drafts) \union Permutations(Names)
            \union Permutations(Kinds)
=============================================================================
