------------------------------ MODULE Delivery ------------------------------
(***************************************************************************)
(* What a platform and its loads speak of: the artifacts of a catalog.     *)
(*                                                                         *)
(* Platform and Loading name nothing else alike, so that one module can     *)
(* prove about both.                                                       *)
(***************************************************************************)
CONSTANTS
    Artifacts,  \* what may be selected and loaded
    None
=============================================================================
