--------------------------- MODULE MCObservation ----------------------------
(* A source with three values that is written three times.                  *)
EXTENDS Observation
=============================================================================
