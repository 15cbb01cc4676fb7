--------------------------- MODULE MCUpdateExchange ---------------------------
(* Three releases, so that a later request may be for an earlier one. *)
EXTENDS UpdateExchange

ThreeVersions == 1..3
===============================================================================
