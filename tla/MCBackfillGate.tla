--------------------------- MODULE MCBackfillGate ---------------------------
(* BackfillGate on small instances.                                         *)
EXTENDS BackfillGate, TLC
=============================================================================
