--------------------------- MODULE MCSessionTurns ---------------------------
(* SessionTurns on small instances.                                         *)
EXTENDS SessionTurns, TLC
=============================================================================
