-------------------------- MODULE MCRolloutWriter ---------------------------
(* RolloutWriter on small instances.                                        *)
EXTENDS RolloutWriter, TLC
=============================================================================
