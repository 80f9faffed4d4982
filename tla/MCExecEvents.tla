---------------------------- MODULE MCExecEvents ----------------------------
(* ExecEvents on small instances.                                           *)
EXTENDS ExecEvents, TLC
=============================================================================
