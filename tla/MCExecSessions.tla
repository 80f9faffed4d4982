--------------------------- MODULE MCExecSessions ---------------------------
(* ExecSessions on small instances.                                         *)
EXTENDS ExecSessions, TLC
=============================================================================
