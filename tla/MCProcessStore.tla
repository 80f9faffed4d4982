--------------------------- MODULE MCProcessStore ---------------------------
(* ProcessStore on small instances.                                         *)
EXTENDS ProcessStore, TLC
=============================================================================
