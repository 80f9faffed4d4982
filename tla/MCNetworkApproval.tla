------------------------- MODULE MCNetworkApproval --------------------------
(* NetworkApproval on small instances.                                      *)
EXTENDS NetworkApproval, TLC
=============================================================================
