-------------------------- MODULE MCAgentRegistry --------------------------
(* AgentRegistry on small instances; the calls are interchangeable.         *)
EXTENDS AgentRegistry, TLC

Symmetric == Permutations(Calls)
=============================================================================
