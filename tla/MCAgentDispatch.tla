---------------------------- MODULE MCAgentDispatch ----------------------------
(* Interchangeable Completers for the runs of AgentDispatch.               *)
EXTENDS AgentDispatch, TLC

CONSTANTS c1, c2

MCOne == {c1}
MCTwo == {c1, c2}
Symmetry == Permutations(Completers)
=============================================================================
