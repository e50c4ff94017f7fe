---------------------------- MODULE MCAgentTurns ----------------------------
(* An instance of AgentTurns.                                              *)
EXTENDS AgentTurns

CONSTANTS t1, t2, k1, k2
=============================================================================
