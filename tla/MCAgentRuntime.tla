--------------------------- MODULE MCAgentRuntime ---------------------------
(* Instances of AgentRuntime for TLC.                                      *)
EXTENDS AgentRuntime

MCSessions == 1..(Cardinality(Procs) + 3)
=============================================================================
