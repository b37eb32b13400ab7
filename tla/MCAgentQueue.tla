---------------------------- MODULE MCAgentQueue ----------------------------
(* Small instances of AgentQueue for TLC. *)
EXTENDS AgentQueue
=============================================================================
