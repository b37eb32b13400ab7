-------------------------- MODULE MCExecutionQueue --------------------------
(* Small instances of ExecutionQueue for TLC. *)
EXTENDS ExecutionQueue
=============================================================================
