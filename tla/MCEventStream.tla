--------------------------- MODULE MCEventStream ---------------------------
(* Small instances of EventStream for TLC. *)
EXTENDS EventStream, TLC

CONSTANTS t1, t2, c1

FirstTask == (c1 :> t1)
=============================================================================
