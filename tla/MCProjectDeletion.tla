------------------------- MODULE MCProjectDeletion -------------------------
(* Small instances of ProjectDeletion for TLC. *)
EXTENDS ProjectDeletion
=============================================================================
