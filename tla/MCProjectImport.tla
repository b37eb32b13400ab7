-------------------------- MODULE MCProjectImport --------------------------
(* Small instances of ProjectImport for TLC. *)
EXTENDS ProjectImport
=============================================================================
