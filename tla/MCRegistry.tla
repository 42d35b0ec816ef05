---------------------------- MODULE MCRegistry -----------------------------
(* An instance of Registry for TLC. *)
EXTENDS Registry

MCHistory == <<"created", "updated", "deleted">>
=============================================================================
