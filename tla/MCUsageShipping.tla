-------------------------- MODULE MCUsageShipping --------------------------
(* An instance of UsageShipping for TLC. *)
EXTENDS UsageShipping

CONSTANT t1

MCTenantOf == [i \in 1..MaxId |-> t1]
=============================================================================
