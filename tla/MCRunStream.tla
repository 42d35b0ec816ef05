---------------------------- MODULE MCRunStream ----------------------------
(* Instances of RunStream for TLC. *)
EXTENDS RunStream

CONSTANTS r1, a1, w1, h1, h2, v1

MCAgentOf == [r \in Runs |-> a1]
MCReplicaOf == [w \in Workers |-> IF w = w1 THEN h1 ELSE h2]
MCWatched == [v \in Viewers |-> r1]
=============================================================================
