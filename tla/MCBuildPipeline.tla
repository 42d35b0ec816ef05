-------------------------- MODULE MCBuildPipeline --------------------------
(* Instances of BuildPipeline for TLC. *)
EXTENDS BuildPipeline

CONSTANT a1

MCAgentOf == [b \in Builds |-> a1]
=============================================================================
