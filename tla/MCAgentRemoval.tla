-------------------------- MODULE MCAgentRemoval ---------------------------
(* An instance of AgentRemoval for TLC. *)
EXTENDS AgentRemoval

MCOnePort == [d \in Deploys |-> 9000]
=============================================================================
