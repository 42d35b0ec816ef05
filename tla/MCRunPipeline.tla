--------------------------- MODULE MCRunPipeline ---------------------------
(* Instances of RunPipeline for TLC. *)
EXTENDS RunPipeline, TLC

CONSTANTS r1, a1

MCAgentOf == [r \in Runs |-> a1]
MCManual == [r \in Runs |-> "manual"]
MCWebhook == [r \in Runs |-> "webhook"]
MCCron == [r \in Runs |-> "cron"]

Replicas == Permutations(Controllers) \union Permutations(Workers)
=============================================================================
