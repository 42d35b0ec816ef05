------------------------------- MODULE RunApi -------------------------------
(***************************************************************************)
(* How a run comes to be: POST /v1/agents/{id}/runs (runs/handlers.go      *)
(* trigger), the webhook receiver (triggers/handlers.go webhook) and the   *)
(* cron scheduler (cmd/triggers fire).  All three read the agent, insert a *)
(* pending row and publish run.requested, in separate steps; the manual    *)
(* trigger projects the agent's Secret in between, and the two HTTP        *)
(* handlers write an audit event before they answer 202.  Every step can   *)
(* fail and the process can die between any two: nothing undoes the steps  *)
(* already done.                                                           *)
(***************************************************************************)
EXTENDS RunStore, RunEvents, RunCluster, FaultBudget

CONSTANTS SourceOf,    \* how each run is triggered
          Deletable    \* bound: the agents whose owners may delete them

Sources == {"manual", "webhook", "cron"}
ASSUME SourceAssumption ==
  SourceOf \in [Runs -> Sources] /\ Deletable \in SUBSET Agents

VARIABLES stage,     \* where the request that creates the run stands
          audited    \* runs whose trigger has an audit_events row

apiVars == <<stage, audited>>

Stages == {"none", "projecting", "publishing", "auditing", "accepted",
           "refused", "crashed"}
InProgress == {"projecting", "publishing", "auditing"}

ApiInit ==
  /\ stage = [r \in Runs |-> "none"]
  /\ audited = {}

ApiTypeOK ==
  /\ stage \in [Runs -> Stages]
  /\ audited \in SUBSET Runs

To(r, s) == stage' = [stage EXCEPT ![r] = s]

\* Agents.Get, then Runs.Create.  The agent may be deleted between the two,
\* and then the foreign key refuses the row: the two are one step here.
Trigger(r) ==
  /\ stage[r] = "none"
  /\ agents[AgentOf[r]] = "live"
  /\ CreateRow(r)
  /\ To(r, IF SourceOf[r] = "manual" THEN "projecting" ELSE "publishing")
  /\ UNCHANGED <<busVars, clusterVars, audited, faults>>

\* projectSecrets, of an agent whose manifest names secrets.
ProjectSecrets(r) ==
  /\ stage[r] = "projecting"
  /\ secrets' = secrets \union {r}
  /\ To(r, "publishing")
  /\ UNCHANGED <<storeVars, busVars, cr, job, ended, audited, faults>>

\* Mutant: the projection error is ignored and the request published.
ProjectFailsIgnored(r) ==
  /\ stage[r] = "projecting"
  /\ Fault("kube")
  /\ To(r, "publishing")
  /\ UNCHANGED <<storeVars, busVars, clusterVars, audited>>

\* 500 "secrets projection": the row stays pending.
ProjectFails(r) ==
  /\ stage[r] = "projecting"
  /\ Fault("kube")
  /\ To(r, "refused")
  /\ UNCHANGED <<storeVars, busVars, clusterVars, audited>>

PublishRequest(r) ==
  /\ stage[r] = "publishing"
  /\ Bus!Publish(Requested(r))
  /\ To(r, IF SourceOf[r] = "cron" THEN "accepted" ELSE "auditing")
  /\ UNCHANGED <<storeVars, clusterVars, audited, faults>>

\* 502 "queue": the broker may have stored the message before the 3 s of
\* the publish context ran out.
PublishFails(r) ==
  /\ stage[r] = "publishing"
  /\ Fault("publish")
  /\ Bus!Publish(Requested(r)) \/ UNCHANGED busVars
  /\ To(r, "refused")
  /\ UNCHANGED <<storeVars, clusterVars, audited>>

\* audit.Log swallows its error, then 202.
Accept(r) ==
  /\ stage[r] = "auditing"
  /\ \/ audited' = audited \union {r} /\ UNCHANGED faults
     \/ Fault("db") /\ UNCHANGED audited
  /\ To(r, "accepted")
  /\ UNCHANGED <<storeVars, busVars, clusterVars>>

\* The process serving the request dies.
RequestCrash(r) ==
  /\ stage[r] \in InProgress
  /\ Fault("api_crash")
  /\ To(r, "crashed")
  /\ UNCHANGED <<storeVars, busVars, clusterVars, audited>>

\* DELETE /v1/agents/{id}: nothing in flight is told.
DeleteAgentRequest(a) ==
  /\ a \in Deletable
  /\ DeleteAgent(a)
  /\ UNCHANGED <<busVars, clusterVars, apiVars, faults>>

\* runs/handlers.go trigger, triggers/handlers.go webhook, cmd/triggers fire.
ManualTrigger(r) ==
  /\ SourceOf[r] = "manual"
  /\ \/ Trigger(r) \/ ProjectSecrets(r) \/ ProjectFails(r)
     \/ PublishRequest(r) \/ PublishFails(r) \/ Accept(r)
WebhookTrigger(r) ==
  /\ SourceOf[r] = "webhook"
  /\ Trigger(r) \/ PublishRequest(r) \/ PublishFails(r) \/ Accept(r)
CronFire(r) ==
  /\ SourceOf[r] = "cron"
  /\ Trigger(r) \/ PublishRequest(r) \/ PublishFails(r)

ApiNext ==
  \/ \E r \in Runs :
       ManualTrigger(r) \/ WebhookTrigger(r) \/ CronFire(r) \/ RequestCrash(r)
  \/ \E a \in Agents : DeleteAgentRequest(a)
=============================================================================
