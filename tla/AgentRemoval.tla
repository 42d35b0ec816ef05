---------------------------- MODULE AgentRemoval ----------------------------
(***************************************************************************)
(* Deployments of an agent that is deleted (internal/agents).  Deleting    *)
(* the row cascades to the agent's runs, builds and triggers, but tells    *)
(* the controller nothing.                                                 *)
(***************************************************************************)
EXTENDS Deployments

VARIABLE registered   \* has the agent a row

removalVars == <<vars, registered>>

RemovalInit == Init /\ registered = FALSE

\* Handlers.create.
CreateAgent == ~registered /\ registered' = TRUE /\ UNCHANGED vars

\* Handlers.delete.
DeleteAgent == registered /\ registered' = FALSE /\ UNCHANGED vars

\* deploy and undeploy read the agent; what is asked of it afterwards does
\* not look at the row again.
RemovalNext ==
  \/ CreateAgent \/ DeleteAgent
  \/ registered /\ ApiStep /\ UNCHANGED registered
  \/ (ControllerStep \/ KubernetesStep) /\ UNCHANGED registered

RemovalSpec == RemovalInit /\ [][RemovalNext]_removalVars /\ Fairness

\* The deployment of an agent is torn down when the agent is deleted
\* (pkg/events/events.go:105-106).
DeletedAgentsAreStopped ==
  ~registered /\ cr # Absent ~> registered \/ cr = Absent
=============================================================================
