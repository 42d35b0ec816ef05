----------------------------- MODULE RunCluster -----------------------------
(***************************************************************************)
(* The Kubernetes objects of a run: its AgentRun custom resource, its Job  *)
(* and its projected Secret, with the Job controller and the kubelet       *)
(* (external) and the janitor's two garbage collectors, which are the only *)
(* code that deletes any of them.  AgentRuns are never deleted.            *)
(***************************************************************************)
EXTENDS RunTypes

VARIABLES cr,        \* AgentRun: its phase, resourceVersion and start time
          job,       \* Job: state, and how many Jobs the run has had
          secrets,   \* runs whose "run-<id>" Secret exists
          ended      \* history: how each execution that finished ended

clusterVars == <<cr, job, secrets, ended>>

\* AgentRun phases, in the spelling of the runs table; "new" is the empty
\* phase of an AgentRun no reconciler has touched, "absent" is NotFound.
\* A start time is the execution it was read from, 0 for none yet.
LivePhases == {"new", "pending", "running"}
Phases == {"absent"} \union LivePhases \union Outcomes
AgentRun == [phase: Phases, ver: Nat, started: 0..MaxExecs]
JobStates == {"absent", "new", "active"} \union Outcomes
Execution == [run: Runs, exec: Execs, status: Outcomes]

ClusterInit ==
  /\ cr = [r \in Runs |-> [phase |-> "absent", ver |-> 0, started |-> 0]]
  /\ job = [r \in Runs |-> [state |-> "absent", exec |-> 0]]
  /\ secrets = {}
  /\ ended = {}

ClusterTypeOK ==
  /\ cr \in [Runs -> AgentRun]
  /\ job \in [Runs -> [state: JobStates, exec: 0..MaxExecs]]
  /\ secrets \in SUBSET Runs
  /\ ended \in SUBSET Execution

\* An accepted write bumps the resourceVersion.
CrWritten(o, phase, started) ==
  [phase |-> phase, ver |-> o.ver + 1, started |-> started]

\* Create(AgentRun): AlreadyExists leaves the object alone.
CrCreated(o) == IF o.phase = "absent" THEN CrWritten(o, "new", 0) ELSE o

\* The Job's pod exists (status.active = 1).
JobStart(r) ==
  /\ job[r].state = "new"
  /\ job' = [job EXCEPT ![r].state = "active"]
  /\ UNCHANGED <<cr, secrets, ended>>

\* BackoffLimit 0 and RestartPolicy Never: the first pod decides.
JobFinish(r, st) ==
  /\ job[r].state = "active"
  /\ job' = [job EXCEPT ![r].state = st]
  /\ ended' = ended \union {[run |-> r, exec |-> job[r].exec, status |-> st]}
  /\ UNCHANGED <<cr, secrets>>

\* janitor.gcJobs: only a Job with a completion time is collected, and the
\* Job controller sets one on success alone.
GcJob(r) ==
  /\ job[r].state = "succeeded"
  /\ job' = [job EXCEPT ![r].state = "absent"]
  /\ UNCHANGED <<cr, secrets, ended>>

\* janitor.gcOrphanSecrets: SELECT EXISTS finds no runs row.
GcSecret(r, rowExists) ==
  /\ r \in secrets
  /\ ~rowExists
  /\ secrets' = secrets \ {r}
  /\ UNCHANGED <<cr, job, ended>>
=============================================================================
