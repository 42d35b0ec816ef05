------------------------------ MODULE RunStore ------------------------------
(***************************************************************************)
(* The Postgres tables behind a run: agents, runs (internal/runs/repo.go)  *)
(* and usage_events (internal/usage/repo.go), with the constraints of the  *)
(* migrations the code relies on: runs.agent_id cascades, a usage row      *)
(* references an existing run when it is inserted and keeps counting after *)
(* its run is deleted (SET NULL), and (run_id, kind) is unique.            *)
(*                                                                         *)
(* Each operator is one SQL statement, so one atomic step.                 *)
(***************************************************************************)
EXTENDS RunTypes

CONSTANTS Agents,   \* agent ids
          AgentOf   \* the agent each run is triggered on

ASSUME AgentOfAssumption == AgentOf \in [Runs -> Agents]

VARIABLES agents,   \* "live" or "deleted": the agents rows
          rows,     \* the runs rows
          usage     \* how many usage_events rows each run has of each kind

storeVars == <<agents, rows, usage>>

RowStatus == {"absent", "pending", "running", "deleted"} \union Outcomes
Kinds == {"run.start", "run.end", "run.seconds"}

\* started_at is the execution whose start time was recorded, 0 for NULL.
Row == [status: RowStatus, started_at: Nat]

StoreInit ==
  /\ agents = [a \in Agents |-> "live"]
  /\ rows = [r \in Runs |-> [status |-> "absent", started_at |-> 0]]
  /\ usage = [r \in Runs |-> [k \in Kinds |-> 0]]

StoreTypeOK ==
  /\ agents \in [Agents -> {"live", "deleted"}]
  /\ rows \in [Runs -> Row]
  /\ usage \in [Runs -> [Kinds -> Nat]]

\* A SELECT or a foreign key finds the row.
RowExists(r) == rows[r].status \notin {"absent", "deleted"}

\* Repo.Create.
CreateRow(r) ==
  /\ rows[r].status = "absent"
  /\ rows' = [rows EXCEPT ![r].status = "pending"]
  /\ UNCHANGED <<agents, usage>>

\* Mutant: the WHERE clause on status dropped.
StartedRowReopens(row, at) ==
  IF row.status \in {"absent", "deleted"} THEN row
  ELSE [status |-> "running",
        started_at |-> IF row.started_at = 0 THEN at ELSE row.started_at]

\* The row after UPDATE ... WHERE status IN ('pending','running').
StartedRow(row, at) ==
  IF row.status \in {"pending", "running"}
    THEN [status |-> "running",
          started_at |-> IF row.started_at = 0 THEN at ELSE row.started_at]
    ELSE row

\* Repo.MarkStarted.
MarkStarted(r, at) ==
  /\ rows' = [rows EXCEPT ![r] = StartedRow(@, at)]
  /\ UNCHANGED <<agents, usage>>

\* Mutant: WHERE status = 'running'.
CompletedRunningRow(row, st) ==
  IF row.status = "running" THEN [row EXCEPT !.status = st] ELSE row

\* The row after UPDATE ... WHERE status NOT IN (terminal statuses); a row
\* that is gone matches no WHERE clause.
CompletedRow(row, st) ==
  IF row.status \in {"pending", "running"}
    THEN [row EXCEPT !.status = st]
    ELSE row

\* Repo.MarkCompleted.
MarkCompleted(r, st) ==
  /\ rows' = [rows EXCEPT ![r] = CompletedRow(@, st)]
  /\ UNCHANGED <<agents, usage>>

\* Mutant: no unique index, so no conflict.
RecordRunAgain(r, k) ==
  /\ usage' = IF RowExists(r) THEN [usage EXCEPT ![r][k] = @ + 1] ELSE usage
  /\ UNCHANGED <<agents, rows>>

\* Mutant: the unique index is on run_id alone.
RecordRunPerRun(r, k) ==
  /\ usage' = IF RowExists(r) /\ \A j \in Kinds : usage[r][j] = 0
                THEN [usage EXCEPT ![r][k] = 1]
                ELSE usage
  /\ UNCHANGED <<agents, rows>>

\* Repo.RecordRun: ON CONFLICT (run_id, kind) DO NOTHING.  The foreign key
\* refuses a run that is gone, and the caller ignores the error.
RecordRun(r, k) ==
  /\ usage' = IF RowExists(r) /\ usage[r][k] = 0
                THEN [usage EXCEPT ![r][k] = 1]
                ELSE usage
  /\ UNCHANGED <<agents, rows>>

\* agents.Repo.Delete: the runs of the agent go with it, their usage stays.
DeleteAgent(a) ==
  /\ agents[a] = "live"
  /\ agents' = [agents EXCEPT ![a] = "deleted"]
  /\ rows' = [r \in Runs |->
                IF AgentOf[r] = a /\ RowExists(r)
                  THEN [rows[r] EXCEPT !.status = "deleted"]
                  ELSE rows[r]]
  /\ UNCHANGED usage
=============================================================================
