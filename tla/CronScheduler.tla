--------------------------- MODULE CronScheduler ---------------------------
(***************************************************************************)
(* Cron triggers: the rows of internal/triggers for one agent, and the     *)
(* scheduler of cmd/triggers.  Every 30 seconds the scheduler reads the    *)
(* table and adds or removes entries of an in-process cron; an entry fires *)
(* a copy of the row it was made from.                                     *)
(*                                                                         *)
(* Rows are never updated: no endpoint does, so the branch of refresh that *)
(* replaces an entry with another checksum is never taken.                 *)
(***************************************************************************)
EXTENDS Integers, FaultBudget

CONSTANTS Crons,   \* cron triggers of the agent, by id
          Valid    \* those whose expression the cron library parses

ASSUME ValidAssumption == Valid \subseteq Crons

VARIABLES agent,       \* the agent's row: "absent", "live" or "deleted"
          triggers,    \* triggers that have a row
          registered,  \* triggers with an entry in the scheduler's cron
          refreshing,  \* the rows refresh has read, or NotRefreshing
          firing       \* how far each entry's function has come

tableVars == <<agent, triggers>>
schedulerVars == <<registered, refreshing, firing>>
cronVars == <<tableVars, schedulerVars>>

NotRefreshing == [stage |-> "idle"]

CronTypeOK ==
  /\ agent \in {"absent", "live", "deleted"}
  /\ triggers \in SUBSET Crons
  /\ registered \in SUBSET Crons
  /\ refreshing \in {NotRefreshing}
       \union [stage: {"apply"}, rows: SUBSET Crons]
  /\ firing \in [Crons -> {"idle", "insert", "publish"}]

CronInit ==
  /\ agent = "absent"
  /\ triggers = {}
  /\ registered = {}
  /\ refreshing = NotRefreshing
  /\ firing = [c \in Crons |-> "idle"]

\* agents.Repo.Create; the caller gives the tenant's condition.
CreateAgent ==
  /\ agent = "absent"
  /\ agent' = "live"
  /\ UNCHANGED <<triggers, schedulerVars>>

\* The agent's row goes, and its triggers with it (ON DELETE CASCADE).
AgentGoes ==
  /\ agent' = IF agent = "live" THEN "deleted" ELSE agent
  /\ triggers' = {}

\* agents.Repo.Delete.
DeleteAgent ==
  /\ agent = "live"
  /\ AgentGoes
  /\ UNCHANGED schedulerVars

\* POST /triggers: the agent was found; the expression is not parsed.
CreateTrigger(c) ==
  /\ agent = "live"
  /\ c \notin triggers
  /\ triggers' = triggers \union {c}
  /\ UNCHANGED <<agent, schedulerVars>>

\* refresh: ListAllCron.  When it fails refresh ends, until the next tick.
ListAllCron ==
  /\ refreshing = NotRefreshing
  /\ refreshing' = [stage |-> "apply", rows |-> triggers]
  /\ UNCHANGED <<tableVars, registered, firing>>

\* Mutant: an expression that does not parse ends refresh.
EntriesOfGoodTable(rows) == IF rows \subseteq Valid THEN rows ELSE registered

\* The entries after refresh: kept or added for the rows that were read when
\* their expression parses, removed for all others.
Entries(rows) == rows \intersect Valid

ApplyRefresh ==
  /\ refreshing # NotRefreshing
  /\ registered' = Entries(refreshing.rows)
  /\ refreshing' = NotRefreshing
  /\ UNCHANGED <<tableVars, firing>>

\* The time of an entry has come: cron starts its function, fire, which asks
\* agents.Get with the ids of the copied row and ends when the agent is gone.
EntryIsDue(c) ==
  /\ c \in registered /\ firing[c] = "idle"
  /\ agent = "live"
  /\ firing' = [firing EXCEPT ![c] = "insert"]
  /\ UNCHANGED <<tableVars, registered, refreshing>>

\* Mutant: runs.agent_id without its foreign key.
AnyAgent == TRUE

\* The foreign key of runs.agent_id.
AgentExists == agent = "live"

\* fire: runs.Create, which fails when the agent has gone in between.
InsertRun(c) ==
  /\ firing[c] = "insert"
  /\ firing' = [firing EXCEPT ![c] = IF AgentExists THEN "publish" ELSE "idle"]
  /\ UNCHANGED <<tableVars, registered, refreshing>>

\* fire: run.requested, or an error that is logged; RunApi has the rest.
PublishRun(c) ==
  /\ firing[c] = "publish"
  /\ firing' = [firing EXCEPT ![c] = "idle"]
  /\ UNCHANGED <<tableVars, registered, refreshing>>

\* The scheduler dies and starts with an empty cron.
SchedulerRestarts ==
  /\ Fault("sched_crash")
  /\ registered' = {}
  /\ refreshing' = NotRefreshing
  /\ firing' = [c \in Crons |-> "idle"]
  /\ UNCHANGED tableVars

Refresh == ListAllCron \/ ApplyRefresh
Fire(c) == InsertRun(c) \/ PublishRun(c)
=============================================================================
