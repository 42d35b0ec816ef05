\* A tenant that is created, renamed and deleted, one cron expression that
\* parses and one that does not, two passes of the exporter with a row
\* each, one fault of each kind at a time.
SPECIFICATION Spec
CONSTANTS
  History <- MCHistory
  MaxId = 2
  BatchSize = 1
  Crons = {c1, c2}
  Valid = {c1}
  FaultKinds = {"webhook", "audit", "sched_crash", "s3", "janitor_crash"}
  MaxFaults = 1
INVARIANTS
  TypeOK
PROPERTIES
  TenantFollowsWorkOS
  ImplementsOutbox
  AuditIsExported
  SchedulerFollowsTable
  RunsAreTriggered
CHECK_DEADLOCK FALSE
