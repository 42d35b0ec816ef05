---------------------------- MODULE AuditExport ----------------------------
(***************************************************************************)
(* internal/audit: audit_events, written by handlers that do not wait for  *)
(* more than the insert and ignore its error, and the exporter the janitor *)
(* runs once in auditExportInterval (24 hours), which copies one batch to  *)
(* an object of its own in S3.                                             *)
(***************************************************************************)
EXTENDS Integers, FiniteSets, FaultBudget

CONSTANTS MaxId,       \* bound: ids the sequence hands out
          BatchSize    \* ExporterConfig.BatchSize (5000)

ASSUME AuditIdsAssumption == MaxId \in Nat
ASSUME ExportBatchAssumption == BatchSize \in Nat \ {0}

VARIABLES rows, checkpoint,   \* audit_events and audit_export_state
          exporter,    \* what the exporter is doing
          due,         \* lastAuditExport is an interval ago, or unset
          exported,    \* ids in the objects of the bucket
          overtaken    \* rows still uncommitted when a later id was read

logVars == <<rows, checkpoint>>
exportVars == <<exporter, due, exported, overtaken>>
auditVars == <<logVars, exportVars>>

AuditLog == INSTANCE AppendLog
Ids == AuditLog!Ids

Idle == [stage |-> "idle"]

Batches == {b \in SUBSET Ids : b # {} /\ Cardinality(b) <= BatchSize}

AuditTypeOK ==
  /\ AuditLog!LogTypeOK
  /\ exporter \in {Idle} \union [stage: {"put", "advance"}, batch: Batches]
  /\ due \in BOOLEAN
  /\ exported \in SUBSET Ids
  /\ overtaken \in SUBSET Ids

AuditInit ==
  /\ AuditLog!LogInit
  /\ exporter = Idle
  /\ due = TRUE
  /\ exported = {} /\ overtaken = {}

IntervalPasses ==
  /\ ~due
  /\ due' = TRUE
  /\ UNCHANGED <<logVars, exporter, exported, overtaken>>

\* Run returned nil: lastAuditExport is now.
Exported == exporter' = Idle /\ due' = FALSE

\* A tick of the janitor that finds the interval over: Run reads the
\* checkpoint, which nobody else moves, and the next batch; without a new row
\* there is nothing to do.
StartExport ==
  /\ exporter = Idle /\ due
  /\ LET batch == AuditLog!Batch(checkpoint, BatchSize)
     IN IF batch = {} THEN Exported /\ UNCHANGED overtaken
        ELSE /\ exporter' = [stage |-> "put", batch |-> batch]
             /\ overtaken' = overtaken \union
                  {i \in Ids : rows[i] = "open" /\ \E j \in batch : i < j}
             /\ UNCHANGED due
  /\ UNCHANGED <<logVars, exported>>

\* Mutant: an error of PutObject does not end the pass.
PutFailedGoesOn == exporter' = [exporter EXCEPT !.stage = "advance"]

\* The pass ends with an error: lastAuditExport is left alone, and the next
\* tick begins again from the checkpoint.
PutFailed == exporter' = Idle

\* PutObject under a key that no other pass uses.
PutObject ==
  /\ exporter.stage = "put"
  /\ \/ /\ exported' = exported \union exporter.batch
        /\ exporter' = [exporter EXCEPT !.stage = "advance"]
        /\ UNCHANGED faults
     \/ /\ Fault("s3")
        /\ exported' \in {exported, exported \union exporter.batch}
        /\ PutFailed
  /\ UNCHANGED <<logVars, due, overtaken>>

AdvanceCheckpoint ==
  /\ exporter.stage = "advance"
  /\ AuditLog!Advance(exporter.batch)
  /\ Exported
  /\ UNCHANGED <<exported, overtaken>>

\* The janitor dies and is started again, with lastAuditExport unset.
JanitorRestarts ==
  /\ exporter # Idle
  /\ Fault("janitor_crash")
  /\ exporter' = Idle
  /\ due' = TRUE
  /\ UNCHANGED <<logVars, exported, overtaken>>
=============================================================================
