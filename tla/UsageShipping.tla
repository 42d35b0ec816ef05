--------------------------- MODULE UsageShipping ---------------------------
(***************************************************************************)
(* Metering: the rows of usage_events (internal/usage), the billing        *)
(* shipper that copies them to Orb (internal/billing, cmd/billing), the    *)
(* janitor's gcUsageEvents, and the deletion of a tenant, which cascades   *)
(* to its rows.                                                            *)
(*                                                                         *)
(* Nothing elects one shipper: a rollout, or two replicas, run several.    *)
(***************************************************************************)
EXTENDS Integers, FaultBudget

CONSTANTS MaxId,       \* bound: ids the sequence hands out
          Tenants,
          TenantOf,    \* the tenant each row is for
          Shippers,    \* shipper processes
          BatchSize    \* Shipper.BatchSize (200)

ASSUME MaxIdAssumption == MaxId \in Nat
ASSUME TenantOfAssumption == TenantOf \in [1..MaxId -> Tenants]
ASSUME BatchSizeAssumption == BatchSize \in Nat \ {0}

VARIABLES rows, checkpoint,   \* usage_events and usage_shipper_state
          tenants,     \* tenants that have a row
          old,         \* rows recorded longer than usageTTL ago
          shipper,     \* what each shipper is doing
          billed,      \* the idempotency keys Orb has counted
          pruned,      \* rows the janitor deleted
          overtaken    \* rows still uncommitted when a later id was read

logVars == <<rows, checkpoint>>
vars == <<logVars, tenants, old, shipper, billed, pruned, overtaken, faults>>

Log == INSTANCE AppendLog
Ids == Log!Ids

Idle == [stage |-> "idle"]

\* Mutant: the key of a retry is a new one.
KeyOfBatch(i, batch) == <<i, batch>>

\* The idempotency key, "<dest>/<id>" whatever batch the row is shipped in.
Key(i, batch) == <<i>>

TypeOK ==
  /\ FaultTypeOK
  /\ Log!LogTypeOK
  /\ tenants \in SUBSET Tenants
  /\ old \in SUBSET Ids /\ pruned \in SUBSET Ids /\ overtaken \in SUBSET Ids
  /\ shipper \in [Shippers ->
       {Idle} \union [stage: {"select"}, from: 0..MaxId]
              \union [stage: {"ship", "advance"}, batch: SUBSET Ids]]
  /\ billed \in SUBSET {Key(i, {}) : i \in Ids}

Init ==
  /\ FaultInit
  /\ Log!LogInit
  /\ tenants = Tenants
  /\ old = {} /\ pruned = {} /\ overtaken = {}
  /\ shipper = [s \in Shippers |-> Idle]
  /\ billed = {}

-----------------------------------------------------------------------------
(* The table.                                                              *)

\* Repo.RecordRun begins; the foreign key wants the tenant.
BeginRecord(i) ==
  /\ TenantOf[i] \in tenants
  /\ Log!Draw(i)
  /\ UNCHANGED <<tenants, old, shipper, billed, pruned, overtaken, faults>>

\* RecordRun commits, fails, or finds the row of an earlier delivery.
EndRecord(i) ==
  /\ Log!Commit(i) \/ Log!Abort(i)
  /\ UNCHANGED <<tenants, old, shipper, billed, pruned, overtaken, faults>>

\* usageTTL (90 days) has passed.
Ages(i) ==
  /\ rows[i] = "visible" /\ i \notin old
  /\ old' = old \union {i}
  /\ UNCHANGED <<logVars, tenants, shipper, billed, pruned, overtaken, faults>>

\* tenants.Repo.Delete.  It waits for inserts that hold the tenant's row.
DeleteTenant(t) ==
  /\ t \in tenants
  /\ \A i \in Ids : TenantOf[i] = t => rows[i] # "open"
  /\ tenants' = tenants \ {t}
  /\ Log!Erase({i \in Log!Visible : TenantOf[i] = t})
  /\ UNCHANGED <<old, shipper, billed, pruned, overtaken, faults>>

\* Mutant: everything old is pruned.
PrunableByAge == old \intersect Log!Visible

\* The janitor's DELETE: old, and at or below the lowest checkpoint.
Prunable == {i \in old \intersect Log!Visible : i <= checkpoint}

GcUsageEvents ==
  /\ Prunable # {}
  /\ Log!Erase(Prunable)
  /\ pruned' = pruned \union Prunable
  /\ UNCHANGED <<tenants, old, shipper, billed, overtaken, faults>>

-----------------------------------------------------------------------------
(* Shipper.tick.  An error of any statement ends the tick.                 *)

At(s, stage) == shipper[s].stage = stage
Goes(s, next) == shipper' = [shipper EXCEPT ![s] = next]

ReadCheckpoint(s) ==
  /\ At(s, "idle")
  /\ Goes(s, [stage |-> "select", from |-> checkpoint])
  /\ UNCHANGED <<logVars, tenants, old, billed, pruned, overtaken, faults>>

\* The rows past the checkpoint; none, and the tick is over.
SelectBatch(s) ==
  /\ At(s, "select")
  /\ LET batch == Log!Batch(shipper[s].from, BatchSize)
     IN IF batch = {} THEN Goes(s, Idle) /\ UNCHANGED overtaken
        ELSE /\ Goes(s, [stage |-> "ship", batch |-> batch])
             /\ overtaken' = overtaken \union
                  {i \in Ids : rows[i] = "open" /\ \E j \in batch : i < j}
  /\ UNCHANGED <<logVars, tenants, old, billed, pruned, faults>>

Accepted(batch) == billed' = billed \union {Key(i, batch) : i \in batch}

\* Mutant: an error of Ship is only logged.
ShipFailedGoesOn(s) == Goes(s, [shipper[s] EXCEPT !.stage = "advance"])

ShipFailed(s) == Goes(s, Idle)

\* OrbClient.Ship: the batch is ingested as a whole or not at all, and an
\* answer that does not arrive leaves open which.
Ship(s) ==
  /\ At(s, "ship")
  /\ \/ /\ Accepted(shipper[s].batch)
        /\ Goes(s, [shipper[s] EXCEPT !.stage = "advance"])
        /\ UNCHANGED faults
     \/ /\ Fault("orb")
        /\ Accepted(shipper[s].batch) \/ UNCHANGED billed
        /\ ShipFailed(s)
  /\ UNCHANGED <<logVars, tenants, old, pruned, overtaken>>

AdvanceCheckpoint(s) ==
  /\ At(s, "advance")
  /\ Log!Advance(shipper[s].batch)
  /\ Goes(s, Idle)
  /\ UNCHANGED <<tenants, old, billed, pruned, overtaken, faults>>

\* A statement fails, or the process dies and is started again.
TickFails(s) ==
  /\ ~At(s, "idle")
  /\ Fault("ship_crash")
  /\ Goes(s, Idle)
  /\ UNCHANGED <<logVars, tenants, old, billed, pruned, overtaken>>

-----------------------------------------------------------------------------
Tick(s) ==
  \/ ReadCheckpoint(s) \/ SelectBatch(s) \/ Ship(s) \/ AdvanceCheckpoint(s)

Next ==
  \/ \E i \in Ids : BeginRecord(i) \/ EndRecord(i) \/ Ages(i)
  \/ \E t \in Tenants : DeleteTenant(t)
  \/ GcUsageEvents
  \/ \E s \in Shippers : Tick(s) \/ TickFails(s)

\* Transactions end, and the shippers' tickers tick.
Fairness ==
  /\ \A i \in Ids : WF_vars(EndRecord(i))
  /\ \A s \in Shippers : WF_vars(Tick(s))

Spec == Init /\ [][Next]_vars /\ Fairness

-----------------------------------------------------------------------------
(* Properties.                                                             *)

IsBilled(i) == \E key \in billed : key[1] = i

\* What the checkpoint has passed has been billed.  The one exception is a
\* row that committed after a row with a higher id was read: it is skipped
\* for good, and no other interleaving of inserts, shippers, lost answers
\* and crashes loses one.
PassedIsBilled ==
  \A i \in Log!Visible : i <= checkpoint => IsBilled(i) \/ i \in overtaken

\* The janitor never deletes a row that was still to be billed.
PrunedIsBilled == \A i \in pruned : IsBilled(i) \/ i \in overtaken

\* The table, Orb and the checkpoint implement Outbox: several shippers at a
\* time, lost answers, crashes, pruning and deleted tenants amount to a mark
\* that only moves forward, and only over rows that are billed, gone, or were
\* overtaken before they committed.
Outbox == INSTANCE Outbox WITH
  state <- Log!Shown, copied <- {key[1] : key \in billed},
  mark <- checkpoint, skipped <- overtaken
ImplementsOutbox == Outbox!Spec

\* What Outbox says of the mark alone: the checkpoint never moves back, also
\* when a slow shipper finishes after a faster one.
CheckpointNeverRegresses == [][checkpoint' >= checkpoint]_checkpoint

\* Every row that is not overtaken is billed in the end, unless its tenant is
\* deleted first.
RecordedIsBilled ==
  \A i \in Ids :
    rows[i] = "visible"
    ~> IsBilled(i) \/ i \in overtaken \/ TenantOf[i] \notin tenants
=============================================================================
