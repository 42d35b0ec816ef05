--------------------------- MODULE RegistryProofs ---------------------------
(***************************************************************************)
(* The registry of a tenant keeps its types, its audit export skips no row *)
(* and its scheduler starts no run of its own: for every history of the    *)
(* organization, every number of audit rows and triggers, every batch size *)
(* and every set of faults.                                                *)
(***************************************************************************)
EXTENDS Registry, FiniteSetTheorems, WellFoundedInduction, TLAPS

-----------------------------------------------------------------------------
(* Batches.  The exporter's batch is bounded by its limit, and nothing     *)
(* that shows past the checkpoint is left out below the batch's last row.  *)

LEMMA CardinalityIsOne == ASSUME NEW S PROVE AuditLog!Cardinality(S) = Cardinality(S)
BY DEF AuditLog!Cardinality, Cardinality

\* The distances of the members of a bounded set from the bound have a least
\* one, which is that of the set's maximum.
LEMMA MaxIsGreatest ==
  ASSUME NEW n \in Nat, NEW S \in SUBSET (1..n), S # {}
  PROVE  AuditLog!Max(S) \in S /\ \A i \in S : i <= AuditLog!Max(S)
<1> DEFINE D == {d \in Nat : \E i \in S : d = n - i}
           R == OpToRel(<, Nat)
<1>1. \A i \in S : n - i \in D
  OBVIOUS
<1>2. \E x \in D : \A y \in D : ~(<<y, x>> \in R)
  <2>1. D \subseteq Nat /\ D # {}
    <3>1. PICK i \in S : TRUE
      OBVIOUS
    <3>2. n - i \in D
      BY <3>1
    <3> QED
      BY <3>2
  <2> QED
    BY <2>1, WFMin, NatLessThanWellFounded
<1>3. \A x, y \in Nat : <<y, x>> \in R <=> y < x
  BY DEF OpToRel
<1> HIDE DEF R
<1>4. PICK x \in D : \A y \in D : ~(<<y, x>> \in R)
  BY <1>2
<1>5. ASSUME NEW y \in D PROVE x <= y
  <2>1. x \in Nat /\ y \in Nat /\ ~(<<y, x>> \in R)
    BY <1>4
  <2>2. ~(y < x)
    BY <1>3, <2>1
  <2> QED
    BY <2>1, <2>2
<1>6. PICK j \in S : x = n - j
  BY <1>4
<1>7. ASSUME NEW i \in S PROVE j >= i
  BY <1>1, <1>5, <1>6
<1> QED
  BY <1>7 DEF AuditLog!Max

LEMMA BatchFacts ==
  ASSUME AuditLog!LogTypeOK, NEW from \in 0..MaxId
  PROVE  /\ AuditLog!Batch(from, BatchSize) \subseteq AuditLog!Visible
         /\ AuditLog!Visible \subseteq 1..MaxId
         /\ \A i \in AuditLog!Batch(from, BatchSize) : i > from
BY DEF AuditLog!Batch, AuditLog!Visible, AuditLog!Ids

LEMMA BatchIsPrefix ==
  ASSUME AuditLog!LogTypeOK, NEW from \in 0..MaxId,
         NEW j \in AuditLog!Batch(from, BatchSize),
         NEW i \in AuditLog!Visible, from < i, i <= j
  PROVE  i \in AuditLog!Batch(from, BatchSize)
<1> DEFINE unread == {k \in AuditLog!Visible : k > from}
           Below(k) == {m \in unread : m < k}
<1>1. /\ i \in unread /\ j \in unread
      /\ AuditLog!Cardinality(Below(j)) < BatchSize
      /\ unread \subseteq 1..MaxId
  BY DEF AuditLog!Batch, AuditLog!Visible, AuditLog!Ids
<1>2. IsFiniteSet(Below(j))
  <2>1. IsFiniteSet(1..MaxId)
    BY AuditIdsAssumption, FS_Interval
  <2>2. Below(j) \in SUBSET (1..MaxId)
    BY <1>1
  <2> QED
    BY <2>1, <2>2, FS_Subset
<1>3. Below(i) \in SUBSET Below(j)
  BY <1>1, AuditIdsAssumption
<1>4. /\ Cardinality(Below(i)) <= Cardinality(Below(j))
      /\ Cardinality(Below(i)) \in Nat /\ Cardinality(Below(j)) \in Nat
  BY <1>2, <1>3, FS_Subset, FS_CardinalityType
<1>5. AuditLog!Cardinality(Below(i)) < BatchSize
  BY <1>1, <1>4, CardinalityIsOne, ExportBatchAssumption
<1> QED
  BY <1>1, <1>5 DEF AuditLog!Batch

\* All but the last row of a batch are among the fewer than BatchSize rows
\* before the last.
LEMMA BatchIsBounded ==
  ASSUME AuditLog!LogTypeOK, NEW from \in 0..MaxId,
         AuditLog!Batch(from, BatchSize) # {}
  PROVE  AuditLog!Batch(from, BatchSize) \in Batches
<1> DEFINE B == AuditLog!Batch(from, BatchSize)
           m == AuditLog!Max(B)
           unread == {k \in AuditLog!Visible : k > from}
           Below == {k \in unread : k < m}
<1>1. B \in SUBSET (1..MaxId) /\ unread \in SUBSET (1..MaxId) /\ B \subseteq unread
  BY BatchFacts DEF AuditLog!Batch
<1>2. m \in B /\ \A i \in B : i <= m
  BY <1>1, AuditIdsAssumption, MaxIsGreatest
<1>3. AuditLog!Cardinality(Below) < BatchSize
  BY <1>2 DEF AuditLog!Batch
<1>4. IsFiniteSet(1..MaxId)
  BY AuditIdsAssumption, FS_Interval
<1>5. IsFiniteSet(B) /\ IsFiniteSet(Below)
  <2>1. Below \in SUBSET (1..MaxId)
    BY <1>1
  <2> HIDE DEF Below, B
  <2> QED
    BY <1>1, <1>4, <2>1, FS_Subset
<1>6. B \ {m} \in SUBSET Below
  BY <1>1, <1>2, AuditIdsAssumption
<1> HIDE DEF B, m, Below, unread
<1>7. /\ Cardinality(B \ {m}) = Cardinality(B) - 1
      /\ Cardinality(B) \in Nat
  BY <1>2, <1>5, FS_RemoveElement, FS_CardinalityType
<1>8. Cardinality(B \ {m}) <= Cardinality(Below) /\ Cardinality(Below) \in Nat
  BY <1>5, <1>6, FS_Subset, FS_CardinalityType
<1>9. Cardinality(B) <= BatchSize
  BY <1>3, <1>7, <1>8, CardinalityIsOne, ExportBatchAssumption
<1> QED
  BY <1>1, <1>2, <1>9 DEF Batches, AuditLog!Ids, Ids, B
-----------------------------------------------------------------------------
(* Types.                                                                  *)

LEMMA FaultTypes ==
  ASSUME FaultTypeOK, NEW k, Fault(k) PROVE FaultTypeOK'
BY FaultsAssumption DEF FaultTypeOK, Fault

LEMMA HistoryTypes ==
  /\ Len(History) \in Nat
  /\ Events = 1..Len(History)
  /\ \A e \in Events : RowAfter(e) \in Events \union {NoTenant}
BY HistoryAssumption DEF Events, RowAfter, Written, NoTenant

\* What a handler does to its row of the log, which may be erased under it.
LEMMA LogTypes ==
  ASSUME AuditLog!LogTypeOK
  PROVE  /\ \A i : AuditLog!Draw(i) \/ AuditLog!Commit(i) \/ AuditLog!Abort(i)
                     => AuditLog!LogTypeOK'
         /\ \A ids : AuditLog!Erase(ids) => AuditLog!LogTypeOK'
BY DEF AuditLog!LogTypeOK, AuditLog!Draw, AuditLog!Commit, AuditLog!Abort, AuditLog!Erase

LEMMA TypesInitially == Init => TypeOK
<1>1. Init => FaultTypeOK /\ TenantsTypeOK
  <2>1. 0 \in 0..MaxFaults /\ 0 \in 0..Len(History)
    BY FaultsAssumption, HistoryTypes
  <2> QED
    BY <2>1 DEF Init, FaultInit, TenantsInit, FaultTypeOK, TenantsTypeOK
<1>2. Init => AuditTypeOK
  BY AuditIdsAssumption DEF Init, AuditInit, AuditTypeOK, AuditLog!LogInit, AuditLog!LogTypeOK
<1>3. Init => CronTypeOK
  BY DEF Init, CronInit, CronTypeOK
<1>4. Init => entry \in [Events -> 0..MaxId]
  BY AuditIdsAssumption DEF Init
<1> QED
  BY <1>1, <1>2, <1>3, <1>4 DEF TypeOK

LEMMA WebhookTypes ==
  ASSUME TypeOK, NEW e \in Events, WebhookHandler(e) \/ LogFails(e)
  PROVE  TypeOK'
<1> USE DEF TypeOK
<1>1. ASSUME UNCHANGED faults PROVE FaultTypeOK'
  BY <1>1 DEF FaultTypeOK
<1>2. ASSUME UNCHANGED exportVars, AuditLog!LogTypeOK' PROVE AuditTypeOK'
  BY <1>2 DEF AuditTypeOK, exportVars
<1>3. ASSUME UNCHANGED cronVars PROVE CronTypeOK'
  BY <1>3 DEF CronTypeOK, cronVars, tableVars, schedulerVars
<1>4. AuditLog!LogTypeOK
  BY DEF AuditTypeOK
<1>5. ASSUME HandleEvent(e) PROVE TypeOK'
  <2>1. TenantsTypeOK'
    BY <1>5, HistoryTypes DEF HandleEvent, ApplyEvent, TenantsTypeOK
  <2>2. AuditTypeOK' /\ CronTypeOK'
    <3>1. CASE Deletes(e)
      BY <1>2, <1>4, <1>5, <3>1, LogTypes
      DEF HandleEvent, Cascade, AgentGoes, CronTypeOK, schedulerVars
    <3>2. CASE ~Deletes(e)
      BY <1>2, <1>3, <1>4, <1>5, <3>2
      DEF HandleEvent, auditVars, logVars, AuditLog!LogTypeOK
    <3> QED
      BY <3>1, <3>2
  <2> QED
    BY <1>1, <1>5, <2>1, <2>2 DEF HandleEvent
<1>6. ASSUME BeginLog(e) PROVE TypeOK'
  <2>1. PICK i \in Ids : AuditLog!Draw(i) /\ entry' = [entry EXCEPT ![e] = i]
    BY <1>6 DEF BeginLog
  <2>2. i \in 0..MaxId
    BY AuditIdsAssumption DEF Ids, AuditLog!Ids
  <2>3. TenantsTypeOK'
    BY <1>6 DEF BeginLog, TenantsTypeOK
  <2> QED
    BY <1>1, <1>2, <1>3, <1>4, <1>6, <2>1, <2>2, <2>3, LogTypes DEF BeginLog
<1>7. ASSUME EndLog(e) PROVE TypeOK'
  <2>1. TenantsTypeOK' /\ FaultTypeOK'
    BY <1>1, <1>7, FaultTypes DEF EndLog, AnswerEvent, TenantsTypeOK
  <2>2. entry' \in [Events -> 0..MaxId]
    BY <1>7, AuditIdsAssumption DEF EndLog
  <2> QED
    BY <1>2, <1>3, <1>4, <1>7, <2>1, <2>2, LogTypes DEF EndLog
<1>8. ASSUME LogFails(e) PROVE TypeOK'
  <2>1. TenantsTypeOK' /\ FaultTypeOK'
    BY <1>8, FaultTypes DEF LogFails, TenantsTypeOK
  <2>2. entry' \in [Events -> 0..MaxId]
    BY <1>8, AuditIdsAssumption DEF LogFails
  <2> QED
    BY <1>2, <1>3, <1>4, <1>8, <2>1, <2>2, LogTypes DEF LogFails
<1> QED
  BY <1>5, <1>6, <1>7, <1>8 DEF WebhookHandler

LEMMA CronTypes ==
  ASSUME TypeOK,
         UserStep \/ RefreshStep \/ SchedulerFails \/ \E c \in Crons : FireStep(c)
  PROVE  TypeOK'
<1> USE DEF TypeOK
<1>1. ASSUME UNCHANGED faults PROVE FaultTypeOK'
  BY <1>1 DEF FaultTypeOK
<1>2. ASSUME UNCHANGED <<tenantVars, auditVars, entry>>, FaultTypeOK', CronTypeOK'
      PROVE  TypeOK'
  <2>1. TenantsTypeOK'
    BY <1>2 DEF TenantsTypeOK, tenantVars
  <2>2. AuditTypeOK'
    BY <1>2 DEF AuditTypeOK, AuditLog!LogTypeOK, auditVars, logVars, exportVars
  <2> QED
    BY <1>2, <2>1, <2>2
<1>3. ASSUME UserStep PROVE CronTypeOK'
  BY <1>3 DEF UserStep, CreateAgent, DeleteAgent, AgentGoes, CreateTrigger, schedulerVars,
              CronTypeOK
<1>4. ASSUME RefreshStep PROVE CronTypeOK'
  <2>1. CASE ListAllCron
    BY <2>1 DEF ListAllCron, tableVars, CronTypeOK
  <2>2. CASE ApplyRefresh
    <3>1. refreshing.rows \in SUBSET Crons
      BY <2>2 DEF ApplyRefresh, CronTypeOK
    <3> QED
      BY <2>2, <3>1 DEF ApplyRefresh, Entries, tableVars, CronTypeOK
  <2> QED
    BY <1>4, <2>1, <2>2 DEF RefreshStep, Refresh
<1>5. ASSUME SchedulerFails PROVE CronTypeOK' /\ FaultTypeOK'
  BY <1>5, FaultTypes DEF SchedulerFails, SchedulerRestarts, tableVars, CronTypeOK
<1>6. ASSUME NEW c \in Crons, FireStep(c) PROVE CronTypeOK'
  BY <1>6 DEF FireStep, EntryIsDue, Fire, InsertRun, PublishRun, tableVars, CronTypeOK
<1> QED
  BY <1>1, <1>2, <1>3, <1>4, <1>5, <1>6 DEF UserStep, RefreshStep, SchedulerFails, FireStep

LEMMA ExportTypes ==
  ASSUME TypeOK, ExportStep \/ ExportFails
  PROVE  TypeOK'
<1> USE DEF TypeOK
<1>1. AuditLog!LogTypeOK /\ checkpoint \in 0..MaxId
  BY DEF AuditTypeOK, AuditLog!LogTypeOK
<1>2. ASSUME UNCHANGED <<tenantVars, cronVars, entry>>, FaultTypeOK', AuditTypeOK'
      PROVE  TypeOK'
  <2>1. TenantsTypeOK' /\ CronTypeOK'
    BY <1>2 DEF TenantsTypeOK, tenantVars, CronTypeOK, cronVars, tableVars, schedulerVars
  <2> QED
    BY <1>2, <2>1
<1>3. ASSUME UNCHANGED faults PROVE FaultTypeOK'
  BY <1>3 DEF FaultTypeOK
<1>4. ASSUME UNCHANGED logVars PROVE AuditLog!LogTypeOK'
  BY <1>1, <1>4 DEF AuditLog!LogTypeOK, logVars
<1>5. ASSUME IntervalPasses PROVE AuditTypeOK'
  BY <1>4, <1>5 DEF IntervalPasses, AuditTypeOK
<1>6. ASSUME StartExport PROVE AuditTypeOK'
  <2> DEFINE batch == AuditLog!Batch(checkpoint, BatchSize)
  <2>1. CASE batch = {}
    BY <1>4, <1>6, <2>1 DEF StartExport, Exported, AuditTypeOK
  <2>2. CASE batch # {}
    <3>1. batch \in Batches
      BY <1>1, <2>2, BatchIsBounded
    <3>2. exporter' = [stage |-> "put", batch |-> batch] /\ UNCHANGED <<due, exported>>
      BY <1>6, <2>2 DEF StartExport
    <3>3. overtaken' \in SUBSET Ids
      BY <1>6, <2>2 DEF StartExport, AuditTypeOK
    <3> HIDE DEF batch
    <3> QED
      BY <1>4, <1>6, <3>1, <3>2, <3>3 DEF StartExport, AuditTypeOK
  <2> QED
    BY <2>1, <2>2
<1>7. ASSUME PutObject PROVE AuditTypeOK' /\ FaultTypeOK'
  <2>1. exporter \in [stage: {"put", "advance"}, batch: Batches]
    BY <1>7 DEF PutObject, AuditTypeOK, Idle
  <2>2. exporter.batch \in SUBSET Ids
    BY <2>1 DEF Batches
  <2> QED
    BY <1>3, <1>4, <1>7, <2>1, <2>2, FaultTypes DEF PutObject, PutFailed, AuditTypeOK
<1>8. ASSUME AdvanceCheckpoint PROVE AuditTypeOK'
  <2>1. exporter.batch \in Batches
    BY <1>8 DEF AdvanceCheckpoint, AuditTypeOK, Idle
  <2>2. AuditLog!Max(exporter.batch) \in 0..MaxId
    <3>1. PICK b \in Batches : b = exporter.batch
      BY <2>1
    <3>2. b \in SUBSET (1..MaxId) /\ b # {}
      BY DEF Batches, Ids, AuditLog!Ids
    <3>3. AuditLog!Max(b) \in 1..MaxId
      BY <3>2, AuditIdsAssumption, MaxIsGreatest
    <3> QED
      BY <3>1, <3>3, AuditIdsAssumption
  <2>3. AuditLog!LogTypeOK'
    BY <1>1, <1>8, <2>2
    DEF AdvanceCheckpoint, AuditLog!Advance, AuditLog!Advanced, AuditLog!LogTypeOK
  <2> QED
    BY <1>8, <2>3 DEF AdvanceCheckpoint, Exported, AuditTypeOK
<1>9. ASSUME ExportFails PROVE AuditTypeOK' /\ FaultTypeOK'
  BY <1>4, <1>9, FaultTypes DEF ExportFails, JanitorRestarts, AuditTypeOK
<1> QED
  BY <1>2, <1>3, <1>5, <1>6, <1>7, <1>8, <1>9 DEF ExportStep, ExportFails

LEMMA TypesPreserved == TypeOK /\ [Next]_vars => TypeOK'
<1> SUFFICES ASSUME TypeOK, [Next]_vars PROVE TypeOK'
  OBVIOUS
<1>1. CASE OrganizationChanges
  <2>1. TenantsTypeOK'
    BY <1>1, HistoryTypes DEF OrganizationChanges, Happen, TenantsTypeOK, TypeOK
  <2> QED
    BY <1>1, <2>1
    DEF OrganizationChanges, TypeOK, FaultTypeOK, AuditTypeOK, CronTypeOK, AuditLog!LogTypeOK,
        auditVars, logVars, exportVars, cronVars, tableVars, schedulerVars
<1>2. CASE UNCHANGED vars
  BY <1>2
  DEF vars, TypeOK, FaultTypeOK, TenantsTypeOK, AuditTypeOK, CronTypeOK, AuditLog!LogTypeOK,
      tenantVars, auditVars, logVars, exportVars, cronVars, tableVars, schedulerVars
<1> QED
  BY <1>1, <1>2, WebhookTypes, CronTypes, ExportTypes DEF Next

\* Registry is well typed; in particular a pass of the exporter never takes
\* more rows than its limit and never writes an object without rows.
THEOREM RegistryTypeCorrect == Spec => []TypeOK
BY TypesInitially, TypesPreserved, PTL DEF Spec
-----------------------------------------------------------------------------
(* The audit export.  Up to the checkpoint every id has been handed out,   *)
(* and its row, while there is one, is in the bucket or was overtaken.  A  *)
(* pass may therefore move the checkpoint to the last row of its batch     *)
(* once the batch is uploaded, whatever was erased or committed meanwhile. *)

HandedOutInOrder == \A i, j \in Ids : i < j /\ rows[j] # "free" => rows[i] # "free"

Accounted(n, batch) ==
  \A i \in Ids : i <= n =>
    /\ rows[i] # "free"
    /\ rows[i] \in {"open", "visible"}
         => i \in batch \/ i \in exported \/ i \in overtaken

PassAccounts ==
  /\ exporter.stage = "put" => \A j \in exporter.batch : Accounted(j, exporter.batch)
  /\ exporter.stage = "advance" => \A j \in exporter.batch : Accounted(j, {})

ExportInv ==
  /\ TypeOK /\ HandedOutInOrder
  /\ Accounted(checkpoint, {}) /\ PassAccounts

LEMMA ExportInitially == Init => ExportInv
<1> SUFFICES ASSUME Init PROVE ExportInv
  OBVIOUS
<1>1. TypeOK
  BY TypesInitially
<1>2. \A i \in Ids : rows[i] = "free" /\ ~(i <= 0)
  BY AuditIdsAssumption DEF Init, AuditInit, AuditLog!LogInit, Ids, AuditLog!Ids
<1> QED
  BY <1>1, <1>2
  DEF Init, AuditInit, AuditLog!LogInit, ExportInv, HandedOutInOrder, Accounted, PassAccounts,
      Idle

\* No step hands an id back, revives a row or forgets what was exported.
Onward ==
  /\ \A i \in Ids :
       /\ rows[i] # "free" => rows'[i] # "free"
       /\ rows[i] # "free" /\ rows'[i] \in {"open", "visible"}
            => rows[i] \in {"open", "visible"}
  /\ exported \subseteq exported' /\ overtaken \subseteq overtaken'

LEMMA AccountsStay ==
  ASSUME Onward, NEW n, NEW batch, Accounted(n, batch)
  PROVE  \A i \in Ids : i <= n =>
           /\ rows'[i] # "free"
           /\ rows'[i] \in {"open", "visible"}
                => i \in batch \/ i \in exported' \/ i \in overtaken'
BY DEF Onward, Accounted

\* A step that leaves the exporter and the checkpoint alone.
LEMMA TableAccounts ==
  ASSUME ExportInv, Onward, UNCHANGED <<checkpoint, exporter>>, TypeOK', HandedOutInOrder'
  PROVE  ExportInv'
<1>1. Accounted(checkpoint, {})'
  BY AccountsStay DEF ExportInv, Accounted
<1>2. exporter.stage = "put" => \A j \in exporter.batch : Accounted(j, exporter.batch)'
  BY AccountsStay DEF ExportInv, PassAccounts, Accounted
<1>3. exporter.stage = "advance" => \A j \in exporter.batch : Accounted(j, {})'
  BY AccountsStay DEF ExportInv, PassAccounts, Accounted
<1>4. PassAccounts'
  BY <1>2, <1>3 DEF PassAccounts, Accounted
<1> QED
  BY <1>1, <1>4 DEF ExportInv

\* What a handler or a cascade does to the table.
LEMMA LogMoves ==
  ASSUME ExportInv, UNCHANGED <<exported, overtaken>>,
         \/ \E i \in Ids : AuditLog!Draw(i)
         \/ \E i : AuditLog!Commit(i) \/ AuditLog!Abort(i)
         \/ AuditLog!Erase(AuditLog!Visible)
         \/ UNCHANGED logVars
  PROVE  Onward /\ HandedOutInOrder' /\ UNCHANGED checkpoint
<1> USE DEF ExportInv, TypeOK, AuditTypeOK, AuditLog!LogTypeOK, Ids
<1>1. ASSUME NEW i \in Ids, AuditLog!Draw(i)
      PROVE  Onward /\ HandedOutInOrder' /\ UNCHANGED checkpoint
  <2>1. ASSUME NEW j \in Ids, NEW k \in Ids, j < k, rows'[k] # "free"
        PROVE  rows'[j] # "free"
    <3>1. CASE k = i
      <4>1. j \in 1..(i - 1)
        BY <2>1, <3>1, AuditIdsAssumption DEF AuditLog!Ids
      <4> QED
        BY <1>1, <4>1, <2>1, <3>1 DEF AuditLog!Draw
    <3>2. CASE k # i
      BY <1>1, <2>1, <3>2 DEF AuditLog!Draw, HandedOutInOrder
    <3> QED
      BY <3>1, <3>2
  <2>2. Onward
    BY <1>1 DEF AuditLog!Draw, Onward
  <2> QED
    BY <1>1, <2>1, <2>2 DEF AuditLog!Draw, HandedOutInOrder
<1>2. ASSUME NEW i, AuditLog!Commit(i) \/ AuditLog!Abort(i)
      PROVE  Onward /\ HandedOutInOrder' /\ UNCHANGED checkpoint
  BY <1>2 DEF AuditLog!Commit, AuditLog!Abort, Onward, HandedOutInOrder
<1>3. ASSUME AuditLog!Erase(AuditLog!Visible)
      PROVE  Onward /\ HandedOutInOrder' /\ UNCHANGED checkpoint
  BY <1>3 DEF AuditLog!Erase, AuditLog!Visible, Onward, HandedOutInOrder
<1>4. ASSUME UNCHANGED logVars
      PROVE  Onward /\ HandedOutInOrder' /\ UNCHANGED checkpoint
  BY <1>4 DEF logVars, Onward, HandedOutInOrder
<1> QED
  BY <1>1, <1>2, <1>3, <1>4

\* The rows below the last of a batch are in it, or were accounted for by the
\* checkpoint it starts from, or are open and thereby overtaken.
LEMMA BatchAccounts ==
  ASSUME ExportInv, UNCHANGED <<rows, exported>>,
         NEW j \in AuditLog!Batch(checkpoint, BatchSize),
         overtaken' = overtaken \union
           {i \in Ids : rows[i] = "open"
                          /\ \E k \in AuditLog!Batch(checkpoint, BatchSize) : i < k},
         NEW i \in Ids, i <= j
  PROVE  /\ rows[i] # "free"
         /\ rows[i] \in {"open", "visible"}
              => i \in AuditLog!Batch(checkpoint, BatchSize) \/ i \in exported \/ i \in overtaken'
<1> USE DEF Ids
<1>1. j \in Ids /\ rows[j] = "visible" /\ Ids \subseteq Int
  BY AuditIdsAssumption DEF AuditLog!Batch, AuditLog!Visible, AuditLog!Ids
<1>2. AuditLog!LogTypeOK /\ checkpoint \in 0..MaxId
  BY DEF ExportInv, TypeOK, AuditTypeOK, AuditLog!LogTypeOK
<1>3. i = j \/ i < j
  BY <1>1
<1>4. rows[i] # "free"
  BY <1>1, <1>3 DEF ExportInv, HandedOutInOrder
<1>5. CASE rows[i] = "open"
  BY <1>1, <1>3, <1>4, <1>5
<1>6. CASE rows[i] = "visible" /\ i <= checkpoint
  BY <1>4, <1>6 DEF ExportInv, Accounted
<1>7. CASE rows[i] = "visible" /\ ~(i <= checkpoint)
  <2>1. checkpoint < i /\ i \in AuditLog!Visible
    BY <1>1, <1>2, <1>7, AuditIdsAssumption DEF AuditLog!Visible
  <2>2. i \in AuditLog!Batch(checkpoint, BatchSize)
    BY <1>2, <2>1, BatchIsPrefix
  <2> QED
    BY <1>4, <2>2
<1> QED
  BY <1>4, <1>5, <1>6, <1>7

LEMMA PassKeeps ==
  ASSUME ExportInv, TypeOK',
         IntervalPasses \/ StartExport \/ PutObject \/ AdvanceCheckpoint \/ JanitorRestarts
  PROVE  ExportInv'
<1> USE DEF ExportInv
<1>1. UNCHANGED rows
  BY DEF IntervalPasses, StartExport, PutObject, AdvanceCheckpoint, AuditLog!Advance,
         JanitorRestarts, logVars
<1>2. HandedOutInOrder'
  BY <1>1 DEF HandedOutInOrder
<1>3. exported \subseteq exported' /\ overtaken \subseteq overtaken'
  BY DEF IntervalPasses, StartExport, Exported, PutObject, AdvanceCheckpoint, JanitorRestarts
<1>4. Onward
  BY <1>1, <1>3 DEF Onward
<1>5. ASSUME UNCHANGED checkpoint PROVE Accounted(checkpoint, {})'
  BY <1>4, <1>5, AccountsStay DEF Accounted
<1>6. ASSUME UNCHANGED checkpoint, exporter' = Idle PROVE ExportInv'
  BY <1>2, <1>5, <1>6 DEF PassAccounts, Idle
<1>7. ASSUME IntervalPasses PROVE ExportInv'
  BY <1>2, <1>4, <1>7, TableAccounts DEF IntervalPasses, logVars
<1>8. ASSUME StartExport PROVE ExportInv'
  <2> DEFINE batch == AuditLog!Batch(checkpoint, BatchSize)
  <2>1. CASE batch = {}
    BY <1>6, <1>8, <2>1 DEF StartExport, Exported, logVars
  <2>2. CASE batch # {}
    <3>1. /\ exporter' = [stage |-> "put", batch |-> batch]
          /\ overtaken' = overtaken \union
               {i \in Ids : rows[i] = "open" /\ \E k \in batch : i < k}
          /\ UNCHANGED <<rows, checkpoint, exported>>
      BY <1>8, <2>2 DEF StartExport, logVars
    <3>2. ASSUME NEW j \in batch, NEW i \in Ids, i <= j
          PROVE  /\ rows[i] # "free"
                 /\ rows[i] \in {"open", "visible"}
                      => i \in batch \/ i \in exported \/ i \in overtaken'
      BY <3>1, <3>2, BatchAccounts
    <3> HIDE DEF batch
    <3>3. PassAccounts'
      BY <3>1, <3>2 DEF PassAccounts, Accounted
    <3> QED
      BY <1>2, <1>5, <3>1, <3>3
  <2> QED
    BY <2>1, <2>2
<1>9. ASSUME PutObject PROVE ExportInv'
  <2>1. CASE exporter' = Idle
    BY <1>6, <1>9, <2>1 DEF PutObject, logVars
  <2>2. CASE exported' = exported \union exporter.batch
             /\ exporter' = [exporter EXCEPT !.stage = "advance"]
    <3>1. exporter \in [stage: {"put", "advance"}, batch: Batches] /\ exporter.stage = "put"
      BY <1>9 DEF PutObject, TypeOK, AuditTypeOK, Idle
    <3>2. exporter'.stage = "advance" /\ exporter'.batch = exporter.batch
      BY <2>2, <3>1
    <3>3. ASSUME NEW j \in exporter.batch PROVE Accounted(j, {})'
      BY <1>4, <2>2, <3>1, AccountsStay DEF PassAccounts, Accounted
    <3>4. PassAccounts'
      BY <3>2, <3>3 DEF PassAccounts, Accounted
    <3> QED
      BY <1>2, <1>5, <1>9, <3>4 DEF PutObject, logVars
  <2> QED
    BY <1>9, <2>1, <2>2 DEF PutObject, PutFailed
<1>10. ASSUME AdvanceCheckpoint PROVE ExportInv'
  <2>1. PICK b \in Batches : b = exporter.batch /\ exporter.stage = "advance"
    BY <1>10 DEF AdvanceCheckpoint, TypeOK, AuditTypeOK, Idle
  <2>2. b \in SUBSET (1..MaxId) /\ b # {}
    BY DEF Batches, Ids, AuditLog!Ids
  <2>3. AuditLog!Max(b) \in b
    BY <2>2, AuditIdsAssumption, MaxIsGreatest
  <2>4. Accounted(AuditLog!Max(b), {})
    BY <2>1, <2>3 DEF PassAccounts
  <2>5. /\ checkpoint' = checkpoint \/ checkpoint' = AuditLog!Max(b)
        /\ UNCHANGED <<rows, exported, overtaken>> /\ exporter' = Idle
    BY <1>10, <2>1 DEF AdvanceCheckpoint, AuditLog!Advance, AuditLog!Advanced, Exported
  <2>6. Accounted(checkpoint, {})'
    BY <2>4, <2>5 DEF Accounted
  <2> QED
    BY <1>2, <2>5, <2>6 DEF PassAccounts, Idle
<1>11. ASSUME JanitorRestarts PROVE ExportInv'
  BY <1>6, <1>11 DEF JanitorRestarts, logVars
<1> QED
  BY <1>7, <1>8, <1>9, <1>10, <1>11

LEMMA ExportPreserved == ExportInv /\ [Next]_vars => ExportInv'
<1> SUFFICES ASSUME ExportInv, [Next]_vars PROVE ExportInv'
  OBVIOUS
<1>1. TypeOK'
  BY TypesPreserved DEF ExportInv
<1>2. ASSUME UNCHANGED exportVars,
             \/ \E i \in Ids : AuditLog!Draw(i)
             \/ \E i : AuditLog!Commit(i) \/ AuditLog!Abort(i)
             \/ AuditLog!Erase(AuditLog!Visible)
             \/ UNCHANGED logVars
      PROVE  ExportInv'
  <2>1. Onward /\ HandedOutInOrder' /\ UNCHANGED checkpoint
    BY <1>2, LogMoves DEF exportVars
  <2> QED
    BY <1>1, <1>2, <2>1, TableAccounts DEF exportVars
<1>3. ASSUME UNCHANGED auditVars PROVE ExportInv'
  BY <1>2, <1>3 DEF auditVars
<1>4. ASSUME NEW e \in Events, WebhookHandler(e) \/ LogFails(e) PROVE ExportInv'
  <2>1. CASE HandleEvent(e)
    BY <1>2, <1>3, <2>1 DEF HandleEvent, Cascade
  <2>2. CASE BeginLog(e) \/ EndLog(e) \/ LogFails(e)
    BY <1>2, <2>2 DEF BeginLog, EndLog, LogFails
  <2> QED
    BY <1>4, <2>1, <2>2 DEF WebhookHandler
<1>5. ASSUME ExportStep \/ ExportFails PROVE ExportInv'
  BY <1>1, <1>5, PassKeeps DEF ExportStep, ExportFails
<1>6. ASSUME \/ OrganizationChanges \/ UserStep \/ RefreshStep \/ SchedulerFails
             \/ (\E c \in Crons : FireStep(c)) \/ UNCHANGED vars
      PROVE  ExportInv'
  BY <1>3, <1>6 DEF OrganizationChanges, UserStep, RefreshStep, SchedulerFails, FireStep, vars
<1> QED
  BY <1>4, <1>5, <1>6 DEF Next

\* No audit row is skipped by the exporter: what the checkpoint has passed is
\* in the bucket, but for rows that committed after one with a higher id was
\* read; whatever fails, restarts and is erased meanwhile.
THEOREM PassedExported == Spec => []PassedIsExported
<1>1. ExportInv => PassedIsExported
  BY DEF ExportInv, PassedIsExported, Accounted, AuditLog!Visible, Ids
<1> QED
  BY <1>1, ExportInitially, ExportPreserved, PTL DEF Spec
-----------------------------------------------------------------------------
(* Outbox.  What the exporter has in hand, and what is in the bucket, has  *)
(* shown, so a row that commits at or below the checkpoint was overtaken.  *)

HasShown(i) == rows[i] \in {"visible", "gone"}

InHand(i) == exporter # Idle /\ i \in exporter.batch

HandledHasShown == \A i \in Ids : InHand(i) \/ i \in exported => HasShown(i)

OutboxInv == ExportInv /\ HandledHasShown

OutboxStep == [Outbox!Next]_<<AuditLog!Shown, exported, checkpoint, overtaken>>

LEMMA ShownIs ==
  /\ Outbox!Ids = Ids
  /\ \A i \in Ids :
       AuditLog!Shown[i] = IF rows[i] \in {"free", "open"} THEN "pending" ELSE rows[i]
BY DEF AuditLog!Shown, Ids, AuditLog!Ids, Outbox!Ids

LEMMA BatchInHand ==
  ASSUME TypeOK, exporter # Idle
  PROVE  exporter.batch \in SUBSET Ids /\ exporter.batch # {}
<1>1. exporter \in [stage: {"put", "advance"}, batch: Batches]
  BY DEF TypeOK, AuditTypeOK
<1> QED
  BY <1>1 DEF Batches

LEMMA OutboxInitially == Init => OutboxInv /\ Outbox!Init
<1> SUFFICES ASSUME Init PROVE OutboxInv /\ Outbox!Init
  OBVIOUS
<1>1. HandledHasShown
  BY DEF Init, AuditInit, HandledHasShown, InHand
<1>2. Outbox!Init
  BY DEF Init, AuditInit, AuditLog!LogInit, Outbox!Init, AuditLog!Shown, Ids, AuditLog!Ids,
         Outbox!Ids
<1> QED
  BY <1>1, <1>2, ExportInitially DEF OutboxInv

\* What a handler or a cascade does to the table.  A commit shows its row, a
\* failed insert and a cascade remove theirs.
LEMMA LogImplements ==
  ASSUME OutboxInv, UNCHANGED exportVars,
         \/ \E i \in Ids : AuditLog!Draw(i)
         \/ \E i : AuditLog!Commit(i) \/ AuditLog!Abort(i)
         \/ AuditLog!Erase(AuditLog!Visible)
         \/ UNCHANGED logVars
  PROVE  OutboxStep /\ HandledHasShown'
<1> USE DEF OutboxInv
<1>1. /\ UNCHANGED <<exporter, exported, checkpoint, overtaken>>
      /\ rows \in [Ids -> {"free", "open", "visible", "gone"}]
  BY DEF ExportInv, TypeOK, AuditTypeOK, AuditLog!LogTypeOK, Ids, exportVars, logVars,
         AuditLog!Draw, AuditLog!Commit, AuditLog!Abort, AuditLog!Erase
<1>2. AuditLog!Shown'
        = [i \in Ids |-> IF rows'[i] \in {"free", "open"} THEN "pending" ELSE rows'[i]]
  BY DEF AuditLog!Shown, Ids
<1>3. ASSUME \A i \in Ids : HasShown(i) => HasShown(i)' PROVE HandledHasShown'
  BY <1>1, <1>3 DEF HandledHasShown, InHand
<1>4. CASE UNCHANGED rows
  <2>1. UNCHANGED AuditLog!Shown
    BY <1>4 DEF AuditLog!Shown
  <2> QED
    BY <1>1, <1>3, <1>4, <2>1 DEF HasShown, OutboxStep
<1>5. ASSUME NEW i \in Ids, AuditLog!Draw(i) PROVE OutboxStep /\ HandledHasShown'
  <2>1. rows[i] = "free" /\ rows' = [rows EXCEPT ![i] = "open"]
    BY <1>5 DEF AuditLog!Draw
  <2>2. UNCHANGED AuditLog!Shown
    BY <1>1, <2>1 DEF AuditLog!Shown, Ids
  <2> QED
    BY <1>1, <1>3, <2>1, <2>2 DEF HasShown, OutboxStep
<1>6. ASSUME NEW i \in Ids, AuditLog!Commit(i) PROVE OutboxStep /\ HandledHasShown'
  <2>1. rows[i] = "open" /\ rows' = [rows EXCEPT ![i] = "visible"]
    BY <1>6 DEF AuditLog!Commit
  <2>2. ~HasShown(i) /\ AuditLog!Shown[i] = "pending"
    BY <2>1, ShownIs DEF HasShown
  <2>3. i <= checkpoint => i \in overtaken
    BY <2>1, <2>2 DEF HandledHasShown, ExportInv, Accounted
  <2>4. AuditLog!Shown' = [AuditLog!Shown EXCEPT ![i] = "visible"]
    BY <1>1, <1>2, <2>1 DEF AuditLog!Shown, Ids
  <2>5. Outbox!Show(i)
    BY <1>1, <2>2, <2>3, <2>4 DEF Outbox!Show
  <2> QED
    BY <1>1, <1>3, <2>1, <2>5, ShownIs DEF HasShown, Outbox!Next, OutboxStep
<1>7. ASSUME NEW S \in SUBSET Ids, \A i \in Ids : rows'[i] = IF i \in S THEN "gone" ELSE rows[i]
      PROVE  OutboxStep /\ HandledHasShown'
  <2>1. AuditLog!Shown' = [i \in Ids |-> IF i \in S THEN "gone" ELSE AuditLog!Shown[i]]
    BY <1>2, <1>7, ShownIs
  <2>2. Outbox!Remove(S)
    BY <1>1, <2>1, ShownIs DEF Outbox!Remove
  <2> QED
    BY <1>3, <1>7, <2>2, ShownIs DEF HasShown, Outbox!Next, OutboxStep
<1>8. ASSUME NEW i \in Ids, AuditLog!Abort(i) PROVE OutboxStep /\ HandledHasShown'
  <2>1. \A j \in Ids : rows'[j] = IF j \in {i} THEN "gone" ELSE rows[j]
    BY <1>1, <1>8 DEF AuditLog!Abort
  <2> QED
    BY <1>7, <2>1
<1>9. ASSUME AuditLog!Erase(AuditLog!Visible) PROVE OutboxStep /\ HandledHasShown'
  <2>1. AuditLog!Visible \in SUBSET Ids
    BY DEF AuditLog!Visible, Ids
  <2>2. \A j \in Ids : rows'[j] = IF j \in AuditLog!Visible THEN "gone" ELSE rows[j]
    BY <1>9 DEF AuditLog!Erase, Ids
  <2> QED
    BY <1>7, <2>1, <2>2
<1>10. ASSUME NEW i, i \notin Ids, AuditLog!Commit(i) \/ AuditLog!Abort(i) PROVE UNCHANGED rows
  BY <1>1, <1>10 DEF AuditLog!Commit, AuditLog!Abort
<1>11. CASE \E i : AuditLog!Commit(i) \/ AuditLog!Abort(i)
  BY <1>4, <1>6, <1>8, <1>10, <1>11
<1> QED
  BY <1>4, <1>5, <1>9, <1>11 DEF logVars

\* A pass skips the open rows below its batch, copies the batch, and moves
\* the mark to its last row.
LEMMA PassImplements ==
  ASSUME OutboxInv,
         IntervalPasses \/ StartExport \/ PutObject \/ AdvanceCheckpoint \/ JanitorRestarts
  PROVE  OutboxStep /\ HandledHasShown'
<1> USE DEF OutboxInv
<1>1. UNCHANGED <<rows, AuditLog!Shown>>
  BY DEF AuditLog!Shown, IntervalPasses, StartExport, PutObject, AdvanceCheckpoint,
         JanitorRestarts, logVars, AuditLog!Advance
<1>2. ASSUME exporter' = Idle \/ UNCHANGED exporter, UNCHANGED <<exported, checkpoint, overtaken>>
      PROVE  OutboxStep /\ HandledHasShown'
  BY <1>1, <1>2 DEF OutboxStep, HandledHasShown, InHand, HasShown
<1>3. CASE IntervalPasses \/ JanitorRestarts
  BY <1>2, <1>3 DEF IntervalPasses, JanitorRestarts, logVars
<1>4. CASE StartExport
  <2> DEFINE batch == AuditLog!Batch(checkpoint, BatchSize)
             S == {i \in Ids : rows[i] = "open" /\ \E j \in batch : i < j}
  <2>1. CASE batch = {}
    BY <1>2, <1>4, <2>1 DEF StartExport, Exported, logVars
  <2>2. CASE batch # {}
    <3>1. /\ exporter' = [stage |-> "put", batch |-> batch]
          /\ overtaken' = overtaken \union S
          /\ UNCHANGED <<checkpoint, exported>>
      BY <1>4, <2>2 DEF StartExport, logVars
    <3>2. \A j \in batch : j \in Ids /\ rows[j] = "visible"
      BY DEF AuditLog!Batch, AuditLog!Visible, Ids
    <3>3. ASSUME NEW i \in S
          PROVE  /\ AuditLog!Shown[i] = "pending"
                 /\ \E j \in Ids : i < j /\ AuditLog!Shown[j] = "visible"
      BY <3>2, <3>3, ShownIs
    <3>4. S \in SUBSET Outbox!Ids
      BY ShownIs
    <3> HIDE DEF S, batch
    <3>5. Outbox!Skip(S)
      BY <1>1, <3>1, <3>3, ShownIs DEF Outbox!Skip
    <3>6. HandledHasShown'
      BY <1>1, <3>1, <3>2 DEF HandledHasShown, InHand, HasShown
    <3> QED
      BY <3>4, <3>5, <3>6 DEF Outbox!Next, OutboxStep
  <2> QED
    BY <2>1, <2>2
<1>5. CASE PutObject
  <2>1. /\ exporter # Idle /\ UNCHANGED <<checkpoint, overtaken>>
        /\ exported' = exported \/ exported' = exported \union exporter.batch
        /\ exporter' = Idle \/ exporter' = [exporter EXCEPT !.stage = "advance"]
    BY <1>5 DEF PutObject, PutFailed, Idle, logVars
  <2>2. PICK batch \in SUBSET Ids : batch = exporter.batch
    BY <2>1, BatchInHand DEF ExportInv
  <2>3. \A i \in batch : HasShown(i)
    BY <2>1, <2>2 DEF HandledHasShown, InHand
  <2>4. \A i \in batch : AuditLog!Shown[i] # "pending"
    BY <2>3, ShownIs DEF HasShown
  <2>5. exporter' # Idle => exporter'.batch = batch
    BY <2>1, <2>2, BatchInHand DEF ExportInv, TypeOK, AuditTypeOK
  <2>6. HandledHasShown'
    BY <1>1, <2>1, <2>2, <2>3, <2>5 DEF HandledHasShown, InHand, HasShown
  <2>7. CASE exported' = exported \union batch
    BY <1>1, <2>1, <2>4, <2>6, <2>7, ShownIs DEF Outbox!Copy, Outbox!Next, OutboxStep
  <2>8. CASE UNCHANGED exported
    BY <1>1, <2>1, <2>6, <2>8 DEF OutboxStep
  <2> QED
    BY <2>1, <2>2, <2>7, <2>8
<1>6. CASE AdvanceCheckpoint
  <2>1. exporter # Idle /\ exporter.stage = "advance" /\ exporter' = Idle
        /\ UNCHANGED <<exported, overtaken>>
    BY <1>6 DEF AdvanceCheckpoint, Exported, Idle
  <2>2. PICK batch \in (SUBSET Ids) \ {{}} : batch = exporter.batch
    BY <2>1, BatchInHand DEF ExportInv
  <2>3. PICK n \in batch : n = AuditLog!Max(batch)
    BY MaxIsGreatest, AuditIdsAssumption DEF Ids, AuditLog!Ids
  <2>4. Accounted(n, {})
    BY <2>1, <2>2 DEF ExportInv, PassAccounts
  <2>5. checkpoint' = IF checkpoint < n THEN n ELSE checkpoint
    BY <1>6, <2>2, <2>3 DEF AdvanceCheckpoint, AuditLog!Advance, AuditLog!Advanced
  <2>6. ASSUME NEW i \in 1..n
        PROVE  AuditLog!Shown[i] = "gone" \/ i \in exported \union overtaken
    <3>1. i \in Ids /\ i <= n
      BY AuditIdsAssumption DEF Ids, AuditLog!Ids
    <3>2. rows[i] \in {"open", "visible", "gone"}
      BY <2>4, <3>1 DEF Accounted, ExportInv, TypeOK, AuditTypeOK, AuditLog!LogTypeOK, Ids
    <3> QED
      BY <2>4, <3>1, <3>2, ShownIs DEF Accounted
  <2>7. CASE checkpoint < n
    <3>1. Outbox!Advance(n)
      BY <1>1, <2>1, <2>5, <2>6, <2>7 DEF Outbox!Advance
    <3>2. HandledHasShown'
      BY <1>1, <2>1 DEF HandledHasShown, InHand, HasShown
    <3> QED
      BY <3>1, <3>2, ShownIs DEF Outbox!Next, OutboxStep
  <2>8. CASE ~(checkpoint < n)
    BY <1>2, <2>1, <2>5, <2>8
  <2> QED
    BY <2>7, <2>8
<1> QED
  BY <1>3, <1>4, <1>5, <1>6

LEMMA OutboxPreserved == OutboxInv /\ [Next]_vars => OutboxInv' /\ OutboxStep
<1> SUFFICES ASSUME OutboxInv, [Next]_vars PROVE HandledHasShown' /\ OutboxStep
  BY ExportPreserved DEF OutboxInv
<1>1. ASSUME UNCHANGED auditVars PROVE HandledHasShown' /\ OutboxStep
  BY <1>1, LogImplements DEF auditVars
<1>2. ASSUME NEW e \in Events, WebhookHandler(e) \/ LogFails(e)
      PROVE  HandledHasShown' /\ OutboxStep
  <2>1. CASE HandleEvent(e)
    BY <1>1, <2>1, LogImplements DEF HandleEvent, Cascade
  <2>2. CASE BeginLog(e) \/ EndLog(e) \/ LogFails(e)
    BY <2>2, LogImplements DEF BeginLog, EndLog, LogFails
  <2> QED
    BY <1>2, <2>1, <2>2 DEF WebhookHandler
<1>3. ASSUME ExportStep \/ ExportFails PROVE HandledHasShown' /\ OutboxStep
  BY <1>3, PassImplements DEF ExportStep, ExportFails
<1>4. ASSUME \/ OrganizationChanges \/ UserStep \/ RefreshStep \/ SchedulerFails
             \/ (\E c \in Crons : FireStep(c)) \/ UNCHANGED vars
      PROVE  HandledHasShown' /\ OutboxStep
  BY <1>1, <1>4 DEF OrganizationChanges, UserStep, RefreshStep, SchedulerFails, FireStep, vars
<1> QED
  BY <1>2, <1>3, <1>4 DEF Next

\* Whatever is uploaded twice, erased in the middle of a pass or begun again,
\* the checkpoint passes an audit row that is not in the bucket only when it
\* is erased, or when a later row showed before it did.
THEOREM ExportImplementsOutbox == Spec => ImplementsOutbox
BY OutboxInitially, OutboxPreserved, PTL DEF Spec, ImplementsOutbox, Outbox!Spec, OutboxStep
-----------------------------------------------------------------------------
(* The scheduler.  Only the agent's deletion takes a trigger's row away.   *)
(* Until then every trigger the scheduler has a copy of, in an entry, in a *)
(* refresh or in a firing, still has its row; afterwards the foreign key   *)
(* of runs.agent_id refuses what such a copy asks for.                     *)

IsCopied(c) ==
  \/ c \in registered
  \/ refreshing # NotRefreshing /\ c \in refreshing.rows
  \/ firing[c] # "idle"

CopiesHaveRows ==
  agent # "deleted" => \A c \in Crons : IsCopied(c) => c \in triggers

CronInv ==
  /\ TypeOK
  /\ agent = "absent" => triggers = {}
  /\ CopiesHaveRows

LEMMA CronInitially == Init => CronInv
BY TypesInitially DEF Init, CronInit, CronInv, CopiesHaveRows, IsCopied

\* The scheduler makes copies of rows and of copies, and nothing else.
LEMMA SchedulerCopies ==
  ASSUME CronInv, UNCHANGED tableVars,
         RefreshStep \/ SchedulerFails \/ \E c \in Crons : FireStep(c)
  PROVE  CopiesHaveRows'
<1> USE DEF CronInv
<1>1. ASSUME ListAllCron PROVE CopiesHaveRows'
  BY <1>1 DEF ListAllCron, tableVars, CopiesHaveRows, IsCopied, NotRefreshing
<1>2. ASSUME ApplyRefresh PROVE CopiesHaveRows'
  BY <1>2 DEF ApplyRefresh, Entries, tableVars, CopiesHaveRows, IsCopied
<1>3. ASSUME SchedulerFails PROVE CopiesHaveRows'
  BY <1>3 DEF SchedulerFails, SchedulerRestarts, tableVars, CopiesHaveRows, IsCopied
<1>4. ASSUME NEW c \in Crons, FireStep(c) PROVE CopiesHaveRows'
  <2>1. firing \in [Crons -> {"idle", "insert", "publish"}]
    BY DEF TypeOK, CronTypeOK
  <2>2. /\ IsCopied(c)
        /\ \A d \in Crons \ {c} : firing'[d] = firing[d]
        /\ UNCHANGED <<tableVars, registered, refreshing>>
    BY <1>4, <2>1 DEF FireStep, EntryIsDue, Fire, InsertRun, PublishRun, IsCopied
  <2> QED
    BY <2>2 DEF CopiesHaveRows, IsCopied, tableVars
<1> QED
  BY <1>1, <1>2, <1>3, <1>4 DEF RefreshStep, Refresh

LEMMA CronPreserved == CronInv /\ [Next]_vars => CronInv'
<1> SUFFICES ASSUME CronInv, [Next]_vars PROVE CronInv'
  OBVIOUS
<1>1. TypeOK'
  BY TypesPreserved DEF CronInv
<1>2. ASSUME UNCHANGED tableVars, CopiesHaveRows' PROVE CronInv'
  BY <1>1, <1>2 DEF CronInv, tableVars
<1>3. ASSUME UNCHANGED cronVars PROVE CronInv'
  BY <1>2, <1>3 DEF CronInv, CopiesHaveRows, IsCopied, cronVars, tableVars, schedulerVars
<1>4. ASSUME AgentGoes, UNCHANGED schedulerVars PROVE CronInv'
  BY <1>1, <1>4
  DEF CronInv, TypeOK, CronTypeOK, AgentGoes, CopiesHaveRows, IsCopied, schedulerVars
<1>5. ASSUME UserStep PROVE CronInv'
  <2>1. ASSUME CreateAgent PROVE CronInv'
    BY <1>1, <2>1 DEF CreateAgent, CronInv, CopiesHaveRows, IsCopied, schedulerVars
  <2>2. ASSUME NEW c \in Crons, CreateTrigger(c) PROVE CronInv'
    BY <1>1, <2>2 DEF CreateTrigger, CronInv, CopiesHaveRows, IsCopied, schedulerVars
  <2> QED
    BY <1>4, <1>5, <2>1, <2>2 DEF UserStep, DeleteAgent
<1>6. ASSUME RefreshStep \/ SchedulerFails \/ \E c \in Crons : FireStep(c) PROVE CronInv'
  <2>1. UNCHANGED tableVars
    BY <1>6 DEF RefreshStep, Refresh, ListAllCron, ApplyRefresh, SchedulerFails,
                SchedulerRestarts, FireStep, EntryIsDue, Fire, InsertRun, PublishRun
  <2> QED
    BY <1>2, <1>6, <2>1, SchedulerCopies
<1>7. ASSUME NEW e \in Events, WebhookHandler(e) \/ LogFails(e) PROVE CronInv'
  BY <1>3, <1>4, <1>7 DEF WebhookHandler, HandleEvent, Cascade, BeginLog, EndLog, LogFails
<1>8. ASSUME OrganizationChanges \/ ExportStep \/ ExportFails \/ UNCHANGED vars PROVE CronInv'
  BY <1>3, <1>8 DEF OrganizationChanges, ExportStep, ExportFails, vars
<1> QED
  BY <1>5, <1>6, <1>7, <1>8 DEF Next

LEMMA RunsTriggeredStep ==
  CronInv /\ [Next]_vars =>
    \A c \in Crons : firing'[c] = "publish" /\ firing[c] # "publish" => c \in triggers
<1> SUFFICES ASSUME CronInv, [Next]_vars, NEW c \in Crons,
                    firing'[c] = "publish", firing[c] # "publish"
             PROVE  c \in triggers
  OBVIOUS
<1>1. firing \in [Crons -> {"idle", "insert", "publish"}]
  BY DEF CronInv, TypeOK, CronTypeOK
<1>2. ASSUME UNCHANGED firing PROVE FALSE
  BY <1>2
<1>3. ASSUME NEW d \in Crons, FireStep(d) PROVE InsertRun(d) /\ d = c
  BY <1>1, <1>3 DEF FireStep, EntryIsDue, Fire, InsertRun, PublishRun
<1>4. ASSUME InsertRun(c) PROVE c \in triggers
  BY <1>1, <1>4 DEF InsertRun, AgentExists, CronInv, CopiesHaveRows, IsCopied
<1>5. ASSUME SchedulerFails PROVE FALSE
  BY <1>5 DEF SchedulerFails, SchedulerRestarts
<1>6. ASSUME NEW e \in Events, WebhookHandler(e) \/ LogFails(e) PROVE FALSE
  BY <1>2, <1>6 DEF WebhookHandler, HandleEvent, Cascade, BeginLog, EndLog, LogFails,
                    cronVars, schedulerVars
<1>7. ASSUME OrganizationChanges \/ UserStep \/ RefreshStep \/ ExportStep \/ ExportFails
             \/ UNCHANGED vars
      PROVE  FALSE
  BY <1>2, <1>7
  DEF OrganizationChanges, UserStep, CreateAgent, DeleteAgent, CreateTrigger, RefreshStep,
      Refresh, ListAllCron, ApplyRefresh, ExportStep, ExportFails, vars, cronVars, schedulerVars
<1> QED
  BY <1>3, <1>4, <1>5, <1>6, <1>7 DEF Next

\* The scheduler inserts a run only for a trigger that still has its row,
\* whatever it remembers of rows that are gone.
THEOREM TriggeredRuns == Spec => RunsAreTriggered
BY CronInitially, CronPreserved, RunsTriggeredStep, PTL DEF Spec, RunsAreTriggered
-----------------------------------------------------------------------------
(* The tenant.  TenantFollowsWorkOS is a liveness property; what safety it *)
(* rests on is that the last event, once applied, is not written over.     *)

TenantInv ==
  /\ TypeOK
  /\ \A e \in Events : e > happened => webhooks[e] = "due"
  /\ ~disordered =>
       /\ happened = 0 => tenant = NoTenant
       /\ happened # 0 /\ webhooks[happened] # "due" => tenant = RowAfter(happened)

LEMMA ExpectedIsLast ==
  ASSUME TypeOK
  PROVE  /\ happened = 0 => Expected = NoTenant
         /\ happened # 0 => happened \in Events /\ Expected = RowAfter(happened)
BY HistoryTypes DEF TypeOK, TenantsTypeOK, Expected, RowAfter, Written

LEMMA TenantInitially == Init => TenantInv
BY TypesInitially DEF Init, TenantsInit, TenantInv

\* An event that is applied after the last one is out of order, and the last
\* one writes what the invariant asks for, also the second time.
LEMMA ApplyKeeps ==
  ASSUME TenantInv, NEW e \in Events, ApplyEvent(e), TypeOK'
  PROVE  TenantInv'
<1> USE DEF TenantInv
<1>1. /\ happened \in Events /\ happened \in Int /\ e \in Int /\ e <= happened
      /\ webhooks \in [Events -> {"due", "applied", "logging", "answered"}]
  BY HistoryTypes DEF ApplyEvent, TypeOK, TenantsTypeOK
<1>2. /\ webhooks' = [webhooks EXCEPT ![e] = "applied"] /\ tenant' = RowAfter(e)
      /\ UNCHANGED happened
      /\ disordered' = (disordered \/ \E f \in Events : f > e /\ webhooks[f] # "due")
  BY DEF ApplyEvent
<1>3. \A f \in Events : f > happened => webhooks'[f] = "due"
  BY <1>1, <1>2, HistoryTypes
<1>4. CASE e = happened
  BY <1>1, <1>2, <1>3, <1>4, HistoryTypes DEF RowAfter
<1>5. CASE e < happened
  <2>1. webhooks[happened] # "due" => disordered'
    BY <1>1, <1>2, <1>5
  <2>2. webhooks'[happened] = webhooks[happened]
    BY <1>1, <1>2, <1>5
  <2> QED
    BY <1>1, <1>2, <1>3, <2>1, <2>2, HistoryTypes
<1> QED
  BY <1>1, <1>4, <1>5

LEMMA TenantPreserved == TenantInv /\ [Next]_vars => TenantInv'
<1> SUFFICES ASSUME TenantInv, [Next]_vars PROVE TenantInv'
  OBVIOUS
<1>1. TypeOK' /\ happened \in 0..Len(History)
      /\ webhooks \in [Events -> {"due", "applied", "logging", "answered"}]
  BY TypesPreserved DEF TenantInv, TypeOK, TenantsTypeOK
<1>2. ASSUME UNCHANGED tenantVars PROVE TenantInv'
  BY <1>1, <1>2 DEF TenantInv, tenantVars, RowAfter
<1>3. ASSUME Happen PROVE TenantInv'
  <2>1. /\ happened + 1 \in Events /\ webhooks[happened + 1] = "due"
        /\ happened' = happened + 1 /\ happened' # 0
        /\ UNCHANGED <<webhooks, tenant, disordered>>
    BY <1>1, <1>3, HistoryTypes DEF Happen, TenantInv
  <2> QED
    BY <1>1, <2>1, HistoryTypes DEF TenantInv
<1>4. ASSUME NEW e \in Events, UNCHANGED <<happened, tenant, disordered>>,
             NEW s, webhooks' = [webhooks EXCEPT ![e] = s], webhooks[e] # "due"
      PROVE  TenantInv'
  BY <1>1, <1>4, HistoryTypes DEF TenantInv, RowAfter
<1>5. ASSUME NEW e \in Events, WebhookHandler(e) \/ LogFails(e) PROVE TenantInv'
  <2>1. CASE HandleEvent(e)
    BY <1>1, <2>1, ApplyKeeps DEF HandleEvent
  <2>2. CASE BeginLog(e)
    BY <1>4, <2>2 DEF BeginLog
  <2>3. CASE EndLog(e)
    BY <1>4, <2>3 DEF EndLog, AnswerEvent
  <2>4. CASE LogFails(e)
    BY <1>4, <2>4 DEF LogFails
  <2> QED
    BY <1>5, <2>1, <2>2, <2>3, <2>4 DEF WebhookHandler
<1>6. ASSUME \/ UserStep \/ RefreshStep \/ SchedulerFails \/ (\E c \in Crons : FireStep(c))
             \/ ExportStep \/ ExportFails \/ UNCHANGED vars
      PROVE  TenantInv'
  BY <1>2, <1>6 DEF UserStep, RefreshStep, SchedulerFails, FireStep, ExportStep, ExportFails,
                    vars
<1> QED
  BY <1>3, <1>5, <1>6 DEF Next, OrganizationChanges

\* As long as no event was applied after a later one, the row is what the
\* organization is as soon as the last event is applied, however often events
\* are sent again and whichever are still to come.
THEOREM TenantIsTheLastEvent ==
  Spec => [](~disordered /\ (happened # 0 => webhooks[happened] # "due") => tenant = Expected)
<1>1. TenantInv =>
        (~disordered /\ (happened # 0 => webhooks[happened] # "due") => tenant = Expected)
  BY ExpectedIsLast DEF TenantInv
<1> QED
  BY <1>1, TenantInitially, TenantPreserved, PTL DEF Spec
=============================================================================
