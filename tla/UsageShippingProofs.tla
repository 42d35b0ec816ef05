------------------------ MODULE UsageShippingProofs -------------------------
(***************************************************************************)
(* No interleaving of inserts, shippers, lost answers, crashes and pruning *)
(* loses a row of usage_events, but the one that commits after a higher id *)
(* was read: for every number of rows, tenants and shippers, every batch   *)
(* size and every set of faults.                                           *)
(***************************************************************************)
EXTENDS UsageShipping, FiniteSetTheorems, WellFoundedInduction, TLAPS

-----------------------------------------------------------------------------
(* Batches.  A batch is what the table shows past an id, cut off after     *)
(* BatchSize rows: nothing that shows is left out below its last row.      *)

LEMMA CardinalityIsOne == ASSUME NEW S PROVE Log!Cardinality(S) = Cardinality(S)
BY DEF Log!Cardinality, Cardinality

\* The newest id of a batch.  That a bounded set has a greatest element rests
\* on the order of the distances from the bound, which is well founded.
LEMMA MaxIsGreatest ==
  ASSUME NEW n \in Nat, NEW S \in SUBSET (1..n), S # {}
  PROVE  Log!Max(S) \in S /\ \A i \in S : i <= Log!Max(S)
<1> DEFINE T == {t \in Nat : \E i \in S : t = n - i}
           R == OpToRel(<, Nat)
<1>1. T \subseteq Nat /\ T # {}
  <2>1. PICK i \in S : TRUE
    OBVIOUS
  <2>2. n - i \in T
    BY <2>1
  <2> QED
    BY <2>2
<1>2. \E x \in T : \A y \in T : ~(<<y, x>> \in R)
  BY <1>1, WFMin, NatLessThanWellFounded
<1>3. \A x, y \in Nat : <<y, x>> \in R <=> y < x
  BY DEF OpToRel
<1> HIDE DEF R
<1>4. PICK x \in T : \A y \in T : ~(<<y, x>> \in R)
  BY <1>2
<1>5. ASSUME NEW y \in T PROVE x <= y
  <2>1. x \in Nat /\ y \in Nat /\ ~(<<y, x>> \in R)
    BY <1>1, <1>4
  <2>2. ~(y < x)
    BY <1>3, <2>1
  <2> QED
    BY <2>1, <2>2
<1>6. PICK j \in S : x = n - j
  BY <1>4
<1>7. \A i \in S : i <= j
  <2>1. ASSUME NEW i \in S PROVE i <= j
    <3>1. n - i \in T
      OBVIOUS
    <3> QED
      BY <1>5, <1>6, <3>1
  <2> QED
    BY <2>1
<1>8. \A y \in S : j >= y
  BY <1>7
<1> QED
  BY <1>8 DEF Log!Max

LEMMA BatchIsPrefix ==
  ASSUME Log!LogTypeOK, NEW from \in 0..MaxId, NEW j \in Log!Batch(from, BatchSize),
         NEW i \in Log!Visible, from < i, i <= j
  PROVE  i \in Log!Batch(from, BatchSize)
<1> DEFINE unread == {k \in Log!Visible : k > from}
           Below(k) == {m \in unread : m < k}
<1>1. /\ i \in unread /\ j \in unread
      /\ Log!Cardinality(Below(j)) < BatchSize
      /\ unread \subseteq 1..MaxId
  BY DEF Log!Batch, Log!Visible, Log!Ids
<1>2. IsFiniteSet(Below(j))
  <2>1. IsFiniteSet(1..MaxId)
    BY MaxIdAssumption, FS_Interval
  <2>2. Below(j) \in SUBSET (1..MaxId)
    BY <1>1
  <2> QED
    BY <2>1, <2>2, FS_Subset
<1>3. Below(i) \in SUBSET Below(j)
  BY <1>1, MaxIdAssumption
<1>4. /\ Cardinality(Below(i)) <= Cardinality(Below(j))
      /\ Cardinality(Below(i)) \in Nat /\ Cardinality(Below(j)) \in Nat
  BY <1>2, <1>3, FS_Subset, FS_CardinalityType
<1>5. Log!Cardinality(Below(i)) < BatchSize
  BY <1>1, <1>4, CardinalityIsOne, BatchSizeAssumption
<1> QED
  BY <1>1, <1>5 DEF Log!Batch

-----------------------------------------------------------------------------
(* The invariant.  Every id up to n is covered when the sequence has       *)
(* handed it out and its row, unless it is gone, is billed, overtaken, or  *)
(* in the batch at hand.  A shipper carries the fact from the checkpoint   *)
(* it read to the checkpoint it writes.                                    *)

\* Ids are handed out in their order.
NoGaps == \A i, j \in Ids : i < j /\ rows[j] # "free" => rows[i] # "free"

Covered(n, batch) ==
  \A i \in Ids : i <= n =>
    /\ rows[i] # "free"
    /\ rows[i] \in {"open", "visible"}
         => i \in batch \/ IsBilled(i) \/ i \in overtaken

ShippersCover ==
  \A s \in Shippers :
    /\ At(s, "select") => Covered(shipper[s].from, {})
    /\ At(s, "ship") => \A j \in shipper[s].batch : Covered(j, shipper[s].batch)
    /\ At(s, "advance") => \A j \in shipper[s].batch : Covered(j, {})

BatchesHold == \A s \in Shippers :
  At(s, "ship") \/ At(s, "advance") => shipper[s].batch # {}

ShippingInv ==
  /\ TypeOK /\ NoGaps /\ BatchesHold
  /\ Covered(checkpoint, {}) /\ ShippersCover /\ PrunedIsBilled

LEMMA FaultTypes ==
  ASSUME FaultTypeOK, NEW k, Fault(k) PROVE FaultTypeOK'
BY FaultsAssumption DEF FaultTypeOK, Fault

LEMMA ShippingInitially == Init => ShippingInv
BY FaultsAssumption, MaxIdAssumption
DEF Init, FaultInit, Log!LogInit, ShippingInv, TypeOK, FaultTypeOK, Log!LogTypeOK,
    NoGaps, BatchesHold, Covered, ShippersCover, PrunedIsBilled, At, Idle, Ids, Log!Ids

\* What a step may do to a row that was handed out: it ends, is pruned or
\* deleted, but never becomes free, and what is billed or overtaken stays so.
Onward ==
  /\ \A i \in Ids :
       /\ rows[i] # "free" => rows'[i] # "free"
       /\ rows[i] # "free" /\ rows'[i] \in {"open", "visible"}
            => rows[i] \in {"open", "visible"}
  /\ billed \subseteq billed' /\ overtaken \subseteq overtaken'

LEMMA CoveredStays ==
  Onward => \A n \in 0..MaxId, batch \in SUBSET Ids :
              Covered(n, batch) => Covered(n, batch)'
BY DEF Onward, Covered, IsBilled

\* The shippers that a step leaves alone go on covering.
LEMMA OthersCover ==
  ASSUME ShippingInv, Onward, NEW s \in Shippers, UNCHANGED shipper[s]
  PROVE  /\ At(s, "select") => Covered(shipper[s].from, {})'
         /\ At(s, "ship") => \A j \in shipper[s].batch : Covered(j, shipper[s].batch)'
         /\ At(s, "advance") => \A j \in shipper[s].batch : Covered(j, {})'
<1>1. At(s, "select") => shipper[s].from \in 0..MaxId
  BY DEF ShippingInv, TypeOK, At, Idle
<1>2. /\ At(s, "ship") => shipper[s].batch \in SUBSET Ids
      /\ At(s, "advance") => shipper[s].batch \in SUBSET Ids
  BY DEF ShippingInv, TypeOK, At, Idle
<1>3. Ids \subseteq 0..MaxId /\ {} \in SUBSET Ids
  BY MaxIdAssumption DEF Ids, Log!Ids
<1> QED
  BY <1>1, <1>2, <1>3, CoveredStays DEF ShippingInv, ShippersCover, Covered

\* A step that leaves the shippers and the checkpoint alone.
LEMMA TableCovers ==
  ASSUME ShippingInv, Onward, UNCHANGED <<checkpoint, shipper>>, TypeOK', NoGaps',
         PrunedIsBilled'
  PROVE  ShippingInv'
<1>1. Covered(checkpoint, {})'
  <2>1. checkpoint \in 0..MaxId /\ {} \in SUBSET Ids
    BY DEF ShippingInv, TypeOK, Log!LogTypeOK
  <2> QED
    BY <2>1, CoveredStays DEF ShippingInv, Covered
<1>2. ShippersCover'
  BY OthersCover DEF ShippersCover, At, Covered
<1>3. BatchesHold'
  BY DEF ShippingInv, BatchesHold, At
<1> QED
  BY <1>1, <1>2, <1>3 DEF ShippingInv

\* Inserts end, rows age, tenants go and the janitor prunes.
LEMMA TableSteps ==
  ASSUME ShippingInv,
         \/ \E i \in Ids : BeginRecord(i) \/ EndRecord(i) \/ Ages(i)
         \/ \E t \in Tenants : DeleteTenant(t)
         \/ GcUsageEvents
         \/ UNCHANGED vars
  PROVE  ShippingInv'
<1> USE DEF ShippingInv, TypeOK, Ids
<1>1. ASSUME UNCHANGED <<billed, overtaken, pruned>> PROVE PrunedIsBilled'
  BY <1>1 DEF PrunedIsBilled, IsBilled
<1>2. ASSUME NEW i \in Ids, BeginRecord(i) PROVE ShippingInv'
  <2>1. TypeOK'
    BY <1>2 DEF BeginRecord, Log!Draw, Log!LogTypeOK, FaultTypeOK
  <2>2. NoGaps'
    <3>1. ASSUME NEW j \in Ids, NEW k \in Ids, j < k, rows'[k] # "free"
          PROVE  rows'[j] # "free"
      <4>1. CASE k = i
        <5>1. j \in 1..(i - 1)
          BY <3>1, <4>1, MaxIdAssumption DEF Log!Ids
        <5> QED
          BY <1>2, <5>1, <3>1, <4>1 DEF BeginRecord, Log!Draw, Log!LogTypeOK
      <4>2. CASE k # i
        BY <1>2, <3>1, <4>2 DEF BeginRecord, Log!Draw, Log!LogTypeOK, NoGaps
      <4> QED
        BY <4>1, <4>2
    <3> QED
      BY <3>1 DEF NoGaps
  <2>3. Onward
    BY <1>2 DEF BeginRecord, Log!Draw, Log!LogTypeOK, Onward
  <2> QED
    BY <1>1, <1>2, <2>1, <2>2, <2>3, TableCovers DEF BeginRecord, Log!Draw
<1>3. ASSUME NEW i \in Ids, EndRecord(i) PROVE ShippingInv'
  <2>1. TypeOK'
    BY <1>3 DEF EndRecord, Log!Commit, Log!Abort, Log!LogTypeOK, FaultTypeOK
  <2>2. Onward /\ NoGaps'
    BY <1>3 DEF EndRecord, Log!Commit, Log!Abort, Log!LogTypeOK, Onward, NoGaps
  <2> QED
    BY <1>1, <1>3, <2>1, <2>2, TableCovers DEF EndRecord, Log!Commit, Log!Abort
<1>4. ASSUME NEW i \in Ids, Ages(i) PROVE ShippingInv'
  <2>1. TypeOK' /\ Onward /\ NoGaps'
    BY <1>4 DEF Ages, logVars, Log!LogTypeOK, FaultTypeOK, Onward, NoGaps
  <2> QED
    BY <1>1, <1>4, <2>1, TableCovers DEF Ages, logVars
<1>5. ASSUME NEW ids \in SUBSET Log!Visible, Log!Erase(ids), UNCHANGED <<billed, overtaken>>
      PROVE  Log!LogTypeOK' /\ Onward /\ NoGaps' /\ UNCHANGED checkpoint
  BY <1>5 DEF Log!Erase, Log!LogTypeOK, Log!Visible, Onward, NoGaps
<1>6. ASSUME NEW t \in Tenants, DeleteTenant(t) PROVE ShippingInv'
  <2>1. Log!LogTypeOK' /\ Onward /\ NoGaps' /\ UNCHANGED checkpoint
    BY <1>5, <1>6 DEF DeleteTenant
  <2> QED
    BY <1>1, <1>6, <2>1, TableCovers DEF DeleteTenant, FaultTypeOK
<1>7. ASSUME GcUsageEvents PROVE ShippingInv'
  <2>1. Prunable \subseteq Log!Visible
    BY DEF Prunable
  <2>2. Log!LogTypeOK' /\ Onward /\ NoGaps' /\ UNCHANGED checkpoint
    BY <1>5, <1>7, <2>1 DEF GcUsageEvents
  <2>3. ASSUME NEW i \in Prunable PROVE IsBilled(i) \/ i \in overtaken
    BY <2>3 DEF Prunable, Covered, Log!Visible
  <2>4. PrunedIsBilled'
    BY <1>7, <2>3 DEF PrunedIsBilled, GcUsageEvents, IsBilled
  <2>5. pruned' \in SUBSET Ids
    BY <1>7, <2>1 DEF GcUsageEvents, Log!Visible
  <2> QED
    BY <1>7, <2>2, <2>4, <2>5, TableCovers DEF GcUsageEvents, FaultTypeOK
<1>8. ASSUME UNCHANGED vars PROVE ShippingInv'
  <2>1. TypeOK' /\ Onward /\ NoGaps'
    BY <1>8 DEF vars, logVars, Log!LogTypeOK, FaultTypeOK, Onward, NoGaps
  <2> QED
    BY <1>1, <1>8, <2>1, TableCovers DEF vars, logVars
<1> QED
  BY <1>2, <1>3, <1>4, <1>6, <1>7, <1>8

-----------------------------------------------------------------------------
(* Shipper.tick.                                                           *)

\* A shipper that moves to x keeps the invariant when x covers and nothing is
\* taken from the table.
LEMMA ShipperMoves ==
  ASSUME ShippingInv, Onward, NEW s \in Shippers, NEW x, Goes(s, x),
         UNCHANGED <<rows, tenants, old, pruned>>, FaultTypeOK',
         billed' \subseteq {Key(i, {}) : i \in Ids}, overtaken' \subseteq Ids,
         checkpoint' \in 0..MaxId, Covered(checkpoint, {})',
         \/ x = Idle
         \/ x \in [stage: {"select"}, from: 0..MaxId] /\ Covered(shipper[s].from, {})'
         \/ /\ x \in [stage: {"ship"}, batch: (SUBSET Ids) \ {{}}]
            /\ (\A j \in shipper[s].batch : Covered(j, shipper[s].batch))'
         \/ /\ x \in [stage: {"advance"}, batch: (SUBSET Ids) \ {{}}]
            /\ (\A j \in shipper[s].batch : Covered(j, {}))'
  PROVE  ShippingInv'
<1> USE DEF ShippingInv
<1>1. shipper'[s] = x /\ \A t \in Shippers \ {s} : shipper'[t] = shipper[t]
  BY DEF TypeOK, Goes
<1>2. TypeOK'
  BY DEF TypeOK, Goes, Log!LogTypeOK
<1>3. NoGaps' /\ PrunedIsBilled'
  BY DEF NoGaps, PrunedIsBilled, Onward, IsBilled
<1>4. BatchesHold'
  BY <1>1 DEF BatchesHold, At, Idle
<1>5. ShippersCover'
  <2>1. ASSUME NEW t \in Shippers \ {s}
        PROVE  /\ At(t, "select") => Covered(shipper[t].from, {})'
               /\ At(t, "ship") => \A j \in shipper[t].batch : Covered(j, shipper[t].batch)'
               /\ At(t, "advance") => \A j \in shipper[t].batch : Covered(j, {})'
    BY <1>1, OthersCover
  <2>2. ASSUME NEW t \in Shippers \ {s}
        PROVE  /\ At(t, "select")' => Covered(shipper[t].from, {})'
               /\ At(t, "ship")' => (\A j \in shipper[t].batch : Covered(j, shipper[t].batch))'
               /\ At(t, "advance")' => (\A j \in shipper[t].batch : Covered(j, {}))'
    BY <1>1, <2>1 DEF At, Covered
  <2>3. /\ At(s, "select")' => Covered(shipper[s].from, {})'
        /\ At(s, "ship")' => (\A j \in shipper[s].batch : Covered(j, shipper[s].batch))'
        /\ At(s, "advance")' => (\A j \in shipper[s].batch : Covered(j, {}))'
    BY <1>1 DEF At, Idle
  <2> QED
    BY <2>2, <2>3 DEF ShippersCover
<1> QED
  BY <1>2, <1>3, <1>4, <1>5

\* The rows below the newest of a batch are in it, or were covered by the
\* checkpoint it starts from, or are open and thereby overtaken.
LEMMA BatchCovers ==
  ASSUME ShippingInv, NEW from \in 0..MaxId, Covered(from, {}), UNCHANGED <<rows, billed>>,
         NEW j \in Log!Batch(from, BatchSize),
         overtaken' = overtaken \union
           {i \in Ids : rows[i] = "open" /\ \E k \in Log!Batch(from, BatchSize) : i < k}
  PROVE  Covered(j, Log!Batch(from, BatchSize))'
<1> DEFINE batch == Log!Batch(from, BatchSize)
<1> USE DEF ShippingInv, Ids
<1>1. j \in Ids /\ rows[j] = "visible" /\ Ids \subseteq Int
  BY MaxIdAssumption DEF Log!Batch, Log!Visible, Log!Ids
<1>2. Log!LogTypeOK
  BY DEF TypeOK
<1> SUFFICES ASSUME NEW i \in Ids, i <= j
             PROVE  /\ rows[i] # "free"
                    /\ rows[i] \in {"open", "visible"}
                         => i \in batch \/ IsBilled(i) \/ i \in overtaken'
  <2>1. \A i \in Ids : rows'[i] = rows[i] /\ (IsBilled(i) => IsBilled(i)')
    BY DEF IsBilled
  <2>2. Log!Batch(from, BatchSize)' = batch
    BY DEF Log!Batch, Log!Visible
  <2> QED
    BY <2>1, <2>2 DEF Covered
<1>3. rows[i] # "free"
  <2>1. i = j \/ i < j
    BY <1>1, MaxIdAssumption DEF Log!Ids
  <2> QED
    BY <1>1, <2>1 DEF NoGaps
<1>4. CASE rows[i] = "open"
  <2>1. i < j
    BY <1>1, <1>4, MaxIdAssumption DEF Log!Ids
  <2> QED
    BY <1>3, <1>4, <2>1
<1>5. CASE rows[i] = "visible" /\ i <= from
  BY <1>3, <1>5 DEF Covered
<1>6. CASE rows[i] = "visible" /\ ~(i <= from)
  <2>1. from < i /\ i \in Log!Visible
    BY <1>6, MaxIdAssumption DEF Log!Ids, Log!Visible
  <2>2. i \in batch
    BY <1>2, <2>1, BatchIsPrefix
  <2> QED
    BY <1>3, <2>2
<1> QED
  BY <1>3, <1>4, <1>5, <1>6

LEMMA ShipperSteps ==
  ASSUME ShippingInv, NEW s \in Shippers, Tick(s) \/ TickFails(s)
  PROVE  ShippingInv'
<1> USE DEF ShippingInv
<1> DEFINE busy == shipper[s]
<1>1. ASSUME UNCHANGED <<rows, checkpoint>>, billed \subseteq billed', overtaken \subseteq overtaken'
      PROVE  /\ Onward
             /\ checkpoint' \in 0..MaxId /\ Covered(checkpoint, {})'
  <2>1. Onward
    BY <1>1 DEF Onward
  <2>2. checkpoint \in 0..MaxId /\ {} \in SUBSET Ids
    BY DEF TypeOK, Log!LogTypeOK
  <2> QED
    BY <1>1, <2>1, <2>2, CoveredStays DEF Covered
<1>2. /\ billed \subseteq {Key(i, {}) : i \in Ids} /\ overtaken \subseteq Ids
      /\ FaultTypeOK /\ checkpoint \in 0..MaxId
  BY DEF TypeOK, Log!LogTypeOK
<1>3. ASSUME UNCHANGED faults PROVE FaultTypeOK'
  BY <1>2, <1>3 DEF FaultTypeOK
<1>4. ASSUME ReadCheckpoint(s) PROVE ShippingInv'
  <2> DEFINE x == [stage |-> "select", from |-> checkpoint]
  <2>1. Goes(s, x) /\ UNCHANGED <<rows, checkpoint, tenants, old, billed, pruned, overtaken, faults>>
    BY <1>4 DEF ReadCheckpoint, logVars
  <2>2. shipper'[s] = x
    BY <2>1 DEF Goes, TypeOK
  <2>3. Covered(shipper[s].from, {})'
    BY <1>1, <2>1, <2>2 DEF Covered
  <2>4. x \in [stage: {"select"}, from: 0..MaxId]
    BY <1>2
  <2> QED
    BY <1>1, <1>2, <1>3, <2>1, <2>3, <2>4, ShipperMoves
<1>5. ASSUME SelectBatch(s) PROVE ShippingInv'
  <2>1. busy.from \in 0..MaxId /\ Covered(busy.from, {})
    BY <1>5 DEF SelectBatch, At, TypeOK, Idle, ShippersCover
  <2>2. UNCHANGED <<rows, checkpoint, tenants, old, billed, pruned, faults>>
    BY <1>5 DEF SelectBatch, logVars
  <2>3. PICK from \in 0..MaxId : from = busy.from
    BY <2>1
  <2>4. PICK batch \in SUBSET Ids : batch = Log!Batch(from, BatchSize)
    BY DEF Log!Batch, Log!Visible, Ids
  <2>5. CASE batch = {}
    BY <1>1, <1>2, <1>3, <1>5, <2>2, <2>3, <2>4, <2>5, ShipperMoves DEF SelectBatch
  <2>6. CASE batch # {}
    <3> DEFINE x == [stage |-> "ship", batch |-> batch]
    <3>1. /\ Goes(s, x)
          /\ overtaken' = overtaken \union
               {i \in Ids : rows[i] = "open" /\ \E j \in batch : i < j}
      BY <1>5, <2>3, <2>4, <2>6 DEF SelectBatch
    <3>2. shipper'[s] = x
      BY <3>1 DEF Goes, TypeOK
    <3>3. Log!Batch(from, BatchSize)' = batch
      BY <2>2, <2>4 DEF Log!Batch, Log!Visible
    <3>4. ASSUME NEW j \in batch PROVE Covered(j, batch)'
      <4>1. Covered(from, {})
        BY <2>1, <2>3
      <4>2. Covered(j, Log!Batch(from, BatchSize))'
        BY <2>2, <2>4, <3>1, <4>1, BatchCovers
      <4> QED
        BY <3>3, <4>2 DEF Covered
    <3>5. (\A j \in shipper[s].batch : Covered(j, shipper[s].batch))'
      BY <3>2, <3>4 DEF Covered
    <3>6. /\ x \in [stage: {"ship"}, batch: (SUBSET Ids) \ {{}}]
          /\ overtaken' \subseteq Ids /\ overtaken \subseteq overtaken'
      BY <1>2, <2>6, <3>1
    <3> QED
      BY <1>1, <1>2, <1>3, <2>2, <3>1, <3>5, <3>6, ShipperMoves
  <2> QED
    BY <2>5, <2>6
<1>6. ASSUME Ship(s) PROVE ShippingInv'
  <2>1. busy.batch \in (SUBSET Ids) \ {{}} /\ \A j \in busy.batch : Covered(j, busy.batch)
    BY <1>6 DEF Ship, At, TypeOK, Idle, ShippersCover, BatchesHold
  <2>2. UNCHANGED <<rows, checkpoint, tenants, old, pruned, overtaken>>
    BY <1>6 DEF Ship, logVars
  <2>3. PICK batch \in (SUBSET Ids) \ {{}} : batch = busy.batch
    BY <2>1
  <2>4. ASSUME Accepted(busy.batch)
        PROVE  /\ billed \subseteq billed' /\ billed' \subseteq {Key(i, {}) : i \in Ids}
               /\ \A i \in batch : IsBilled(i)'
    <3>1. billed' = billed \union {<<i>> : i \in batch}
      BY <2>3, <2>4 DEF Accepted, Key
    <3>2. ASSUME NEW i \in batch PROVE IsBilled(i)'
      <4>1. <<i>> \in billed' /\ <<i>>[1] = i
        BY <3>1
      <4> QED
        BY <4>1 DEF IsBilled
    <3>3. billed' \subseteq {<<i>> : i \in Ids}
      BY <1>2, <3>1 DEF Key
    <3> QED
      BY <3>1, <3>2, <3>3 DEF Key
  <2>5. CASE /\ Accepted(busy.batch)
             /\ Goes(s, [shipper[s] EXCEPT !.stage = "advance"])
             /\ UNCHANGED faults
    <3> DEFINE x == [stage |-> "advance", batch |-> batch]
    <3>1. busy \in [stage: {"ship", "advance"}, batch: SUBSET Ids]
      BY <1>6 DEF Ship, At, TypeOK, Idle
    <3>2. Goes(s, x)
      <4>1. [busy EXCEPT !.stage = "advance"] = x
        BY <2>3, <3>1
      <4> QED
        BY <2>5, <4>1
    <3>3. shipper'[s] = x
      BY <3>2 DEF Goes, TypeOK
    <3>4. ASSUME NEW j \in batch PROVE Covered(j, {})'
      BY <2>1, <2>2, <2>3, <2>4, <2>5 DEF Covered, IsBilled
    <3>5. (\A j \in shipper[s].batch : Covered(j, {}))'
      BY <3>3, <3>4 DEF Covered
    <3> QED
      BY <1>1, <1>2, <1>3, <2>2, <2>4, <2>5, <3>2, <3>5, ShipperMoves
  <2>6. CASE /\ Fault("orb")
             /\ Accepted(shipper[s].batch) \/ UNCHANGED billed
             /\ ShipFailed(s)
    BY <1>1, <1>2, <2>2, <2>4, <2>6, FaultTypes, ShipperMoves DEF ShipFailed
  <2> QED
    BY <1>6, <2>5, <2>6 DEF Ship
<1>7. ASSUME AdvanceCheckpoint(s) PROVE ShippingInv'
  <2>1. busy.batch \in (SUBSET Ids) \ {{}} /\ \A j \in busy.batch : Covered(j, {})
    BY <1>7 DEF AdvanceCheckpoint, At, TypeOK, Idle, ShippersCover, BatchesHold
  <2>2. Log!Max(busy.batch) \in busy.batch
    <3>1. PICK batch \in (SUBSET Ids) \ {{}} : batch = busy.batch
      BY <2>1
    <3>2. Log!Max(batch) \in batch
      BY MaxIsGreatest, MaxIdAssumption DEF Ids, Log!Ids
    <3> QED
      BY <3>1, <3>2
  <2>3. UNCHANGED <<rows, tenants, old, billed, pruned, overtaken, faults>>
    BY <1>7 DEF AdvanceCheckpoint, Log!Advance
  <2>4. checkpoint' \in {checkpoint, Log!Max(busy.batch)}
    BY <1>7 DEF AdvanceCheckpoint, Log!Advance, Log!Advanced
  <2>5. checkpoint' \in 0..MaxId /\ Covered(checkpoint', {})
    BY <1>2, <2>1, <2>2, <2>4, MaxIdAssumption DEF Ids, Log!Ids
  <2>6. Covered(checkpoint, {})'
    BY <2>3, <2>5 DEF Covered, IsBilled
  <2>7. Onward
    BY <2>3 DEF Onward
  <2> QED
    BY <1>2, <1>3, <1>7, <2>3, <2>5, <2>6, <2>7, ShipperMoves DEF AdvanceCheckpoint
<1>8. ASSUME TickFails(s) PROVE ShippingInv'
  BY <1>1, <1>2, <1>8, FaultTypes, ShipperMoves DEF TickFails, logVars
<1> QED
  BY <1>4, <1>5, <1>6, <1>7, <1>8 DEF Tick

LEMMA ShippingPreserved == ShippingInv /\ [Next]_vars => ShippingInv'
BY TableSteps, ShipperSteps DEF Next

-----------------------------------------------------------------------------
(* Theorems.                                                               *)

\* UsageShipping is well typed; in particular a row is only ever counted
\* under the one key it has, whatever batch it is shipped in.
THEOREM ShippingTypeCorrect == Spec => []TypeOK
<1>1. ShippingInv => TypeOK
  BY DEF ShippingInv
<1> QED
  BY <1>1, ShippingInitially, ShippingPreserved, PTL DEF Spec

\* What the checkpoint has passed is billed, but for the rows that were
\* overtaken, with any number of shippers, lost answers and crashes.
THEOREM PassedBilled == Spec => []PassedIsBilled
<1>1. ShippingInv => PassedIsBilled
  BY DEF ShippingInv, PassedIsBilled, Covered, Log!Visible, Ids
<1> QED
  BY <1>1, ShippingInitially, ShippingPreserved, PTL DEF Spec

\* The janitor prunes nothing that was still to be billed.
THEOREM PrunedBilled == Spec => []PrunedIsBilled
<1>1. ShippingInv => PrunedIsBilled
  BY DEF ShippingInv
<1> QED
  BY <1>1, ShippingInitially, ShippingPreserved, PTL DEF Spec

\* A slow shipper never moves the checkpoint back.
THEOREM CheckpointAdvances == Spec => CheckpointNeverRegresses
<1>1. ShippingInv /\ [Next]_vars => [checkpoint' >= checkpoint]_checkpoint
  <2>1. SUFFICES ASSUME ShippingInv, NEW s \in Shippers, AdvanceCheckpoint(s)
                 PROVE  checkpoint' >= checkpoint
    BY DEF Next, vars, logVars, Tick, BeginRecord, EndRecord, Ages, DeleteTenant,
           GcUsageEvents, ReadCheckpoint, SelectBatch, Ship, TickFails, Log!Draw,
           Log!Commit, Log!Abort, Log!Erase
  <2>2. checkpoint \in Int /\ Log!Max(shipper[s].batch) \in Int
    <3>1. shipper[s].batch \in (SUBSET (1..MaxId)) \ {{}}
      BY <2>1 DEF ShippingInv, AdvanceCheckpoint, At, TypeOK, Idle, BatchesHold, Ids, Log!Ids
    <3>2. PICK batch \in (SUBSET (1..MaxId)) \ {{}} : batch = shipper[s].batch
      BY <3>1
    <3>3. Log!Max(batch) \in batch
      BY MaxIsGreatest, MaxIdAssumption
    <3> QED
      BY <2>1, <3>2, <3>3 DEF ShippingInv, TypeOK, Log!LogTypeOK
  <2> QED
    BY <2>1, <2>2 DEF AdvanceCheckpoint, Log!Advance, Log!Advanced
<1> QED
  BY <1>1, ShippingInitially, ShippingPreserved, PTL DEF Spec, CheckpointNeverRegresses
-----------------------------------------------------------------------------
(* Outbox.  The invariant is one more: what a shipper has in hand, and     *)
(* what is billed, has shown.  A row that is still open at or below the    *)
(* checkpoint is thereby overtaken, since all else there is billed.        *)

HasShown(i) == rows[i] \in {"visible", "gone"}

InHand(i) == \E s \in Shippers :
  (At(s, "ship") \/ At(s, "advance")) /\ i \in shipper[s].batch

HandledHasShown == \A i \in Ids : InHand(i) \/ IsBilled(i) => HasShown(i)

OutboxInv == ShippingInv /\ HandledHasShown

OutboxStep ==
  [Outbox!Next]_<<Log!Shown, {key[1] : key \in billed}, checkpoint, overtaken>>

LEMMA ShownIs ==
  /\ Outbox!Ids = Ids
  /\ \A i \in Ids :
       Log!Shown[i] = IF rows[i] \in {"free", "open"} THEN "pending" ELSE rows[i]
BY DEF Log!Shown, Ids, Log!Ids, Outbox!Ids

\* A batch in hand is a set of ids that is not empty.
LEMMA BatchInHand ==
  ASSUME ShippingInv, NEW s \in Shippers, At(s, "ship") \/ At(s, "advance")
  PROVE  /\ shipper[s] \in [stage: {"ship", "advance"}, batch: SUBSET Ids]
         /\ shipper[s].batch \in SUBSET Ids /\ shipper[s].batch # {}
<1>1. shipper[s] \in [stage: {"ship", "advance"}, batch: SUBSET Ids]
  BY DEF ShippingInv, TypeOK, At, Idle
<1> QED
  BY <1>1 DEF ShippingInv, BatchesHold

LEMMA OutboxInitially == Init => OutboxInv /\ Outbox!Init
<1> SUFFICES ASSUME Init PROVE OutboxInv /\ Outbox!Init
  OBVIOUS
<1>1. HandledHasShown
  BY DEF Init, HandledHasShown, InHand, IsBilled, At, Idle
<1>2. Outbox!Init
  BY DEF Init, Log!LogInit, Outbox!Init, Log!Shown, Ids, Log!Ids, Outbox!Ids
<1> QED
  BY <1>1, <1>2, ShippingInitially DEF OutboxInv

\* The table: a row that has shown never hides again.
LEMMA TableKeepsShown ==
  ASSUME OutboxInv,
         \/ \E i \in Ids : BeginRecord(i) \/ EndRecord(i) \/ Ages(i)
         \/ \E t \in Tenants : DeleteTenant(t)
         \/ GcUsageEvents
         \/ UNCHANGED vars
  PROVE  HandledHasShown'
<1> USE DEF OutboxInv
<1>1. /\ UNCHANGED <<shipper, billed>>
      /\ \A i \in Ids : HasShown(i) => HasShown(i)'
  <2>1. rows \in [Ids -> {"free", "open", "visible", "gone"}]
    BY DEF ShippingInv, TypeOK, Log!LogTypeOK, Ids
  <2> QED
    BY <2>1 DEF BeginRecord, EndRecord, Ages, DeleteTenant, GcUsageEvents, vars, logVars,
                Log!Draw, Log!Commit, Log!Abort, Log!Erase, Ids, HasShown
<1> QED
  BY <1>1 DEF HandledHasShown, InHand, IsBilled, At

\* A tick takes into its hands what shows, and bills what it has in hand.
LEMMA TickKeepsShown ==
  ASSUME OutboxInv, NEW s \in Shippers, Tick(s) \/ TickFails(s)
  PROVE  HandledHasShown'
<1> USE DEF OutboxInv
<1>1. /\ UNCHANGED rows
      /\ \A t \in Shippers \ {s} : shipper'[t] = shipper[t]
      /\ shipper \in [Shippers -> {shipper[t] : t \in Shippers}]
  BY DEF ShippingInv, TypeOK, Tick, ReadCheckpoint, SelectBatch, Ship, AdvanceCheckpoint,
         TickFails, ShipFailed, Goes, logVars, Log!Advance
<1>2. ASSUME \A i \in Ids : IsBilled(i)' => IsBilled(i) \/ InHand(i),
             \A i \in Ids : (At(s, "ship") \/ At(s, "advance"))' /\ i \in shipper'[s].batch
                              => InHand(i) \/ HasShown(i)
      PROVE  HandledHasShown'
  BY <1>1, <1>2 DEF HandledHasShown, InHand, HasShown, At
<1>3. ASSUME UNCHANGED billed, shipper'[s].stage \in {"idle", "select"} PROVE HandledHasShown'
  BY <1>2, <1>3 DEF At, IsBilled
<1>4. \A x : Goes(s, x) => shipper'[s] = x
  BY <1>1 DEF Goes
<1>5. CASE ReadCheckpoint(s) \/ AdvanceCheckpoint(s) \/ TickFails(s)
  BY <1>3, <1>4, <1>5 DEF ReadCheckpoint, AdvanceCheckpoint, TickFails, Idle
<1>6. CASE SelectBatch(s)
  <2> DEFINE batch == Log!Batch(shipper[s].from, BatchSize)
  <2>1. CASE batch = {}
    BY <1>3, <1>4, <1>6, <2>1 DEF SelectBatch, Idle
  <2>2. CASE batch # {}
    <3>1. shipper'[s].batch = batch /\ UNCHANGED billed
      BY <1>4, <1>6, <2>2 DEF SelectBatch
    <3>2. \A i \in batch : HasShown(i)
      BY DEF Log!Batch, Log!Visible, HasShown
    <3> HIDE DEF batch
    <3> QED
      BY <1>2, <3>1, <3>2 DEF IsBilled
  <2> QED
    BY <2>1, <2>2
<1>7. CASE Ship(s)
  <2>1. At(s, "ship") /\ billed' \subseteq billed \union {<<i>> : i \in shipper[s].batch}
    BY <1>7 DEF Ship, Accepted, Key
  <2>2. \A i \in Ids : IsBilled(i)' => IsBilled(i) \/ InHand(i)
    BY <2>1 DEF IsBilled, InHand
  <2>3. shipper'[s].stage = "idle" \/ shipper'[s].batch = shipper[s].batch
    BY <1>4, <1>7, <2>1, BatchInHand DEF Ship, ShipFailed, Idle
  <2> QED
    BY <1>2, <2>1, <2>2, <2>3 DEF InHand, At
<1> QED
  BY <1>5, <1>6, <1>7 DEF Tick

LEMMA OutboxPreserved == OutboxInv /\ [Next]_vars => OutboxInv'
BY ShippingPreserved, TableKeepsShown, TickKeepsShown DEF OutboxInv, Next

\* Inserts show or end, and what is deleted or pruned is removed.
LEMMA TableImplements ==
  ASSUME OutboxInv,
         \/ \E i \in Ids : BeginRecord(i) \/ EndRecord(i) \/ Ages(i)
         \/ \E t \in Tenants : DeleteTenant(t)
         \/ GcUsageEvents
         \/ UNCHANGED vars
  PROVE  OutboxStep
<1> USE DEF OutboxInv, OutboxStep
<1>1. /\ UNCHANGED <<billed, checkpoint, overtaken>>
      /\ rows \in [Ids -> {"free", "open", "visible", "gone"}]
  BY DEF ShippingInv, TypeOK, Log!LogTypeOK, Ids, BeginRecord, EndRecord, Ages, DeleteTenant,
         GcUsageEvents, vars, logVars, Log!Draw, Log!Commit, Log!Abort, Log!Erase
<1>2. Log!Shown' = [i \in Ids |-> IF rows'[i] \in {"free", "open"} THEN "pending" ELSE rows'[i]]
  BY DEF Log!Shown, Ids
<1>3. ASSUME \A i \in Ids : rows'[i] \in {"free", "open"} <=> rows[i] \in {"free", "open"},
             \A i \in Ids : rows'[i] = rows[i] \/ rows[i] = "free"
      PROVE  UNCHANGED Log!Shown
  BY <1>1, <1>3 DEF Log!Shown, Ids
<1>4. ASSUME NEW i \in Ids, BeginRecord(i) PROVE UNCHANGED Log!Shown
  BY <1>1, <1>3, <1>4 DEF BeginRecord, Log!Draw
<1>5. ASSUME NEW i \in Ids, Log!Commit(i) PROVE Outbox!Show(i)
  <2>1. rows[i] = "open" /\ rows' = [rows EXCEPT ![i] = "visible"]
    BY <1>5 DEF Log!Commit
  <2>2. ~HasShown(i) /\ Log!Shown[i] = "pending"
    BY <2>1, ShownIs DEF HasShown
  <2>3. i <= checkpoint => i \in overtaken
    BY <2>1, <2>2 DEF HandledHasShown, ShippingInv, Covered
  <2>4. Log!Shown' = [Log!Shown EXCEPT ![i] = "visible"]
    BY <1>1, <1>2, <2>1 DEF Log!Shown, Ids
  <2> QED
    BY <1>1, <2>2, <2>3, <2>4 DEF Outbox!Show
<1>6. ASSUME NEW S \in SUBSET Ids, \A i \in Ids : rows'[i] = IF i \in S THEN "gone" ELSE rows[i]
      PROVE  Outbox!Remove(S)
  <2>1. Log!Shown' = [i \in Ids |-> IF i \in S THEN "gone" ELSE Log!Shown[i]]
    BY <1>2, <1>6, ShownIs
  <2> QED
    BY <1>1, <2>1, ShownIs DEF Outbox!Remove
<1>7. ASSUME NEW i \in Ids, Log!Abort(i) PROVE Outbox!Remove({i})
  BY <1>1, <1>6, <1>7 DEF Log!Abort
<1>8. ASSUME NEW S \in SUBSET Ids, Log!Erase(S) PROVE Outbox!Remove(S)
  BY <1>6, <1>8 DEF Log!Erase, Ids
<1>9. Log!Visible \in SUBSET Ids
  BY DEF Log!Visible, Ids
<1>10. ASSUME NEW t \in Tenants, DeleteTenant(t) PROVE \E S \in SUBSET Ids : Outbox!Remove(S)
  BY <1>8, <1>9, <1>10 DEF DeleteTenant
<1>11. ASSUME GcUsageEvents PROVE \E S \in SUBSET Ids : Outbox!Remove(S)
  BY <1>8, <1>9, <1>11 DEF GcUsageEvents, Prunable
<1>12. ASSUME UNCHANGED rows PROVE UNCHANGED Log!Shown
  BY <1>12 DEF Log!Shown
<1>13. CASE \E i \in Ids : Log!Commit(i) \/ Log!Abort(i)
  BY <1>5, <1>7, <1>13, ShownIs DEF Outbox!Next
<1>14. CASE (\E t \in Tenants : DeleteTenant(t)) \/ GcUsageEvents
  BY <1>10, <1>11, <1>14, ShownIs DEF Outbox!Next
<1>15. CASE (\E i \in Ids : BeginRecord(i) \/ Ages(i)) \/ UNCHANGED vars
  BY <1>1, <1>4, <1>12, <1>15 DEF Ages, vars, logVars
<1> QED
  BY <1>13, <1>14, <1>15 DEF EndRecord

\* A tick skips the open rows below its batch, copies the batch, and moves
\* the mark to its newest row when that is not behind the mark already.
LEMMA TickImplements ==
  ASSUME OutboxInv, NEW s \in Shippers, Tick(s) \/ TickFails(s)
  PROVE  OutboxStep
<1> USE DEF OutboxInv, OutboxStep
<1>1. UNCHANGED Log!Shown
  BY DEF Log!Shown, Tick, ReadCheckpoint, SelectBatch, Ship, AdvanceCheckpoint, TickFails,
         logVars, Log!Advance
<1>2. CASE ReadCheckpoint(s) \/ TickFails(s)
  BY <1>1, <1>2 DEF ReadCheckpoint, TickFails, logVars
<1>3. CASE SelectBatch(s)
  <2> DEFINE batch == Log!Batch(shipper[s].from, BatchSize)
             S == {i \in Ids : rows[i] = "open" /\ \E j \in batch : i < j}
  <2>1. UNCHANGED <<billed, checkpoint>> /\ (overtaken' = overtaken \union S \/ UNCHANGED overtaken)
    BY <1>3 DEF SelectBatch, logVars
  <2>2. ASSUME NEW i \in S
        PROVE  Log!Shown[i] = "pending" /\ \E j \in Ids : i < j /\ Log!Shown[j] = "visible"
    <3>1. PICK j \in batch : i < j
      BY <2>2
    <3>2. j \in Ids /\ rows[j] = "visible"
      BY DEF Log!Batch, Log!Visible, Ids
    <3> QED
      BY <2>2, <3>1, <3>2, ShownIs
  <2>3. S \in SUBSET Outbox!Ids
    BY ShownIs
  <2> HIDE DEF S
  <2>4. CASE overtaken' = overtaken \union S
    BY <1>1, <2>1, <2>2, <2>3, <2>4, ShownIs DEF Outbox!Skip, Outbox!Next
  <2>5. CASE UNCHANGED overtaken
    BY <1>1, <2>1, <2>5
  <2> QED
    BY <2>1, <2>4, <2>5
<1>4. CASE Ship(s)
  <2>1. UNCHANGED <<checkpoint, overtaken>> /\ At(s, "ship")
    BY <1>4 DEF Ship, logVars
  <2>2. PICK batch \in SUBSET Ids : batch = shipper[s].batch
    BY <2>1, BatchInHand
  <2>3. \A i \in batch : Log!Shown[i] # "pending"
    BY <2>1, <2>2, ShownIs DEF HandledHasShown, InHand, HasShown
  <2>4. billed' = billed \union {<<i>> : i \in batch} \/ UNCHANGED billed
    BY <1>4, <2>2 DEF Ship, Accepted, Key
  <2>5. ASSUME billed' = billed \union {<<i>> : i \in batch}
        PROVE  {key[1] : key \in billed'} = {key[1] : key \in billed} \union batch
    <3>1. ASSUME NEW i \in batch PROVE i \in {key[1] : key \in billed'}
      <4>1. <<i>> \in billed' /\ <<i>>[1] = i
        BY <2>5
      <4> QED
        BY <4>1
    <3>2. ASSUME NEW key \in billed', key \notin billed PROVE key[1] \in batch
      <4>1. PICK i \in batch : key = <<i>>
        BY <2>5, <3>2
      <4> QED
        BY <4>1
    <3>3. billed \subseteq billed'
      BY <2>5
    <3> QED
      BY <3>1, <3>2, <3>3
  <2>6. CASE billed' = billed \union {<<i>> : i \in batch}
    BY <1>1, <2>1, <2>3, <2>5, <2>6, ShownIs DEF Outbox!Copy, Outbox!Next
  <2>7. CASE UNCHANGED billed
    BY <1>1, <2>1, <2>7
  <2> QED
    BY <2>4, <2>6, <2>7
<1>5. CASE AdvanceCheckpoint(s)
  <2>1. At(s, "advance") /\ UNCHANGED <<billed, overtaken>>
    BY <1>5 DEF AdvanceCheckpoint
  <2>2. PICK batch \in (SUBSET Ids) \ {{}} : batch = shipper[s].batch
    BY <2>1, BatchInHand
  <2>3. PICK n \in batch : n = Log!Max(batch)
    BY MaxIsGreatest, MaxIdAssumption DEF Ids, Log!Ids
  <2>4. Covered(n, {})
    BY <2>1, <2>2 DEF ShippingInv, ShippersCover
  <2>5. checkpoint' = IF checkpoint < n THEN n ELSE checkpoint
    BY <1>5, <2>2, <2>3 DEF AdvanceCheckpoint, Log!Advance, Log!Advanced
  <2>6. ASSUME NEW i \in 1..n
        PROVE  Log!Shown[i] = "gone" \/ i \in {key[1] : key \in billed} \union overtaken
    <3>1. i \in Ids /\ i <= n
      BY MaxIdAssumption DEF Ids, Log!Ids
    <3>2. rows[i] \in {"open", "visible", "gone"}
      BY <2>4, <3>1 DEF Covered, ShippingInv, TypeOK, Log!LogTypeOK, Ids
    <3>3. rows[i] # "gone" => IsBilled(i) \/ i \in overtaken
      BY <2>4, <3>1, <3>2 DEF Covered
    <3> QED
      BY <3>1, <3>3, ShownIs DEF IsBilled
  <2>7. CASE checkpoint < n
    <3>1. Outbox!Advance(n)
      BY <1>1, <2>1, <2>5, <2>6, <2>7 DEF Outbox!Advance
    <3> QED
      BY <3>1, ShownIs DEF Outbox!Next
  <2>8. CASE ~(checkpoint < n)
    BY <1>1, <2>1, <2>5, <2>8
  <2> QED
    BY <2>7, <2>8
<1> QED
  BY <1>2, <1>3, <1>4, <1>5 DEF Tick

\* However many shippers copy the table at a time, and whatever fails, the
\* mark passes a row that is not billed only when it is gone, or when a later
\* row showed before it did.
THEOREM ShippingImplementsOutbox == Spec => ImplementsOutbox
<1>1. OutboxInv /\ [Next]_vars => OutboxStep
  BY TableImplements, TickImplements DEF Next
<1> QED
  BY <1>1, OutboxInitially, OutboxPreserved, PTL
  DEF Spec, ImplementsOutbox, Outbox!Spec, OutboxStep
=============================================================================
