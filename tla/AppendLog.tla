----------------------------- MODULE AppendLog -----------------------------
(***************************************************************************)
(* An append-only table with a BIGSERIAL id and the checkpoint of the one  *)
(* destination it is copied to: usage_events with usage_shipper_state, and *)
(* audit_events with audit_export_state.  Both are read by the same        *)
(* statements (internal/billing/shipper.go, internal/audit/export.go).     *)
(*                                                                         *)
(* An insert draws its id from the sequence before it commits, so ids may  *)
(* become visible out of their order.                                      *)
(***************************************************************************)
EXTENDS Integers, FiniteSetsExt

CONSTANT MaxId   \* bound: ids the sequence hands out

VARIABLES rows,        \* "free", "open" (not committed), "visible" or "gone"
          checkpoint   \* last_event_id

Ids == 1..MaxId

LogInit ==
  /\ rows = [i \in Ids |-> "free"]
  /\ checkpoint = 0

LogTypeOK ==
  /\ rows \in [Ids -> {"free", "open", "visible", "gone"}]
  /\ checkpoint \in 0..MaxId

\* nextval: ids are handed out in their order.
Draw(i) ==
  /\ rows[i] = "free"
  /\ \A j \in 1..(i - 1) : rows[j] # "free"
  /\ rows' = [rows EXCEPT ![i] = "open"]
  /\ UNCHANGED checkpoint

Commit(i) ==
  /\ rows[i] = "open"
  /\ rows' = [rows EXCEPT ![i] = "visible"]
  /\ UNCHANGED checkpoint

\* The insert fails, or meets a row with its key: the id is used up.
Abort(i) ==
  /\ rows[i] = "open"
  /\ rows' = [rows EXCEPT ![i] = "gone"]
  /\ UNCHANGED checkpoint

\* DELETE.
Erase(ids) ==
  /\ rows' = [i \in Ids |-> IF i \in ids THEN "gone" ELSE rows[i]]
  /\ UNCHANGED checkpoint

Visible == {i \in Ids : rows[i] = "visible"}

\* Mutant: ORDER BY id DESC.
BatchNewest(from, limit) ==
  LET unread == {i \in Visible : i > from}
  IN {i \in unread : Cardinality({j \in unread : j > i}) < limit}

\* Mutant: one row too many.
BatchAndOne(from, limit) ==
  LET unread == {i \in Visible : i > from}
  IN {i \in unread : Cardinality({j \in unread : j < i}) <= limit}

\* SELECT ... WHERE id > from ORDER BY id LIMIT limit.
Batch(from, limit) ==
  LET unread == {i \in Visible : i > from}
  IN {i \in unread : Cardinality({j \in unread : j < i}) < limit}

\* Mutant: the condition last_event_id < $2 dropped.
AdvancedTo(newest) == newest

\* UPDATE ... SET last_event_id = newest WHERE last_event_id < newest.
Advanced(newest) == IF checkpoint < newest THEN newest ELSE checkpoint

Advance(batch) ==
  /\ checkpoint' = Advanced(Max(batch))
  /\ UNCHANGED rows

\* The rows as a reader sees them, for the refinements of Outbox.
Shown == [i \in Ids |-> IF rows[i] \in {"free", "open"} THEN "pending" ELSE rows[i]]
=============================================================================
