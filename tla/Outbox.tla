------------------------------- MODULE Outbox -------------------------------
(***************************************************************************)
(* What is promised of a table that is copied to a destination outside:    *)
(* its rows show in any order and may be removed, only rows that have      *)
(* shown are copied, and the mark, which only moves forward, passes a row  *)
(* that is not copied when it is gone, or when it was skipped: given up    *)
(* before it showed, because a later row showed.  Nothing behind the mark  *)
(* is ever looked at again, so a row that shows there was skipped.         *)
(***************************************************************************)
EXTENDS Integers

CONSTANT MaxId

VARIABLES state,    \* of each id: "pending", "visible" or "gone"
          copied,   \* ids the destination has
          mark,     \* how far the table is copied
          skipped   \* ids given up while they were pending

Ids == 1..MaxId

Init ==
  /\ state = [i \in Ids |-> "pending"]
  /\ copied = {} /\ skipped = {}
  /\ mark = 0

Show(i) ==
  /\ state[i] = "pending"
  /\ i <= mark => i \in skipped
  /\ state' = [state EXCEPT ![i] = "visible"]
  /\ UNCHANGED <<copied, mark, skipped>>

Remove(S) ==
  /\ state' = [i \in Ids |-> IF i \in S THEN "gone" ELSE state[i]]
  /\ UNCHANGED <<copied, mark, skipped>>

Skip(S) ==
  /\ \A i \in S : state[i] = "pending" /\ \E j \in Ids : i < j /\ state[j] = "visible"
  /\ skipped' = skipped \union S
  /\ UNCHANGED <<state, copied, mark>>

Copy(S) ==
  /\ \A i \in S : state[i] # "pending"
  /\ copied' = copied \union S
  /\ UNCHANGED <<state, mark, skipped>>

Advance(n) ==
  /\ mark < n
  /\ \A i \in 1..n : state[i] = "gone" \/ i \in copied \union skipped
  /\ mark' = n
  /\ UNCHANGED <<state, copied, skipped>>

Next ==
  \/ \E i \in Ids : Show(i) \/ Advance(i)
  \/ \E S \in SUBSET Ids : Remove(S) \/ Skip(S) \/ Copy(S)

Spec == Init /\ [][Next]_<<state, copied, mark, skipped>>
=============================================================================
