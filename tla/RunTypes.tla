------------------------------ MODULE RunTypes ------------------------------
(***************************************************************************)
(* What the parts of the run pipeline have in common: which runs there     *)
(* are, how many times the model may execute one, and the two verdicts a   *)
(* Job can end with (pkg/events/events.go; timed_out and cancelled exist   *)
(* in the schema, but no code path produces them).                         *)
(***************************************************************************)
EXTENDS Integers

CONSTANTS Runs,      \* run ids
          MaxExecs   \* bound: Jobs created per run

ASSUME ExecsAssumption == MaxExecs \in Nat \ {0}

Execs == 1..MaxExecs
Outcomes == {"succeeded", "failed"}
=============================================================================
