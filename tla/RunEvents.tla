----------------------------- MODULE RunEvents -----------------------------
(***************************************************************************)
(* pkg/events: the run.* messages, carried by an instance of EventBus.     *)
(* The timestamps of run.started and run.completed come from the Job the   *)
(* reconciler observed, so what they tell apart is that Job's execution    *)
(* number.                                                                 *)
(***************************************************************************)
EXTENDS RunTypes

CONSTANT MaxDeliver   \* deliveries before a durable gives a message up

ASSUME MaxDeliverAssumption == MaxDeliver \in Nat \ {0}

VARIABLES stream, settled, tries

busVars == <<stream, settled, tries>>

RunRequested == [subject: {"run.requested"}, run: Runs]
RunStarted == [subject: {"run.started"}, run: Runs, exec: Execs]
RunCompleted ==
  [subject: {"run.completed"}, run: Runs, exec: Execs, status: Outcomes]
RunMsg == RunRequested \union RunStarted \union RunCompleted

Requested(r) == [subject |-> "run.requested", run |-> r]
Started(r, e) == [subject |-> "run.started", run |-> r, exec |-> e]
Completed(r, e, st) ==
  [subject |-> "run.completed", run |-> r, exec |-> e, status |-> st]

Bus == INSTANCE EventBus WITH Msg <- RunMsg
=============================================================================
