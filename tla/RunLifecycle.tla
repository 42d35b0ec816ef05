---------------------------- MODULE RunLifecycle ----------------------------
(***************************************************************************)
(* What the platform promises the owner of a run, without the bus, the     *)
(* cluster or the crashes: a submitted run may be seen running, its        *)
(* execution is given one verdict that never changes, and the run ends     *)
(* with that verdict and no other.  Deleting the agent discards its runs.  *)
(***************************************************************************)
CONSTANT Runs

VARIABLES status,    \* what GET /v1/runs/{id} answers
          verdict    \* what the execution was decided to be

Verdicts == {"succeeded", "failed"}

Init ==
  /\ status = [r \in Runs |-> "absent"]
  /\ verdict = [r \in Runs |-> "undecided"]

Submit(r) ==
  /\ status[r] = "absent"
  /\ status' = [status EXCEPT ![r] = "pending"]
  /\ UNCHANGED verdict

Begin(r) ==
  /\ status[r] = "pending"
  /\ status' = [status EXCEPT ![r] = "running"]
  /\ UNCHANGED verdict

Decide(r) ==
  /\ status[r] # "absent"
  /\ verdict[r] = "undecided"
  /\ \E v \in Verdicts : verdict' = [verdict EXCEPT ![r] = v]
  /\ UNCHANGED status

Finish(r) ==
  /\ status[r] \in {"pending", "running"}
  /\ verdict[r] \in Verdicts
  /\ status' = [status EXCEPT ![r] = verdict[r]]
  /\ UNCHANGED verdict

Discard(S) ==
  /\ \A r \in S : status[r] # "absent"
  /\ status' = [r \in Runs |-> IF r \in S THEN "deleted" ELSE status[r]]
  /\ UNCHANGED verdict

Next ==
  \/ \E r \in Runs : Submit(r) \/ Begin(r) \/ Decide(r) \/ Finish(r)
  \/ \E S \in SUBSET Runs : Discard(S)

Spec == Init /\ [][Next]_<<status, verdict>>
=============================================================================
