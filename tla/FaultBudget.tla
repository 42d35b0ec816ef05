---------------------------- MODULE FaultBudget ----------------------------
(***************************************************************************)
(* The faults a run of the model may inject.  A fault is an action of its  *)
(* own in the component it hits; it is enabled while its kind is in        *)
(* FaultKinds and the budget lasts.                                        *)
(*   "db"         a Postgres statement fails                               *)
(*   "meter"      a usage_events insert fails, which its caller ignores    *)
(*   "kube"       a Kubernetes write fails before it is applied            *)
(*   "kube_reply" a Kubernetes write is applied but its reply is lost      *)
(*   "publish"    js.Publish fails (stored or not)                         *)
(*   "api_crash"  an api process dies                                      *)
(*   "ctl_crash"  a controller process dies                                *)
(*   "ack_lost"   an ack does not reach the broker                         *)
(*   "slow"       a handler outlives AckWait and its message is redelivered*)
(*   "leader"     leadership moves while the old leader still runs         *)
(*   "outage"     no controller runs for longer than the janitor's job TTL *)
(*   "builder_crash", "ship_crash", "janitor_crash", "sched_crash"         *)
(*                a builder, shipper, janitor or trigger scheduler dies    *)
(*   "orb"        an Orb request fails (applied or not)                    *)
(*   "s3"         an upload fails (stored or not)                          *)
(*   "webhook"    an answer to WorkOS is lost                              *)
(*   "audit"      an audit insert fails, which its caller ignores          *)
(*   "rollout"    a Deployment's status moves, and its resourceVersion: no *)
(*                failure, but as unforeseen and bounded like one          *)
(***************************************************************************)
EXTENDS Integers

CONSTANTS FaultKinds,   \* the kinds an instance injects
          MaxFaults     \* bound: faults in a behaviour

ASSUME FaultsAssumption == MaxFaults \in Nat

VARIABLE faults

FaultInit == faults = 0

FaultTypeOK == faults \in 0..MaxFaults

Fault(k) ==
  /\ k \in FaultKinds
  /\ faults < MaxFaults
  /\ faults' = faults + 1
=============================================================================
