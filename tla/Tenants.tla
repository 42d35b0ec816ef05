------------------------------ MODULE Tenants ------------------------------
(***************************************************************************)
(* internal/tenants: the row of one tenant, kept in step with an           *)
(* organization of WorkOS by the webhook.  WorkOS sends every event until  *)
(* it is answered 204, so events may be handled twice, at the same time,   *)
(* or after one that happened later; nothing in the payload the handler    *)
(* reads orders them.                                                      *)
(*                                                                         *)
(* What the row says (slug and name) is identified by the event that wrote *)
(* it.                                                                     *)
(***************************************************************************)
EXTENDS Integers, Sequences, FaultBudget

CONSTANT History   \* what happens to the organization at WorkOS, in order

ASSUME HistoryAssumption ==
  History \in Seq({"created", "updated", "deleted"})

VARIABLES happened,    \* how much of History has happened
          webhooks,    \* what the delivery of each event has come to
          tenant,      \* the event that wrote the row, NoTenant without a row
          disordered   \* ghost: an event was applied after a later one

tenantVars == <<happened, webhooks, tenant, disordered>>

Events == DOMAIN History
NoTenant == 0

TenantsTypeOK ==
  /\ happened \in 0..Len(History)
  /\ webhooks \in [Events -> {"due", "applied", "logging", "answered"}]
  /\ tenant \in Events \union {NoTenant}
  /\ disordered \in BOOLEAN

TenantsInit ==
  /\ happened = 0
  /\ webhooks = [e \in Events |-> "due"]
  /\ tenant = NoTenant
  /\ disordered = FALSE

\* The organization is created, renamed or deleted at WorkOS.
Happen ==
  /\ happened < Len(History)
  /\ happened' = happened + 1
  /\ UNCHANGED <<webhooks, tenant, disordered>>

\* Mutant: ON CONFLICT (id) DO NOTHING.
WrittenOnce(e) == IF tenant = NoTenant THEN e ELSE tenant

\* Repo.Upsert.
Written(e) == e

\* The row after the event: Upsert for created and updated, Delete, which
\* may find nothing, for deleted.
RowAfter(e) == IF History[e] = "deleted" THEN NoTenant ELSE Written(e)

Deletes(e) == History[e] = "deleted"

\* The handler up to the statement.
ApplyEvent(e) ==
  /\ e <= happened
  /\ webhooks[e] = "due"
  /\ webhooks' = [webhooks EXCEPT ![e] = "applied"]
  /\ tenant' = RowAfter(e)
  /\ disordered' = (disordered \/ \E f \in Events : f > e /\ webhooks[f] # "due")
  /\ UNCHANGED happened

\* 204; an answer that is lost makes WorkOS send the event again.
AnswerEvent(e) ==
  /\ \/ webhooks' = [webhooks EXCEPT ![e] = "answered"] /\ UNCHANGED faults
     \/ webhooks' = [webhooks EXCEPT ![e] = "due"] /\ Fault("webhook")
  /\ UNCHANGED <<happened, tenant, disordered>>

\* What the table should say of the organization.
Expected ==
  IF happened = 0 \/ History[happened] = "deleted" THEN NoTenant ELSE happened
=============================================================================
