------------------------------ MODULE Registry ------------------------------
(***************************************************************************)
(* A tenant, its agent, the agent's cron triggers and its audit log, with  *)
(* the processes that follow those tables: the api's webhook handler, the  *)
(* triggers service and the janitor's audit export.  They share nothing    *)
(* but the database, where deleting the tenant cascades to everything.     *)
(***************************************************************************)
EXTENDS Tenants, AuditExport, CronScheduler

VARIABLE entry   \* the audit row each webhook handler is inserting

vars == <<tenantVars, auditVars, cronVars, entry, faults>>

TypeOK ==
  /\ FaultTypeOK /\ TenantsTypeOK /\ AuditTypeOK /\ CronTypeOK
  /\ entry \in [Events -> 0..MaxId]

Init ==
  /\ FaultInit /\ TenantsInit /\ AuditInit /\ CronInit
  /\ entry = [e \in Events |-> 0]

-----------------------------------------------------------------------------
(* The webhook handler.                                                    *)

OrganizationChanges ==
  /\ Happen
  /\ UNCHANGED <<auditVars, cronVars, entry, faults>>

\* tenants.Repo.Delete cascades to agents, triggers and audit rows, exported
\* or not.
Cascade ==
  /\ AgentGoes
  /\ AuditLog!Erase(AuditLog!Visible)
  /\ UNCHANGED <<exportVars, schedulerVars>>

HandleEvent(e) ==
  /\ ApplyEvent(e)
  /\ IF Deletes(e) THEN Cascade ELSE UNCHANGED <<auditVars, cronVars>>
  /\ UNCHANGED <<entry, faults>>

\* audit.Log begins its insert.
BeginLog(e) ==
  /\ webhooks[e] = "applied"
  /\ \E i \in Ids : AuditLog!Draw(i) /\ entry' = [entry EXCEPT ![e] = i]
  /\ webhooks' = [webhooks EXCEPT ![e] = "logging"]
  /\ UNCHANGED <<happened, tenant, disordered, exportVars, cronVars, faults>>

\* The foreign key refuses the row of a tenant that is gone, so that of its
\* own deletion; the error is dropped.
EndLog(e) ==
  /\ webhooks[e] = "logging"
  /\ IF tenant # NoTenant THEN AuditLog!Commit(entry[e])
     ELSE AuditLog!Abort(entry[e])
  /\ entry' = [entry EXCEPT ![e] = 0]
  /\ AnswerEvent(e)
  /\ UNCHANGED <<exportVars, cronVars>>

\* The insert fails for another reason, which the handler does not notice.
LogFails(e) ==
  /\ webhooks[e] = "logging"
  /\ Fault("audit")
  /\ AuditLog!Abort(entry[e])
  /\ entry' = [entry EXCEPT ![e] = 0]
  /\ webhooks' = [webhooks EXCEPT ![e] = "answered"]
  /\ UNCHANGED <<happened, tenant, disordered, exportVars, cronVars>>

WebhookHandler(e) == HandleEvent(e) \/ BeginLog(e) \/ EndLog(e)

-----------------------------------------------------------------------------
(* Users of the tenant, the triggers service and the janitor.              *)

UserStep ==
  /\ \/ tenant # NoTenant /\ CreateAgent
     \/ DeleteAgent
     \/ \E c \in Crons : CreateTrigger(c)
  /\ UNCHANGED <<tenantVars, auditVars, entry, faults>>

RefreshStep ==
  /\ Refresh
  /\ UNCHANGED <<tenantVars, auditVars, entry, faults>>

FireStep(c) ==
  /\ EntryIsDue(c) \/ Fire(c)
  /\ UNCHANGED <<tenantVars, auditVars, entry, faults>>

SchedulerFails ==
  /\ SchedulerRestarts
  /\ UNCHANGED <<tenantVars, auditVars, entry>>

ExportStep ==
  /\ \/ (IntervalPasses \/ StartExport \/ AdvanceCheckpoint)
        /\ UNCHANGED faults
     \/ PutObject
  /\ UNCHANGED <<tenantVars, cronVars, entry>>

ExportFails ==
  /\ JanitorRestarts
  /\ UNCHANGED <<tenantVars, cronVars, entry>>

Next ==
  \/ OrganizationChanges
  \/ \E e \in Events : WebhookHandler(e) \/ LogFails(e)
  \/ UserStep
  \/ RefreshStep \/ SchedulerFails \/ \E c \in Crons : FireStep(c)
  \/ ExportStep \/ ExportFails

\* WorkOS repeats what is not answered, handlers end, the scheduler refreshes
\* and the janitor ticks.  Nothing need happen to the organization, users
\* need not act, and entries need not fire.
Fairness ==
  /\ \A e \in Events : WF_vars(WebhookHandler(e))
  /\ WF_vars(RefreshStep) /\ WF_vars(ExportStep)

Spec == Init /\ [][Next]_vars /\ Fairness

-----------------------------------------------------------------------------
(* Properties.                                                             *)

\* The tenants table ends as the organization does at WorkOS, however often
\* and however concurrently its events are sent, as long as none was applied
\* after a later one.
TenantFollowsWorkOS == <>[](~disordered => tenant = Expected)

\* The audit log, the bucket and the checkpoint implement Outbox, whatever is
\* uploaded twice, erased in the middle of a pass or begun again.
Outbox == INSTANCE Outbox WITH
  state <- AuditLog!Shown, copied <- exported,
  mark <- checkpoint, skipped <- overtaken
ImplementsOutbox == Outbox!Spec

\* What Outbox says of a state: no audit row is skipped, what the checkpoint
\* has passed is in the bucket, but for a row that committed after one with a
\* higher id was read.
PassedIsExported ==
  \A i \in AuditLog!Visible :
    i <= checkpoint => i \in exported \/ i \in overtaken

\* Every audit row reaches the bucket in the end, through failed uploads and
\* restarts, unless the tenant is deleted first.
AuditIsExported == <>[](AuditLog!Visible \subseteq exported \union overtaken)

\* The scheduler ends with an entry for each cron row whose expression
\* parses and no other, whatever it read while rows came and went.
SchedulerFollowsTable == <>[](registered = triggers \intersect Valid)

\* A run is inserted only for a trigger that still has its row, although an
\* entry outlives the row until the next refresh and fires from a copy.
RunsAreTriggered ==
  [][\A c \in Crons :
       firing'[c] = "publish" /\ firing[c] # "publish" => c \in triggers]_vars
=============================================================================
