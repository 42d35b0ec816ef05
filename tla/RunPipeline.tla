---------------------------- MODULE RunPipeline ----------------------------
(***************************************************************************)
(* The run pipeline: the api and its triggers, the bus, the controller,    *)
(* the cluster, the status consumers and the janitor's collectors, each of *)
(* them from its own module, interleaved step by step.                     *)
(***************************************************************************)
EXTENDS RunApi, RunController, RunStatusConsumer

vars == <<storeVars, busVars, clusterVars, apiVars, ctlVars, statusVars, faults>>

Init ==
  /\ StoreInit /\ Bus!BusInit /\ ClusterInit
  /\ ApiInit /\ ControllerInit /\ StatusInit
  /\ FaultInit

Api == ApiNext /\ UNCHANGED <<ctlVars, statusVars>>

Controller == ControllerNext /\ UNCHANGED <<storeVars, apiVars, statusVars>>

StatusConsumers == StatusNext /\ UNCHANGED <<clusterVars, apiVars, ctlVars>>

\* The Job controller and the kubelet.
Kubernetes ==
  /\ \E r \in Runs : JobStart(r) \/ \E st \in Outcomes : JobFinish(r, st)
  /\ UNCHANGED <<storeVars, busVars, apiVars, ctlVars, statusVars, faults>>

\* janitor.gcOrphanSecrets, against the runs table.
JanitorSecrets ==
  /\ \E r \in Runs : GcSecret(r, RowExists(r))
  /\ UNCHANGED <<storeVars, busVars, apiVars, ctlVars, statusVars, faults>>

Next == Api \/ Controller \/ StatusConsumers \/ Kubernetes \/ JanitorSecrets

Spec == Init /\ [][Next]_vars

-----------------------------------------------------------------------------
TypeOK ==
  /\ StoreTypeOK /\ Bus!BusTypeOK /\ ClusterTypeOK
  /\ ApiTypeOK /\ ControllerTypeOK /\ StatusTypeOK
  /\ FaultTypeOK

\* The run as its owner sees it implements RunLifecycle: started and
\* completed events may be lost, repeated, late or swapped, and controllers
\* may disagree, yet a row only ever moves forward and ends with the verdict
\* recorded in the AgentRun (MarkStarted's and MarkCompleted's WHERE
\* clauses, the sticky phases of Reconcile, the resourceVersion check).
Verdict(r) == IF cr[r].phase \in Outcomes THEN cr[r].phase ELSE "undecided"

Lifecycle == INSTANCE RunLifecycle WITH
  status <- [r \in Runs |-> rows[r].status],
  verdict <- [r \in Runs |-> Verdict(r)]

ImplementsLifecycle == Lifecycle!Spec

\* A run.completed event is about an execution that really ended that way,
\* agrees with the AgentRun, and is the only one of its run, whichever
\* replicas reconciled it and however stale their caches were.
CompletionsAreTrue ==
  \A m \in stream \intersect RunCompleted :
    /\ [run |-> m.run, exec |-> m.exec, status |-> m.status] \in ended
    /\ cr[m.run].phase = m.status
    /\ \A n \in stream \intersect RunCompleted : n.run = m.run => n = m

\* Each publication of a run.completed is the first and only one of its run: a
\* replica at its publish finds none in the stream and no other replica at
\* one, whichever of them lost the lease, restarted or reads stale caches.  A
\* second one, even the same again, would be a second message on the bus.
CompletionsPublishedOnce ==
  \A c \in Controllers :
    ctl[c].pc = "publish" /\ ctl[c].phase \in Outcomes =>
      /\ \A m \in stream \intersect RunCompleted : m.run # ctl[c].run
      /\ \A d \in Controllers \ {c} :
           ctl[d].pc = "publish" /\ ctl[d].run = ctl[c].run
             => ctl[d].phase \notin Outcomes

\* At-least-once: a message is settled only when its effect is in place.  An
\* acked run.requested has its AgentRun, an acked run.started or
\* run.completed has been applied to its row (or the row is gone).
SettledIsApplied ==
  \A m \in settled :
    CASE m.subject = "run.requested" -> cr[m.run].phase # "absent"
      [] m.subject = "run.started" -> rows[m.run].status \notin {"absent", "pending"}
      [] OTHER -> rows[m.run].status \in {m.status, "deleted"}

\* Redelivered and concurrent handlers meter a run at most once per kind,
\* and its end and its seconds only when the row says it is over.
MeteredOnce ==
  \A r \in Runs :
    /\ \A k \in Kinds : usage[r][k] <= 1
    /\ usage[r]["run.end"] + usage[r]["run.seconds"] > 0
         => rows[r].status \in Outcomes \union {"deleted"}

\* A message of a run is acknowledged only when all it meters is in place: an
\* acked run.started has its run.start, an acked run.completed its run.end and
\* run.seconds, through redeliveries, concurrent handlers and handlers that
\* died between two inserts (or the row is gone).  The handler drops the
\* error of an insert (status_consumer.go:60-62, 93-98), so this is so only
\* where "meter" is not a fault.
Meters(m) ==
  IF m.subject = "run.started" THEN {"run.start"} ELSE {"run.end", "run.seconds"}

SettledIsMetered ==
  \A m \in settled \ RunRequested :
    RowExists(m.run) => \A k \in Meters(m) : usage[m.run][k] = 1

\* A broadcast never runs ahead of the table: an SSE client told of a
\* transition finds it when it reads the run.
AnnouncedIsDurable ==
  \A m \in announced :
    /\ rows[m.run].status \notin {"absent", "pending"}
    /\ m.subject = "run.completed" => rows[m.run].status \in {m.status, "deleted"}

\* While the row of a manually triggered run exists and its AgentRun has been
\* created, the Secret that the Job mounts exists: it is projected before the
\* request is published, and the janitor collects it only after the row.
SecretOutlivesRow ==
  \A r \in Runs :
    SourceOf[r] = "manual" /\ cr[r].phase # "absent" /\ RowExists(r)
      => r \in secrets

\* The started_at a run's owner and its bill are shown is the start time its
\* AgentRun holds, whichever run.started was applied first: the reconciler
\* never moves a start time it has written, not even for a second execution.
StartTimesAgree ==
  \A r \in Runs : rows[r].started_at \in {0, cr[r].started}

\* A run executes at most once: stale caches, redelivered requests, leader
\* changes and crashes never make a second Job (as long as no outage of
\* every controller outlasts the janitor's TTL).
ExecutesOnce == \A r \in Runs : job[r].exec <= 1

\* controller.go:50-51: once the phase is terminal, "run.completed has
\* already been published" (or its publisher is at it).
TerminalIsPublished ==
  \A r \in Runs : cr[r].phase \in Outcomes =>
    \/ \E m \in stream \intersect RunCompleted : m.run = r
    \/ \E c \in Controllers : ctl[c].pc = "publish" /\ ctl[c].run = r

-----------------------------------------------------------------------------
\* What the runtime keeps running: the bus redelivers, handlers return
\* (their context expires after 30 s), reconciles are requeued, informers
\* catch up, a dead process is restarted, the lease is taken over, and the
\* cluster runs a Job to its end.  Requests, deletions, faults and the
\* janitor are never forced.
Fairness ==
  /\ \A c \in Controllers :
       /\ WF_vars(Controller /\ DispatchWork(c))
       /\ WF_vars(Controller /\ ReconcileWork(c))
       /\ WF_vars(Controller /\ InformerWork(c))
       /\ WF_vars(Controller /\ ControllerRestart(c))
       /\ WF_vars(Controller /\ ~Up(leader) /\ Elect(c))
  /\ \A w \in Workers : WF_vars(StatusConsumers /\ HandlerWork(w))
  /\ WF_vars(Kubernetes)

FairSpec == Spec /\ Fairness

\* Every run the api accepted ends, with its end and its seconds metered
\* (or its agent is deleted).
AcceptedRunsEnd ==
  \A r \in Runs :
    stage[r] = "accepted" ~>
      \/ rows[r].status = "deleted"
      \/ /\ rows[r].status \in Outcomes
         /\ usage[r]["run.end"] = 1 /\ usage[r]["run.seconds"] = 1
=============================================================================
