--------------------------- MODULE RunController ---------------------------
(***************************************************************************)
(* cmd/controller: the dispatch consumer (run.requested -> AgentRun) and   *)
(* the AgentRun reconciler (AgentRun -> Job -> run.started/run.completed). *)
(*                                                                         *)
(* Several replicas run behind leader election.  A replica reconciles one  *)
(* AgentRun at a time, from its informer caches, which lag behind the api  *)
(* server; a replica that lost the lease may still be in the middle of a   *)
(* reconcile.  Status writes carry the resourceVersion that was read.      *)
(***************************************************************************)
EXTENDS RunEvents, RunCluster, FaultBudget

CONSTANT Controllers   \* controller replicas

VARIABLES leader,   \* the replica that holds the lease
          ctl,      \* what each replica's reconcile worker is doing
          cache,    \* each replica's informer copy of AgentRun and Job
          disp      \* requests a replica has handled and not yet acked

ctlVars == <<leader, ctl, cache, disp>>

\* A reconcile in flight: the phase it means to write (of execution exec),
\* on the resourceVersion it read.
Task == [pc: {"create", "pending", "status", "publish"}, run: Runs,
         phase: Phases, exec: 0..MaxExecs, ver: Nat]
Idle == [pc |-> "idle"]
Down == [pc |-> "down"]
Up(c) == ctl[c].pc # "down"
Busy(c) == ctl[c].pc \notin {"idle", "down"}

Copy == [phase: Phases, ver: Nat, state: JobStates, exec: 0..MaxExecs]
Listed(r) == [phase |-> cr[r].phase, ver |-> cr[r].ver,
              state |-> job[r].state, exec |-> job[r].exec]
NothingCached ==
  [r \in Runs |-> [phase |-> "absent", ver |-> 0, state |-> "absent", exec |-> 0]]

ControllerInit ==
  /\ leader \in Controllers
  /\ ctl = [c \in Controllers |-> Idle]
  /\ cache = [c \in Controllers |-> NothingCached]
  /\ disp = [c \in Controllers |-> {}]

ControllerTypeOK ==
  /\ leader \in Controllers
  /\ ctl \in [Controllers -> Task \union {Idle, Down}]
  /\ cache \in [Controllers -> [Runs -> Copy]]
  /\ disp \in [Controllers -> SUBSET RunRequested]

SetCtl(c, task) == ctl' = [ctl EXCEPT ![c] = task]

-----------------------------------------------------------------------------
(* dispatch_consumer.go *)

\* handle: the namespace and quota upserts are idempotent and change nothing
\* a run depends on later; Create tolerates AlreadyExists.  A replica that has
\* lost the lease consumes on until its process ends: what it dispatches is as
\* good as what the leader dispatches, which takes its messages over here.
Dispatch(c, m) ==
  /\ Up(c) /\ leader = c /\ disp[c] = {}
  /\ Bus!Deliver(m)
  /\ cr' = [cr EXCEPT ![m.run] = CrCreated(@)]
  /\ disp' = [disp EXCEPT ![c] = {m}]
  /\ UNCHANGED <<job, secrets, ended, leader, ctl, cache, faults>>

\* Mutant: the error is logged and the message acknowledged.
DispatchFailsAcked(c, m) ==
  /\ Up(c) /\ leader = c /\ disp[c] = {}
  /\ Fault("kube")
  /\ Bus!Deliverable(m)
  /\ Bus!Ack(m)
  /\ UNCHANGED <<clusterVars, ctlVars>>

\* An error before Create or from it, applied or not: Nak.
DispatchFails(c, m) ==
  /\ Up(c) /\ leader = c /\ disp[c] = {}
  /\ \/ Fault("kube") /\ UNCHANGED cr
     \/ Fault("kube_reply") /\ cr' = [cr EXCEPT ![m.run] = CrCreated(@)]
  /\ Bus!Deliver(m)
  /\ UNCHANGED <<job, secrets, ended, ctlVars>>

DispatchAck(c, m) ==
  /\ m \in disp[c]
  /\ disp' = [disp EXCEPT ![c] = {}]
  /\ \/ Bus!Ack(m) /\ UNCHANGED faults
     \/ Bus!Nak /\ Fault("ack_lost")
  /\ UNCHANGED <<clusterVars, leader, ctl, cache>>

-----------------------------------------------------------------------------
(* controller.go *)

\* The phase the Job's counters stand for; a Job without a pod yet leaves
\* the phase alone.
PhaseOf(state, phase) ==
  CASE state \in Outcomes -> state
    [] state = "active" -> "running"
    [] OTHER -> phase

\* Reconcile up to its first write.  Everything is read from the caches:
\* the AgentRun (NotFound and terminal phases return early), then the Job.
\* A reconcile that would rewrite the same phase changes nothing: the api
\* server does not bump the version of an unchanged object, and
\* publishOnTransition is silent.
Reconcile(c, r) ==
  LET seen == cache[c][r]
      phase == PhaseOf(seen.state, seen.phase)
  IN /\ ctl[c] = Idle /\ leader = c
     /\ seen.phase \in LivePhases
     /\ \/ /\ seen.state = "absent"
           /\ SetCtl(c, [pc |-> "create", run |-> r, phase |-> "pending",
                         exec |-> seen.exec, ver |-> seen.ver])
        \/ /\ seen.state # "absent" /\ phase # seen.phase
           /\ SetCtl(c, [pc |-> "status", run |-> r, phase |-> phase,
                         exec |-> seen.exec, ver |-> seen.ver])
     /\ UNCHANGED <<busVars, clusterVars, leader, cache, disp, faults>>

\* Mutant: a generated Job name, which never exists already.
NewJobUnnamed(r) ==
  /\ job[r].exec < MaxExecs
  /\ job' = [job EXCEPT ![r] = [state |-> "new", exec |-> @.exec + 1]]

NewJob(r) ==
  /\ job[r].state = "absent"
  /\ job[r].exec < MaxExecs
  /\ job' = [job EXCEPT ![r] = [state |-> "new", exec |-> @.exec + 1]]

\* Create(Job): an existing Job is an error, and the reconcile is requeued.
CreateJob(c) ==
  /\ ctl[c].pc = "create"
  /\ \/ /\ NewJob(ctl[c].run)
        /\ SetCtl(c, [ctl[c] EXCEPT !.pc = "pending"])
     \/ /\ job[ctl[c].run].state # "absent"
        /\ SetCtl(c, Idle)
        /\ UNCHANGED job
  /\ UNCHANGED <<busVars, cr, secrets, ended, leader, cache, disp, faults>>

\* The Job is created but the reply is lost: requeued as an error.
CreateJobReplyLost(c) ==
  /\ ctl[c].pc = "create"
  /\ Fault("kube_reply")
  /\ NewJob(ctl[c].run)
  /\ SetCtl(c, Idle)
  /\ UNCHANGED <<busVars, cr, secrets, ended, leader, cache, disp>>

\* Mutant: a status patch without resourceVersion.
CurrentUnchecked(task) == cr[task.run].phase # "absent"

\* The api server accepts a status write only on the version it holds.
Current(task) == cr[task.run].ver = task.ver

\* Mutant: the nil check on StartedAt dropped.
StartOfLatest(task) ==
  IF task.pc = "status" THEN task.exec ELSE cr[task.run].started

\* Only a Job that has run stamps StartedAt, and only once.
StartOf(task) ==
  IF task.pc = "status" /\ cr[task.run].started = 0
    THEN task.exec
    ELSE cr[task.run].started

StatusWritten(task) ==
  cr' = [cr EXCEPT ![task.run] =
           IF @.phase = task.phase THEN @ ELSE CrWritten(@, task.phase, StartOf(task))]

\* Status().Update after Create(Job): nothing is published.
WritePending(c) ==
  /\ ctl[c].pc = "pending"
  /\ IF Current(ctl[c]) THEN StatusWritten(ctl[c]) ELSE UNCHANGED cr
  /\ SetCtl(c, Idle)
  /\ UNCHANGED <<busVars, job, secrets, ended, leader, cache, disp, faults>>

\* run.started carries the StartedAt just written, run.completed the end of
\* the Job that was read.
ToPublish(task) ==
  [task EXCEPT !.pc = "publish",
               !.exec = IF task.phase = "running" THEN StartOf(task) ELSE @]

\* Mutant: the error of the status write is logged and the event is published.
WriteStatusGoesOn(c) ==
  /\ ctl[c].pc = "status"
  /\ IF Current(ctl[c]) THEN StatusWritten(ctl[c]) ELSE UNCHANGED cr
  /\ SetCtl(c, ToPublish(ctl[c]))
  /\ UNCHANGED <<busVars, job, secrets, ended, leader, cache, disp, faults>>

\* Status().Update after reading the Job; a conflict is requeued.
WriteStatus(c) ==
  /\ ctl[c].pc = "status"
  /\ IF Current(ctl[c])
       THEN /\ StatusWritten(ctl[c])
            /\ SetCtl(c, ToPublish(ctl[c]))
       ELSE /\ SetCtl(c, Idle)
            /\ UNCHANGED cr
  /\ UNCHANGED <<busVars, job, secrets, ended, leader, cache, disp, faults>>

\* The write is applied but Reconcile sees an error and returns before
\* publishOnTransition.
WriteStatusReplyLost(c) ==
  /\ ctl[c].pc = "status"
  /\ Current(ctl[c])
  /\ Fault("kube_reply")
  /\ StatusWritten(ctl[c])
  /\ SetCtl(c, Idle)
  /\ UNCHANGED <<busVars, job, secrets, ended, leader, cache, disp>>

\* A write that fails outright.
KubeWriteFails(c) ==
  /\ ctl[c].pc \in {"create", "pending", "status"}
  /\ Fault("kube")
  /\ SetCtl(c, Idle)
  /\ UNCHANGED <<busVars, clusterVars, leader, cache, disp>>

\* publishOnTransition: the event of the phase just written.
Transition(task) ==
  IF task.phase = "running"
    THEN Started(task.run, task.exec)
    ELSE Completed(task.run, task.exec, task.phase)

PublishTransition(c) ==
  /\ ctl[c].pc = "publish"
  /\ Bus!Publish(Transition(ctl[c]))
  /\ SetCtl(c, Idle)
  /\ UNCHANGED <<clusterVars, leader, cache, disp, faults>>

\* The publish error is logged and Reconcile returns nil.
PublishTransitionFails(c) ==
  /\ ctl[c].pc = "publish"
  /\ Fault("publish")
  /\ SetCtl(c, Idle)
  /\ UNCHANGED <<busVars, clusterVars, leader, cache, disp>>

-----------------------------------------------------------------------------
(* Informers, leader election and process life (controller-runtime). *)

SyncAgentRun(c, r) ==
  /\ Up(c)
  /\ cache[c][r].ver # cr[r].ver
  /\ cache' = [cache EXCEPT ![c][r] =
                [phase |-> cr[r].phase, ver |-> cr[r].ver,
                 state |-> @.state, exec |-> @.exec]]
  /\ UNCHANGED <<busVars, clusterVars, leader, ctl, disp, faults>>

SyncJob(c, r) ==
  /\ Up(c)
  /\ cache[c][r].state # job[r].state \/ cache[c][r].exec # job[r].exec
  /\ cache' = [cache EXCEPT ![c][r] =
                [phase |-> @.phase, ver |-> @.ver,
                 state |-> job[r].state, exec |-> job[r].exec]]
  /\ UNCHANGED <<busVars, clusterVars, leader, ctl, disp, faults>>

\* The lease of a dead leader expires, or a live leader fails to renew it.
Elect(c) ==
  /\ Up(c) /\ leader # c
  /\ \/ ~Up(leader) /\ UNCHANGED faults
     \/ Up(leader) /\ Fault("leader")
  /\ leader' = c
  /\ UNCHANGED <<busVars, clusterVars, ctl, cache, disp>>

ControllerCrash(c) ==
  /\ Up(c)
  /\ Fault("ctl_crash")
  /\ SetCtl(c, Down)
  /\ cache' = [cache EXCEPT ![c] = NothingCached]
  /\ disp' = [disp EXCEPT ![c] = {}]
  /\ UNCHANGED <<busVars, clusterVars, leader>>

\* WaitForCacheSync: a new process lists before it reconciles.
ControllerRestart(c) ==
  /\ ~Up(c)
  /\ SetCtl(c, Idle)
  /\ cache' = [cache EXCEPT ![c] = [r \in Runs |-> Listed(r)]]
  /\ UNCHANGED <<busVars, clusterVars, leader, disp, faults>>

\* The janitor collects a Job jobTTL (24 h) after it completed.  A running
\* controller has long seen the Job finish and recorded it by then; only an
\* outage of every replica can outlast the TTL.
SeenBy(c, r) ==
  /\ cache[c][r] = Listed(r)
  /\ Busy(c) => ctl[c].run # r
CollectJob(r) ==
  /\ \/ /\ \A c \in Controllers : Up(c) => SeenBy(c, r)
        /\ cr[r].phase \in Outcomes
        /\ UNCHANGED faults
     \/ /\ \A c \in Controllers : ~Up(c)
        /\ Fault("outage")
  /\ GcJob(r)
  /\ UNCHANGED <<busVars, ctlVars>>

\* The three goroutines of a replica, when nothing fails them.
DispatchWork(c) == \E m \in RunRequested : Dispatch(c, m) \/ DispatchAck(c, m)
ReconcileWork(c) ==
  \/ \E r \in Runs : Reconcile(c, r)
  \/ CreateJob(c) \/ WritePending(c) \/ WriteStatus(c) \/ PublishTransition(c)
InformerWork(c) == \E r \in Runs : SyncAgentRun(c, r) \/ SyncJob(c, r)

ControllerStep(c) ==
  \/ DispatchWork(c) \/ ReconcileWork(c) \/ InformerWork(c)
  \/ \E m \in RunRequested : DispatchFails(c, m)
  \/ CreateJobReplyLost(c) \/ WriteStatusReplyLost(c)
  \/ KubeWriteFails(c) \/ PublishTransitionFails(c)
  \/ Elect(c) \/ ControllerCrash(c) \/ ControllerRestart(c)

ControllerNext ==
  \/ \E c \in Controllers : ControllerStep(c)
  \/ \E r \in Runs : CollectJob(r)
=============================================================================
