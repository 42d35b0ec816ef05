------------------------- MODULE RunPipelineProofs -------------------------
(***************************************************************************)
(* The safety of RunPipeline, for every set of runs, agents, controllers   *)
(* and workers, every bound and every set of faults.                       *)
(***************************************************************************)
EXTENDS RunPipeline, RunStatusProofs

-----------------------------------------------------------------------------
(* The operators the components are built from keep their state typed.     *)

LEMMA CrWrittenTypes ==
  ASSUME ClusterTypeOK, NEW r \in Runs, NEW ph \in Phases, NEW e \in 0..MaxExecs
  PROVE  CrWritten(cr[r], ph, e) \in AgentRun
BY DEF ClusterTypeOK, CrWritten, AgentRun

LEMMA CrCreatedTypes ==
  ASSUME ClusterTypeOK, NEW r \in Runs
  PROVE  CrCreated(cr[r]) \in AgentRun
BY ExecsAssumption, CrWrittenTypes DEF ClusterTypeOK, CrCreated, Phases, LivePhases

-----------------------------------------------------------------------------
(* Types.  TypeOK is not inductive by itself: an event names an execution  *)
(* in 1..MaxExecs, so a Job that exists, a cached copy of one and a task   *)
(* that will publish must all carry such a number; and only a message that *)
(* is in the stream may be settled, so a handler must hold such a message. *)

JobsNumbered == \A r \in Runs : job[r].state # "absent" => job[r].exec \in Execs

CopiesNumbered ==
  \A c \in Controllers : \A r \in Runs :
    cache[c][r].state # "absent" => cache[c][r].exec \in Execs

TasksNumbered ==
  \A c \in Controllers : ctl[c].pc \in {"status", "publish"} =>
    /\ ctl[c].exec \in Execs
    /\ ctl[c].phase \in {"running"} \union Outcomes

HeldIsStored ==
  /\ \A c \in Controllers : disp[c] \subseteq stream
  /\ \A w \in Workers : work[w] # Free => work[w].msg \in stream

TypeInv ==
  TypeOK /\ JobsNumbered /\ CopiesNumbered /\ TasksNumbered /\ HeldIsStored

\* The request path keeps its tables, messages and stages well formed.
LEMMA ApiTypes ==
  ASSUME TypeInv, Api PROVE TypeInv'
<1> DEFINE Kept == /\ StoreTypeOK' /\ Bus!BusTypeOK' /\ ClusterTypeOK'
                  /\ ApiTypeOK' /\ FaultTypeOK' /\ job' = job
                  /\ stream \subseteq stream'
<1>1. SUFFICES ASSUME ApiNext PROVE Kept
  BY DEF Api, ctlVars, statusVars, TypeInv, TypeOK, JobsNumbered, CopiesNumbered,
         TasksNumbered, HeldIsStored, ControllerTypeOK, StatusTypeOK
<1> USE DEF TypeInv, TypeOK
<1>2. ASSUME NEW r \in Runs, NEW s \in Stages, To(r, s), audited' \in SUBSET Runs
      PROVE  ApiTypeOK'
  BY <1>2 DEF ApiTypeOK, To
<1>3. ASSUME UNCHANGED storeVars PROVE StoreTypeOK'
  BY <1>3 DEF StoreTypeOK, storeVars
<1>4. ASSUME UNCHANGED busVars PROVE Bus!BusTypeOK' /\ stream \subseteq stream'
  BY <1>4 DEF Bus!BusTypeOK, busVars
<1>5. ASSUME UNCHANGED clusterVars PROVE ClusterTypeOK' /\ job' = job
  BY <1>5 DEF ClusterTypeOK, clusterVars
<1>6. ASSUME UNCHANGED faults PROVE FaultTypeOK'
  BY <1>6 DEF FaultTypeOK
<1>7. ASSUME NEW r \in Runs, Trigger(r) PROVE Kept
  BY <1>2, <1>4, <1>5, <1>6, <1>7, CreateRowTypes
  DEF Trigger, Stages, ApiTypeOK
<1>8. ASSUME NEW r \in Runs, ProjectSecrets(r) PROVE Kept
  BY <1>2, <1>3, <1>4, <1>6, <1>8 DEF ProjectSecrets, Stages, ClusterTypeOK, ApiTypeOK
<1>9. ASSUME NEW r \in Runs, ProjectFails(r) PROVE Kept
  BY <1>2, <1>3, <1>4, <1>5, <1>9, FaultTypes DEF ProjectFails, Stages, ApiTypeOK
<1>10. ASSUME NEW r \in Runs, PublishRequest(r) PROVE Kept
  BY <1>2, <1>3, <1>5, <1>6, <1>10, RequestTypes, PublishTypes
  DEF PublishRequest, Stages, ApiTypeOK
<1>11. ASSUME NEW r \in Runs, PublishFails(r) PROVE Kept
  BY <1>2, <1>3, <1>4, <1>5, <1>11, RequestTypes, PublishTypes, FaultTypes
  DEF PublishFails, Stages, ApiTypeOK
<1>12. ASSUME NEW r \in Runs, Accept(r) PROVE Kept
  BY <1>2, <1>3, <1>4, <1>5, <1>6, <1>12, FaultTypes DEF Accept, Stages, ApiTypeOK
<1>13. ASSUME NEW r \in Runs, RequestCrash(r) PROVE Kept
  BY <1>2, <1>3, <1>4, <1>5, <1>13, FaultTypes DEF RequestCrash, Stages, ApiTypeOK
<1>14. ASSUME NEW a \in Agents, DeleteAgentRequest(a) PROVE Kept
  BY <1>4, <1>5, <1>6, <1>14, DeleteAgentTypes DEF DeleteAgentRequest, apiVars, ApiTypeOK
<1> QED
  BY <1>1, <1>7, <1>8, <1>9, <1>10, <1>11, <1>12, <1>13, <1>14
  DEF ApiNext, ManualTrigger, WebhookTrigger, CronFire

\* The controller's tasks, copies and writes stay well formed, and whatever
\* it publishes names a Job that was created.
LEMMA ControllerTypes ==
  ASSUME TypeInv, Controller PROVE TypeInv'
<1> DEFINE Kept == /\ Bus!BusTypeOK' /\ ClusterTypeOK' /\ ControllerTypeOK'
                  /\ FaultTypeOK' /\ JobsNumbered' /\ CopiesNumbered' /\ TasksNumbered'
                  /\ stream \subseteq stream' /\ \A c \in Controllers : disp'[c] \subseteq stream'
<1>1. SUFFICES ASSUME ControllerNext PROVE Kept
  BY DEF Controller, storeVars, apiVars, statusVars, TypeInv, TypeOK,
         StoreTypeOK, ApiTypeOK, StatusTypeOK, HeldIsStored
<1> USE DEF TypeInv, TypeOK
<1>2. ASSUME UNCHANGED busVars PROVE Bus!BusTypeOK' /\ stream' = stream
  BY <1>2 DEF Bus!BusTypeOK, busVars
<1>3. ASSUME UNCHANGED clusterVars PROVE ClusterTypeOK' /\ JobsNumbered'
  BY <1>3 DEF ClusterTypeOK, JobsNumbered, clusterVars
<1>4. ASSUME UNCHANGED job, UNCHANGED secrets, UNCHANGED ended,
             cr' \in [Runs -> AgentRun]
      PROVE  ClusterTypeOK' /\ JobsNumbered'
  BY <1>4 DEF ClusterTypeOK, JobsNumbered
<1>5. ASSUME UNCHANGED faults PROVE FaultTypeOK'
  BY <1>5 DEF FaultTypeOK
<1>6. ASSUME UNCHANGED ctl PROVE TasksNumbered'
  BY <1>6 DEF TasksNumbered
<1>7. ASSUME UNCHANGED cache PROVE CopiesNumbered'
  BY <1>7 DEF CopiesNumbered
<1>8. ASSUME NEW c \in Controllers, NEW t \in Task \union {Idle, Down}, SetCtl(c, t),
             UNCHANGED <<leader, cache, disp>>, stream \subseteq stream',
             t.pc \in {"status", "publish"} =>
               t.exec \in Execs /\ t.phase \in {"running"} \union Outcomes
      PROVE  /\ ControllerTypeOK' /\ TasksNumbered' /\ CopiesNumbered'
             /\ \A d \in Controllers : disp'[d] \subseteq stream'
  <2>1. ctl' \in [Controllers -> Task \union {Idle, Down}]
    BY <1>8 DEF ControllerTypeOK, SetCtl
  <2>2. TasksNumbered'
    BY <1>8 DEF TasksNumbered, ControllerTypeOK, SetCtl
  <2> QED
    BY <1>7, <1>8, <2>1, <2>2 DEF ControllerTypeOK, HeldIsStored
<1>9. ASSUME NEW c \in Controllers, NEW m \in RunRequested,
             Dispatch(c, m) \/ DispatchFails(c, m) \/ DispatchAck(c, m)
      PROVE  Kept
  <2>1. m \in RunMsg /\ m.run \in Runs
    BY DEF RunMsg, RunRequested
  <2>2. CASE Dispatch(c, m)
    BY <1>4, <1>5, <1>6, <1>7, <2>1, <2>2, DeliverTypes, CrCreatedTypes
    DEF Dispatch, ControllerTypeOK, ClusterTypeOK, HeldIsStored
  <2>3. CASE DispatchFails(c, m)
    <3>1. UNCHANGED <<job, secrets, ended>> /\ UNCHANGED <<leader, ctl, cache, disp>>
      BY <2>3 DEF DispatchFails, ctlVars
    <3>2. cr' \in [Runs -> AgentRun]
      BY <2>1, <2>3, CrCreatedTypes DEF DispatchFails, ClusterTypeOK
    <3>3. Bus!BusTypeOK' /\ stream' = stream /\ FaultTypeOK'
      BY <2>1, <2>3, DeliverTypes, FaultTypes DEF DispatchFails
    <3> QED
      BY <1>4, <1>6, <1>7, <3>1, <3>2, <3>3 DEF ControllerTypeOK, HeldIsStored
  <2>4. CASE DispatchAck(c, m)
    <3>1. m \in stream
      BY <2>4 DEF DispatchAck, HeldIsStored
    <3>2. Bus!BusTypeOK' /\ stream' = stream
      BY <1>5, <2>1, <2>4, <3>1, AckTypes DEF DispatchAck, Bus!Nak, Bus!BusTypeOK
    <3>3. FaultTypeOK'
      BY <1>5, <2>4, FaultTypes DEF DispatchAck
    <3> QED
      BY <1>3, <1>6, <1>7, <2>4, <3>2, <3>3
      DEF DispatchAck, ControllerTypeOK, HeldIsStored
  <2> QED
    BY <1>9, <2>2, <2>3, <2>4
<1>10. ASSUME NEW c \in Controllers, NEW r \in Runs, Reconcile(c, r) PROVE Kept
  <2> DEFINE seen == cache[c][r]
             phase == PhaseOf(seen.state, seen.phase)
             task(pc, ph) == [pc |-> pc, run |-> r, phase |-> ph,
                              exec |-> seen.exec, ver |-> seen.ver]
  <2>1. seen \in Copy /\ phase \in Phases
    BY DEF ControllerTypeOK, PhaseOf, Copy, Phases, Outcomes, LivePhases
  <2>2. /\ UNCHANGED busVars /\ UNCHANGED clusterVars /\ UNCHANGED faults
        /\ UNCHANGED <<leader, cache, disp>>
    BY <1>10 DEF Reconcile
  <2>3. /\ Bus!BusTypeOK' /\ ClusterTypeOK' /\ FaultTypeOK' /\ JobsNumbered'
        /\ stream' = stream
    BY <1>2, <1>3, <1>5, <2>2
  <2>4. CASE SetCtl(c, task("create", "pending"))
    <3>1. task("create", "pending") \in Task
      BY <2>1 DEF Task, Copy, Phases, LivePhases
    <3>2. task("create", "pending").pc = "create"
      OBVIOUS
    <3> HIDE DEF task
    <3> QED
      BY <1>8, <2>2, <2>3, <2>4, <3>1, <3>2
  <2>5. CASE SetCtl(c, task("status", phase)) /\ seen.state # "absent" /\ phase # seen.phase
    <3>1. task("status", phase) \in Task
      BY <2>1 DEF Task, Copy
    <3>2. phase \in {"running"} \union Outcomes
      BY <2>5 DEF PhaseOf
    <3>3. seen.exec \in Execs
      BY <2>5 DEF CopiesNumbered
    <3>4. task("status", phase).exec = seen.exec /\ task("status", phase).phase = phase
      OBVIOUS
    <3> HIDE DEF task, seen, phase
    <3> QED
      BY <1>8, <2>2, <2>3, <2>5, <3>1, <3>2, <3>3, <3>4
  <2> QED
    BY <1>10, <2>4, <2>5 DEF Reconcile
<1>11. ASSUME NEW c \in Controllers, CreateJob(c) \/ CreateJobReplyLost(c) PROVE Kept
  <2> DEFINE t == [ctl[c] EXCEPT !.pc = "pending"]
  <2>1. ctl[c] \in Task /\ t \in Task /\ t.pc = "pending"
    <3>1. ctl[c].pc = "create"
      BY <1>11 DEF CreateJob, CreateJobReplyLost
    <3>2. ctl[c] \in Task
      BY <3>1 DEF ControllerTypeOK, Idle, Down
    <3> QED
      BY <3>2 DEF Task
  <2>2. ASSUME NewJob(ctl[c].run), UNCHANGED <<cr, secrets, ended>>
        PROVE  ClusterTypeOK' /\ JobsNumbered'
    BY <2>1, <2>2, ExecsAssumption
    DEF NewJob, ClusterTypeOK, JobsNumbered, Execs, Task, JobStates
  <2>3. /\ Bus!BusTypeOK' /\ FaultTypeOK' /\ stream' = stream
        /\ UNCHANGED <<leader, cache, disp>>
    BY <1>2, <1>5, <1>11, FaultTypes DEF CreateJob, CreateJobReplyLost
  <2>4. ClusterTypeOK' /\ JobsNumbered'
    BY <1>3, <1>11, <2>2 DEF CreateJob, CreateJobReplyLost, clusterVars
  <2>5. SetCtl(c, t) \/ SetCtl(c, Idle)
    BY <1>11 DEF CreateJob, CreateJobReplyLost
  <2>6. Idle.pc = "idle"
    BY DEF Idle
  <2> HIDE DEF t
  <2> QED
    BY <1>8, <2>1, <2>3, <2>4, <2>5, <2>6
<1>12. ASSUME NEW c \in Controllers,
              WritePending(c) \/ WriteStatus(c) \/ WriteStatusReplyLost(c)
       PROVE  Kept
  <2> DEFINE t == ToPublish(ctl[c])
  <2>1. ctl[c] \in Task
    <3>1. ctl[c].pc \in {"pending", "status"} /\ ctl[c] \in Task \union {Idle, Down}
      BY <1>12 DEF WritePending, WriteStatus, WriteStatusReplyLost, ControllerTypeOK
    <3>2. ctl[c] \in Task
      BY <3>1 DEF Idle, Down
    <3> QED
      BY <3>2
  <2>2. ctl[c].run \in Runs /\ ctl[c].phase \in Phases
    BY <2>1 DEF Task
  <2>9. ctl[c].pc = "status" =>
          /\ t \in Task /\ t.exec \in Execs /\ t.phase \in {"running"} \union Outcomes
    <3> SUFFICES ASSUME ctl[c].pc = "status"
                 PROVE  t \in Task /\ t.exec \in Execs /\ t.phase \in {"running"} \union Outcomes
      OBVIOUS
    <3>1. ctl[c].exec \in Execs /\ ctl[c].phase \in {"running"} \union Outcomes
      BY DEF TasksNumbered
    <3>2. cr[ctl[c].run].started \in 0..MaxExecs
      BY <2>2 DEF ClusterTypeOK, AgentRun
    <3>3. StartOf(ctl[c]) \in Execs
      BY <3>1, <3>2, ExecsAssumption DEF StartOf, Execs
    <3>4. Execs \subseteq 0..MaxExecs
      BY ExecsAssumption DEF Execs
    <3> QED
      BY <2>1, <3>1, <3>3, <3>4 DEF ToPublish, Task
  <2>3. ASSUME StatusWritten(ctl[c]) PROVE cr' \in [Runs -> AgentRun]
    <3>1. StartOf(ctl[c]) \in 0..MaxExecs
      BY <2>1, <2>2 DEF StartOf, ClusterTypeOK, AgentRun, Task
    <3> QED
      BY <2>2, <2>3, <3>1, CrWrittenTypes DEF StatusWritten, ClusterTypeOK
  <2>4. cr' \in [Runs -> AgentRun]
    BY <1>12, <2>3 DEF WritePending, WriteStatus, WriteStatusReplyLost, ClusterTypeOK
  <2>5. /\ Bus!BusTypeOK' /\ FaultTypeOK' /\ ClusterTypeOK' /\ JobsNumbered'
        /\ stream' = stream /\ UNCHANGED <<leader, cache, disp>>
    BY <1>2, <1>4, <1>5, <1>12, <2>4, FaultTypes
    DEF WritePending, WriteStatus, WriteStatusReplyLost
  <2>6. \/ SetCtl(c, Idle)
        \/ /\ SetCtl(c, t) /\ t \in Task
           /\ t.exec \in Execs /\ t.phase \in {"running"} \union Outcomes
    <3>1. CASE ctl[c].pc = "status"
      BY <1>12, <2>9, <3>1 DEF WritePending, WriteStatus, WriteStatusReplyLost
    <3>2. CASE ctl[c].pc # "status"
      BY <1>12, <3>2 DEF WritePending, WriteStatus, WriteStatusReplyLost
    <3> QED
      BY <3>1, <3>2
  <2>7. Idle.pc = "idle"
    BY DEF Idle
  <2> HIDE DEF t
  <2> QED
    BY <1>8, <2>1, <2>5, <2>6, <2>7
<1>13. ASSUME NEW c \in Controllers,
              KubeWriteFails(c) \/ PublishTransition(c) \/ PublishTransitionFails(c)
       PROVE  Kept
  <2>1. Idle.pc = "idle"
    BY DEF Idle
  <2>2. CASE PublishTransition(c)
    <3>1. /\ ctl[c] \in Task /\ ctl[c].exec \in Execs
          /\ ctl[c].phase \in {"running"} \union Outcomes
      BY <2>2 DEF PublishTransition, ControllerTypeOK, Task, Idle, Down, TasksNumbered
    <3>2. ctl[c].run \in Runs
      BY <3>1 DEF Task
    <3>3. Transition(ctl[c]) \in RunMsg
      BY <3>1, <3>2, TransitionTypes DEF Transition, Outcomes
    <3>4. Bus!BusTypeOK' /\ stream \subseteq stream'
      BY <2>2, <3>3, PublishTypes DEF PublishTransition
    <3> QED
      BY <1>3, <1>5, <1>8, <2>1, <2>2, <3>4 DEF PublishTransition
  <2>3. CASE KubeWriteFails(c) \/ PublishTransitionFails(c)
    BY <1>2, <1>3, <1>8, <2>1, <2>3, FaultTypes DEF KubeWriteFails, PublishTransitionFails
  <2> QED
    BY <1>13, <2>2, <2>3
<1>14. ASSUME NEW c \in Controllers, NEW r \in Runs, SyncAgentRun(c, r) \/ SyncJob(c, r)
       PROVE  Kept
  <2> DEFINE copy == cache[c][r]
             a == [phase |-> cr[r].phase, ver |-> cr[r].ver,
                   state |-> copy.state, exec |-> copy.exec]
             j == [phase |-> copy.phase, ver |-> copy.ver,
                   state |-> job[r].state, exec |-> job[r].exec]
  <2>1. a \in Copy /\ a.state = cache[c][r].state /\ a.exec = cache[c][r].exec
    BY DEF ControllerTypeOK, ClusterTypeOK, AgentRun, Copy
  <2>2. j \in Copy /\ j.state = job[r].state /\ j.exec = job[r].exec
    BY DEF ControllerTypeOK, ClusterTypeOK, AgentRun, Copy
  <2>3. PICK k \in {a, j} : cache' = [cache EXCEPT ![c][r] = k]
    BY <1>14 DEF SyncAgentRun, SyncJob
  <2> HIDE DEF a, j
  <2>4. cache' \in [Controllers -> [Runs -> Copy]]
    BY <2>1, <2>2, <2>3 DEF ControllerTypeOK
  <2>5. CopiesNumbered'
    BY <2>1, <2>2, <2>3 DEF ControllerTypeOK, CopiesNumbered, JobsNumbered
  <2> QED
    BY <1>2, <1>3, <1>5, <1>6, <1>14, <2>4, <2>5
    DEF SyncAgentRun, SyncJob, ControllerTypeOK, HeldIsStored
<1>15. ASSUME NEW c \in Controllers, Elect(c) \/ ControllerCrash(c) \/ ControllerRestart(c)
       PROVE  Kept
  <2>1. CASE Elect(c)
    BY <1>2, <1>3, <1>5, <1>6, <1>7, <2>1, FaultTypes DEF Elect, ControllerTypeOK, HeldIsStored
  <2>2. CASE ControllerCrash(c)
    <3>1. NothingCached \in [Runs -> Copy] /\ \A r \in Runs : NothingCached[r].state = "absent"
      BY ExecsAssumption DEF NothingCached, Copy, Phases, JobStates
    <3>2. ctl' \in [Controllers -> Task \union {Idle, Down}] /\ TasksNumbered'
      BY <2>2 DEF ControllerCrash, SetCtl, ControllerTypeOK, TasksNumbered, Down
    <3>3. cache' \in [Controllers -> [Runs -> Copy]] /\ CopiesNumbered'
      BY <2>2, <3>1 DEF ControllerCrash, ControllerTypeOK, CopiesNumbered
    <3>4. /\ Bus!BusTypeOK' /\ stream' = stream /\ FaultTypeOK'
          /\ ClusterTypeOK' /\ JobsNumbered'
      BY <1>2, <1>3, <2>2, FaultTypes DEF ControllerCrash
    <3> QED
      BY <2>2, <3>2, <3>3, <3>4 DEF ControllerCrash, ControllerTypeOK, HeldIsStored
  <2>3. CASE ControllerRestart(c)
    <3>1. \A r \in Runs : Listed(r) \in Copy
                        /\ Listed(r).state = job[r].state /\ Listed(r).exec = job[r].exec
      BY DEF Listed, Copy, ClusterTypeOK, AgentRun
    <3>2. ctl' \in [Controllers -> Task \union {Idle, Down}] /\ TasksNumbered'
      BY <2>3 DEF ControllerRestart, SetCtl, ControllerTypeOK, TasksNumbered, Idle
    <3>3. cache' \in [Controllers -> [Runs -> Copy]] /\ CopiesNumbered'
      BY <2>3, <3>1 DEF ControllerRestart, ControllerTypeOK, CopiesNumbered, JobsNumbered
    <3>4. /\ Bus!BusTypeOK' /\ stream' = stream /\ FaultTypeOK'
          /\ ClusterTypeOK' /\ JobsNumbered'
      BY <1>2, <1>3, <1>5, <2>3 DEF ControllerRestart
    <3> QED
      BY <2>3, <3>2, <3>3, <3>4 DEF ControllerRestart, ControllerTypeOK, HeldIsStored
  <2> QED
    BY <1>15, <2>1, <2>2, <2>3
<1>16. ASSUME NEW r \in Runs, CollectJob(r) PROVE Kept
  <2>1. ClusterTypeOK' /\ JobsNumbered'
    BY <1>16 DEF CollectJob, GcJob, ClusterTypeOK, JobsNumbered, JobStates
  <2> QED
    BY <1>2, <1>5, <1>6, <1>7, <1>16, <2>1, FaultTypes
    DEF CollectJob, ctlVars, ControllerTypeOK, HeldIsStored
<1> QED
  BY <1>1, <1>9, <1>10, <1>11, <1>12, <1>13, <1>14, <1>15, <1>16
  DEF ControllerNext, ControllerStep, DispatchWork, ReconcileWork, InformerWork

\* The handlers keep their tables and tasks well formed, and hold only
\* messages of the stream.
LEMMA StatusTypes ==
  ASSUME TypeInv, StatusConsumers PROVE TypeInv'
<1>1. StatusInv' /\ stream' = stream
  BY WorkersKeepTypes DEF StatusConsumers, TypeInv, TypeOK, StatusInv, HeldIsStored,
                          HandlersHoldStored
<1> QED
  BY <1>1 DEF StatusConsumers, clusterVars, apiVars, ctlVars, TypeInv, TypeOK, StatusInv,
              ClusterTypeOK, ApiTypeOK, ControllerTypeOK, JobsNumbered, CopiesNumbered,
              TasksNumbered, HeldIsStored, HandlersHoldStored

\* The Job controller and the janitor.
LEMMA ClusterTypes ==
  ASSUME TypeInv, Kubernetes \/ JanitorSecrets PROVE TypeInv'
<1> USE DEF TypeInv, TypeOK
<1>1. UNCHANGED <<storeVars, busVars, apiVars, ctlVars, statusVars, faults>>
  BY DEF Kubernetes, JanitorSecrets
<1>2. /\ StoreTypeOK' /\ Bus!BusTypeOK' /\ ApiTypeOK' /\ ControllerTypeOK'
      /\ StatusTypeOK' /\ FaultTypeOK'
  BY <1>1 DEF storeVars, busVars, apiVars, ctlVars, statusVars, StoreTypeOK,
              Bus!BusTypeOK, ApiTypeOK, ControllerTypeOK, StatusTypeOK, FaultTypeOK
<1>3. CopiesNumbered' /\ TasksNumbered' /\ HeldIsStored'
  BY <1>1 DEF ctlVars, statusVars, busVars, CopiesNumbered, TasksNumbered, HeldIsStored
<1>4. ClusterTypeOK' /\ JobsNumbered'
  <2>1. ASSUME NEW r \in Runs, JobStart(r) PROVE <1>4
    BY <2>1 DEF JobStart, ClusterTypeOK, JobsNumbered, JobStates
  <2>2. ASSUME NEW r \in Runs, NEW st \in Outcomes, JobFinish(r, st) PROVE <1>4
    <3>1. [run |-> r, exec |-> job[r].exec, status |-> st] \in Execution
      BY <2>2 DEF JobFinish, JobsNumbered, Execution
    <3> QED
      BY <2>2, <3>1 DEF JobFinish, ClusterTypeOK, JobsNumbered, JobStates
  <2>3. ASSUME NEW r \in Runs, GcSecret(r, RowExists(r)) PROVE <1>4
    BY <2>3 DEF GcSecret, ClusterTypeOK, JobsNumbered
  <2> QED
    BY <2>1, <2>2, <2>3 DEF Kubernetes, JanitorSecrets
<1> QED
  BY <1>2, <1>3, <1>4

LEMMA TypesInitially == Init => TypeInv
BY ExecsAssumption, MaxDeliverAssumption, FaultsAssumption
DEF Init, StoreInit, Bus!BusInit, ClusterInit, ApiInit, ControllerInit, StatusInit, FaultInit,
    TypeInv, TypeOK, StoreTypeOK, Bus!BusTypeOK, ClusterTypeOK, AgentRun, ApiTypeOK, ControllerTypeOK,
    StatusTypeOK, FaultTypeOK, JobsNumbered, CopiesNumbered, TasksNumbered, HeldIsStored,
    Row, RowStatus, Kinds, Phases, JobStates, Stages, Copy, NothingCached, Idle, Free

LEMMA TypesPreserved == TypeInv /\ [Next]_vars => TypeInv'
<1> SUFFICES ASSUME TypeInv, [Next]_vars PROVE TypeInv'
  OBVIOUS
<1>1. CASE UNCHANGED vars
  BY <1>1 DEF vars, storeVars, busVars, clusterVars, apiVars, ctlVars, statusVars,
    TypeInv, TypeOK, StoreTypeOK, Bus!BusTypeOK, ClusterTypeOK, ApiTypeOK,
    ControllerTypeOK, StatusTypeOK, FaultTypeOK, JobsNumbered, CopiesNumbered,
    TasksNumbered, HeldIsStored
<1> QED
  BY <1>1, ApiTypes, ControllerTypes, StatusTypes, ClusterTypes DEF Next

\* Every variable of the pipeline keeps its type, whatever the number of
\* runs, replicas, deliveries and faults (RunPipeline's TypeOK).
THEOREM TypeCorrect == Spec => []TypeOK
<1>1. TypeInv => TypeOK
  BY DEF TypeInv
<1> QED
  BY <1>1, TypesInitially, TypesPreserved, PTL DEF Spec

-----------------------------------------------------------------------------
(* Why completions are true.  What a replica works from, a cached copy or  *)
(* the task it made of one, is at most as new as the object; a task whose  *)
(* version is still current was made of a live AgentRun.  So a terminal    *)
(* phase is written once, on a live object, by one replica, which then is  *)
(* the only one ever to publish that run's completion.                     *)

Unwritten(c) == ctl[c].pc \in {"create", "pending", "status"}
Publishing(c) == ctl[c].pc = "publish" /\ ctl[c].phase \in Outcomes
HappenedAs(r, e, st) == [run |-> r, exec |-> e, status |-> st] \in ended

VersionsCount == \A r \in Runs : cr[r].ver = 0 => cr[r].phase = "absent"

CopiesLag ==
  \A c \in Controllers : \A r \in Runs :
    /\ cache[c][r].ver <= cr[r].ver
    /\ cache[c][r].ver = cr[r].ver => cache[c][r].phase = cr[r].phase

TasksLag ==
  \A c \in Controllers : Unwritten(c) =>
    /\ ctl[c].ver <= cr[ctl[c].run].ver
    /\ Current(ctl[c]) => cr[ctl[c].run].phase \in LivePhases

OutcomesHappened ==
  /\ \A r \in Runs : job[r].state \in Outcomes => HappenedAs(r, job[r].exec, job[r].state)
  /\ \A c \in Controllers : \A r \in Runs :
       cache[c][r].state \in Outcomes => HappenedAs(r, cache[c][r].exec, cache[c][r].state)
  /\ \A c \in Controllers :
       ctl[c].pc \in {"status", "publish"} /\ ctl[c].phase \in Outcomes
         => HappenedAs(ctl[c].run, ctl[c].exec, ctl[c].phase)

PublishersOwn ==
  \A c \in Controllers : Publishing(c) =>
    /\ cr[ctl[c].run].phase = ctl[c].phase
    /\ \A m \in stream \intersect RunCompleted : m.run # ctl[c].run
    /\ \A d \in Controllers : Publishing(d) /\ ctl[d].run = ctl[c].run => d = c

CompletionInv ==
  /\ VersionsCount /\ CopiesLag /\ TasksLag
  /\ OutcomesHappened /\ PublishersOwn /\ CompletionsAreTrue
\* The invariant is about the cluster, the controllers and the completed
\* events only.
LEMMA CompletionFrame ==
  ASSUME CompletionInv, UNCHANGED <<cr, job, cache, ctl, ended>>,
         stream' \intersect RunCompleted = stream \intersect RunCompleted
  PROVE  CompletionInv'
BY DEF CompletionInv, VersionsCount, CopiesLag, TasksLag, OutcomesHappened, PublishersOwn,
       CompletionsAreTrue, Unwritten, Publishing, HappenedAs, Current

LEMMA OthersKeepCompletions ==
  ASSUME TypeInv, CompletionInv, Api \/ StatusConsumers \/ JanitorSecrets
  PROVE  CompletionInv'
<1>1. UNCHANGED <<cr, job, cache, ctl, ended>>
  BY DEF Api, ApiNext, ManualTrigger, WebhookTrigger, CronFire, Trigger,
         ProjectSecrets, ProjectFails, PublishRequest, PublishFails,
         Accept, RequestCrash, DeleteAgentRequest, StatusConsumers, JanitorSecrets,
         GcSecret, clusterVars, ctlVars
<1>2. \/ UNCHANGED stream
      \/ \E r \in Runs : stream' = stream \union {Requested(r)}
  <2>1. CASE Api
    BY <2>1 DEF Api, ApiNext, ManualTrigger, WebhookTrigger, CronFire, Trigger, ProjectSecrets,
                ProjectFails, PublishRequest,
                PublishFails, Accept, RequestCrash, DeleteAgentRequest, busVars, Bus!Publish
  <2>2. CASE StatusConsumers
    BY <2>2 DEF StatusConsumers, StatusNext, WorkerStep, HandlerWork, Handle, HandleFails,
                Receive, Meter, Broadcast, Acknowledge, WorkerCrash, busVars,
                Bus!Deliver, Bus!Ack, Bus!Nak
  <2>3. CASE JanitorSecrets
    BY <2>3 DEF JanitorSecrets, busVars
  <2> QED
    BY <2>1, <2>2, <2>3
<1>3. \A r \in Runs : Requested(r) \notin RunCompleted
  BY DEF Requested, RunCompleted
<1> QED
  BY <1>1, <1>2, <1>3, CompletionFrame

LEMMA KubernetesKeepsCompletions ==
  ASSUME TypeInv, CompletionInv, Kubernetes
  PROVE  CompletionInv'
<1>1. UNCHANGED <<cr, cache, ctl, stream>> /\ ended \subseteq ended'
  BY DEF Kubernetes, JobStart, JobFinish, ctlVars, busVars
<1>2. /\ VersionsCount' /\ CopiesLag' /\ TasksLag'
      /\ PublishersOwn' /\ CompletionsAreTrue'
  BY <1>1 DEF CompletionInv, VersionsCount, CopiesLag, TasksLag, PublishersOwn, CompletionsAreTrue,
              Unwritten, Publishing, Current
<1>3. OutcomesHappened'
  <2>1. \A r \in Runs : job'[r].state \in Outcomes =>
          [run |-> r, exec |-> job'[r].exec, status |-> job'[r].state] \in ended'
    <3>1. ASSUME NEW q \in Runs, JobStart(q) PROVE <2>1
      BY <3>1 DEF JobStart, TypeInv, TypeOK, ClusterTypeOK, Outcomes, CompletionInv,
                  OutcomesHappened, HappenedAs
    <3>2. ASSUME NEW q \in Runs, NEW st \in Outcomes, JobFinish(q, st) PROVE <2>1
      BY <3>2 DEF JobFinish, TypeInv, TypeOK, ClusterTypeOK, CompletionInv,
                  OutcomesHappened, HappenedAs
    <3> QED
      BY <3>1, <3>2 DEF Kubernetes
  <2> QED
    BY <1>1, <2>1 DEF CompletionInv, OutcomesHappened, HappenedAs
<1> QED
  BY <1>2, <1>3 DEF CompletionInv
\* How the AgentRuns may change: an object either stays what it is or gets
\* a newer version.
Grown == \A r \in Runs : cr'[r] = cr[r] \/ cr'[r].ver > cr[r].ver

LEMMA GrownKeepsCopies ==
  ASSUME TypeInv, TypeInv', VersionsCount, CopiesLag, Grown, UNCHANGED cache
  PROVE  VersionsCount' /\ CopiesLag'
<1>2. VersionsCount'
  BY DEF TypeInv, TypeOK, ClusterTypeOK, VersionsCount, Grown, AgentRun
<1> SUFFICES ASSUME NEW c \in Controllers, NEW r \in Runs
             PROVE  /\ cache[c][r].ver <= cr'[r].ver
                    /\ cache[c][r].ver = cr'[r].ver => cache[c][r].phase = cr'[r].phase
  BY <1>2 DEF CopiesLag
<1>1. cache[c][r].ver \in Nat /\ cr[r].ver \in Nat /\ cr'[r].ver \in Nat
  BY DEF TypeInv, TypeOK, ClusterTypeOK, ControllerTypeOK, Copy, AgentRun
<1> QED
  BY <1>1 DEF CopiesLag, Grown

\* Replica c's task becomes t; the others keep theirs.
LEMMA GrownKeepsTasks ==
  ASSUME TypeInv, TypeInv', TasksLag, Grown, NEW c \in Controllers,
         NEW t \in Task \union {Idle, Down}, SetCtl(c, t),
         t.pc \in {"create", "pending", "status"} =>
           /\ t.ver <= cr'[t.run].ver
           /\ cr'[t.run].ver = t.ver => cr'[t.run].phase \in LivePhases
  PROVE  TasksLag'
<1> SUFFICES ASSUME NEW d \in Controllers, Unwritten(d)'
             PROVE  /\ ctl'[d].ver <= cr'[ctl'[d].run].ver
                    /\ Current(ctl[d])' => cr'[ctl'[d].run].phase \in LivePhases
  BY DEF TasksLag
<1>1. CASE d = c
  BY <1>1 DEF Unwritten, Current, SetCtl, TypeInv, TypeOK, ControllerTypeOK
<1>2. CASE d # c
  <2>1. ctl'[d] = ctl[d] /\ Unwritten(d)
    BY <1>2 DEF Unwritten, SetCtl, TypeInv, TypeOK, ControllerTypeOK
  <2>2. ctl[d] \in Task
    BY <2>1 DEF Unwritten, Idle, Down, TypeInv, TypeOK, ControllerTypeOK
  <2>3. ctl[d].run \in Runs /\ ctl[d].ver \in Nat
    BY <2>2 DEF Task
  <2>4. cr[ctl[d].run].ver \in Nat /\ cr'[ctl[d].run].ver \in Nat
    BY <2>3 DEF TypeInv, TypeOK, ClusterTypeOK, AgentRun
  <2> QED
    BY <2>1, <2>3, <2>4 DEF TasksLag, Grown, Current
<1> QED
  BY <1>1, <1>2

\* A replica that drops or starts a task without having written it.
LEMMA TaskKeepsCompletions ==
  ASSUME TypeInv, TypeInv', CompletionInv, NEW c \in Controllers,
         NEW t \in Task \union {Idle, Down}, SetCtl(c, t), t.pc # "publish",
         UNCHANGED <<cr, cache, ended, stream>>,
         \A r \in Runs : job'[r] = job[r] \/ job'[r].state \notin Outcomes,
         t.pc \in {"create", "pending", "status"} =>
           /\ t.ver <= cr[t.run].ver
           /\ cr[t.run].ver = t.ver => cr[t.run].phase \in LivePhases,
         t.pc = "status" /\ t.phase \in Outcomes => HappenedAs(t.run, t.exec, t.phase)
  PROVE  CompletionInv'
<1>1. Grown
  BY DEF Grown
<1>2. VersionsCount' /\ CopiesLag' /\ TasksLag'
  BY <1>1, GrownKeepsCopies, GrownKeepsTasks DEF CompletionInv
<1>3. OutcomesHappened'
  BY DEF CompletionInv, OutcomesHappened, HappenedAs, SetCtl, TypeInv, TypeOK, ControllerTypeOK
<1>4. \A d \in Controllers : Publishing(d)' => Publishing(d) /\ ctl'[d] = ctl[d]
  BY DEF Publishing, SetCtl, TypeInv, TypeOK, ControllerTypeOK
<1>5. PublishersOwn'
  BY <1>4 DEF CompletionInv, PublishersOwn
<1>6. CompletionsAreTrue'
  BY DEF CompletionInv, CompletionsAreTrue
<1> QED
  BY <1>2, <1>3, <1>5, <1>6 DEF CompletionInv
\* A live AgentRun is nobody's: its completion is neither published nor being
\* published.
LEMMA LiveIsOpen ==
  ASSUME TypeInv, CompletionInv, NEW r \in Runs, cr[r].phase \notin Outcomes
  PROVE  /\ \A m \in stream \intersect RunCompleted : m.run # r
         /\ \A d \in Controllers : Publishing(d) => ctl[d].run # r
<1>1. \A m \in RunCompleted : m.status \in Outcomes
  BY DEF RunCompleted
<1>2. \A m \in stream \intersect RunCompleted : m.run # r
  BY <1>1 DEF CompletionInv, CompletionsAreTrue
<1>3. \A d \in Controllers : Publishing(d) => ctl[d].run # r
  BY DEF CompletionInv, PublishersOwn, Publishing
<1> QED
  BY <1>2, <1>3

\* The one write that decides: on a current version, so on a live AgentRun.
LEMMA WriteKeepsCompletions ==
  ASSUME TypeInv, TypeInv', CompletionInv, NEW c \in Controllers,
         ctl[c].pc \in {"pending", "status"}, Current(ctl[c]), StatusWritten(ctl[c]),
         NEW t, SetCtl(c, t),
         t = Idle \/ (ctl[c].pc = "status" /\ t = ToPublish(ctl[c])),
         UNCHANGED <<cache, ended, stream, job>>
  PROVE  CompletionInv'
<1> DEFINE run == ctl[c].run
<1>1. ctl[c] \in Task
  BY DEF Idle, Down, TypeInv, TypeOK, ControllerTypeOK
<1>2. run \in Runs /\ t \in Task \union {Idle, Down} /\ t.pc \in {"idle", "publish"}
  <2>1. run \in Runs
    BY <1>1 DEF Task
  <2>2. CASE t = Idle
    BY <2>1, <2>2 DEF Idle
  <2>3. CASE t # Idle
    <3>1. t = ToPublish(ctl[c]) /\ ctl'[c] = t
      BY <2>3 DEF SetCtl, TypeInv, TypeOK, ControllerTypeOK
    <3>2. t \in Task \union {Idle, Down}
      BY <3>1 DEF TypeInv, TypeOK, ControllerTypeOK
    <3>3. t.pc = "publish"
      BY <1>1, <3>1 DEF ToPublish, Task
    <3> QED
      BY <2>1, <3>2, <3>3
  <2> QED
    BY <2>2, <2>3, <2>1
<1>3. cr[run].phase \in LivePhases
  BY DEF CompletionInv, TasksLag, Unwritten
<1>4. /\ cr'[run].phase = ctl[c].phase
      /\ \A r \in Runs : r # run => cr'[r] = cr[r]
      /\ Grown
  <2>1. cr \in [Runs -> [phase: Phases, ver: Nat, started: 0..MaxExecs]]
    BY DEF TypeInv, TypeOK, ClusterTypeOK, AgentRun
  <2> QED
    BY <1>2, <2>1 DEF StatusWritten, CrWritten, Grown
<1>5. VersionsCount' /\ CopiesLag' /\ TasksLag'
  BY <1>2, <1>4, GrownKeepsCopies, GrownKeepsTasks DEF CompletionInv
<1>6. /\ \A m \in stream \intersect RunCompleted : m.run # run
      /\ \A d \in Controllers : Publishing(d) => ctl[d].run # run
  BY <1>2, <1>3, LiveIsOpen DEF LivePhases, Outcomes
<1>7. /\ ctl'[c] = t /\ \A d \in Controllers : d # c => ctl'[d] = ctl[d]
  BY DEF SetCtl, TypeInv, TypeOK, ControllerTypeOK
<1>8. t.pc = "publish" =>
        /\ t.run = run /\ t.phase = ctl[c].phase
        /\ t.phase \in Outcomes => t.exec = ctl[c].exec
  <2>1. CASE t = Idle
    BY <2>1 DEF Idle
  <2>2. CASE t = ToPublish(ctl[c])
    BY <1>1, <2>2 DEF Task, ToPublish, Outcomes
  <2> QED
    BY <2>1, <2>2
<1>9. OutcomesHappened'
  <2>1. ctl'[c].pc \in {"status", "publish"} /\ ctl'[c].phase \in Outcomes
          => HappenedAs(ctl'[c].run, ctl'[c].exec, ctl'[c].phase)
    BY <1>2, <1>7, <1>8 DEF CompletionInv, OutcomesHappened, Idle
  <2> QED
    BY <1>7, <2>1 DEF CompletionInv, OutcomesHappened, HappenedAs
<1>10. PublishersOwn'
  <2> SUFFICES ASSUME NEW d \in Controllers, Publishing(d)'
      PROVE  /\ cr'[ctl'[d].run].phase = ctl'[d].phase
             /\ \A m \in stream \intersect RunCompleted : m.run # ctl'[d].run
             /\ \A e \in Controllers : Publishing(e)' /\ ctl'[e].run = ctl'[d].run => e = d
    BY DEF PublishersOwn
  <2>1. \A e \in Controllers : e # c /\ Publishing(e)' =>
          /\ Publishing(e) /\ ctl'[e] = ctl[e] /\ ctl[e].run # run
          /\ ctl[e].run \in Runs
    <3> SUFFICES ASSUME NEW e \in Controllers, e # c, Publishing(e)'
                 PROVE  Publishing(e) /\ ctl'[e] = ctl[e] /\ ctl[e].run # run /\ ctl[e].run \in Runs
      OBVIOUS
    <3>1. Publishing(e) /\ ctl'[e] = ctl[e]
      BY <1>7 DEF Publishing
    <3>2. ctl[e] \in Task
      BY <3>1 DEF Publishing, Idle, Down, TypeInv, TypeOK, ControllerTypeOK
    <3> QED
      BY <1>6, <3>1, <3>2 DEF Task
  <2>2. CASE d = c
    BY <1>4, <1>6, <1>7, <1>8, <2>1, <2>2 DEF Publishing
  <2>3. CASE d # c
    <3>1. Publishing(c)' => ctl'[c].run = run
      BY <1>7, <1>8 DEF Publishing
    <3> QED
      BY <1>4, <2>1, <2>3, <3>1 DEF CompletionInv, PublishersOwn
  <2> QED
    BY <2>2, <2>3
<1>11. CompletionsAreTrue'
  <2>1. \A m \in stream \intersect RunCompleted : m.run \in Runs /\ m.run # run
    BY <1>6 DEF RunCompleted
  <2> QED
    BY <1>4, <2>1 DEF CompletionInv, CompletionsAreTrue
<1> QED
  BY <1>5, <1>9, <1>10, <1>11 DEF CompletionInv
\* Creating an AgentRun that exists changes nothing; one that does not has
\* no task, no copy and no event yet.
LEMMA DispatchKeepsCompletions ==
  ASSUME TypeInv, TypeInv', CompletionInv, NEW c \in Controllers, NEW m \in RunRequested,
         Dispatch(c, m) \/ DispatchFails(c, m) \/ DispatchAck(c, m)
  PROVE  CompletionInv'
<1>1. m.run \in Runs
  BY DEF RunRequested
<1>2. UNCHANGED <<job, cache, ctl, ended, stream>>
  BY DEF Dispatch, DispatchFails, DispatchAck, ctlVars, clusterVars, Bus!Deliver, Bus!Ack,
         Bus!Nak
<1>3. cr' = cr \/ cr' = [cr EXCEPT ![m.run] = CrCreated(@)]
  BY DEF Dispatch, DispatchFails, DispatchAck, clusterVars
<1>4. CASE cr' = cr \/ cr[m.run].phase # "absent"
  <2>1. cr' = cr
    BY <1>1, <1>3, <1>4 DEF CrCreated, TypeInv, TypeOK, ClusterTypeOK
  <2> QED
    BY <1>2, <2>1, CompletionFrame
<1>5. CASE cr' = [cr EXCEPT ![m.run] = CrCreated(@)] /\ cr[m.run].phase = "absent"
  <2>1. cr \in [Runs -> [phase: Phases, ver: Nat, started: 0..MaxExecs]]
    BY DEF TypeInv, TypeOK, ClusterTypeOK, AgentRun
  <2>2. cr' = [cr EXCEPT ![m.run] = CrWritten(@, "new", 0)]
    BY <1>5, <1>1, <2>1 DEF CrCreated
  <2>3. Grown /\ \A r \in Runs : r # m.run => cr'[r] = cr[r]
    BY <1>1, <2>1, <2>2 DEF Grown, CrWritten
  <2>4. /\ \A n \in stream \intersect RunCompleted : n.run # m.run
        /\ \A d \in Controllers : Publishing(d) => ctl[d].run # m.run
    BY <1>1, <1>5, LiveIsOpen DEF Outcomes
  <2>5. VersionsCount' /\ CopiesLag'
    BY <1>2, <2>3, GrownKeepsCopies DEF CompletionInv
  <2>6. TasksLag'
    <3> SUFFICES ASSUME NEW d \in Controllers, Unwritten(d)
                 PROVE  /\ ctl[d].ver <= cr'[ctl[d].run].ver
                        /\ cr'[ctl[d].run].ver = ctl[d].ver
                             => cr'[ctl[d].run].phase \in LivePhases
      BY <1>2 DEF TasksLag, Unwritten, Current
    <3>1. ctl[d] \in Task
      BY DEF Unwritten, Idle, Down, TypeInv, TypeOK, ControllerTypeOK
    <3>2. ctl[d].run \in Runs /\ ctl[d].ver \in Nat
      BY <3>1 DEF Task
    <3>3. cr[ctl[d].run].ver \in Nat /\ cr'[ctl[d].run].ver \in Nat
      BY <3>2 DEF TypeInv, TypeOK, ClusterTypeOK, AgentRun
    <3> QED
      BY <2>3, <3>2, <3>3 DEF CompletionInv, TasksLag, Grown, Current
  <2>7. OutcomesHappened'
    BY <1>2 DEF CompletionInv, OutcomesHappened, HappenedAs
  <2>8. PublishersOwn'
    <3>1. \A d \in Controllers : Publishing(d) => ctl[d].run \in Runs
      BY DEF Publishing, Idle, Down, TypeInv, TypeOK, ControllerTypeOK, Task
    <3> QED
      BY <1>2, <2>3, <2>4, <3>1 DEF CompletionInv, PublishersOwn, Publishing
  <2>9. CompletionsAreTrue'
    <3>1. \A n \in stream \intersect RunCompleted : n.run \in Runs /\ n.run # m.run
      BY <2>4 DEF RunCompleted
    <3> QED
      BY <1>2, <2>3, <3>1 DEF CompletionInv, CompletionsAreTrue
  <2> QED
    BY <2>5, <2>6, <2>7, <2>8, <2>9 DEF CompletionInv
<1> QED
  BY <1>3, <1>4, <1>5

\* Publishing the event of the phase just written.
LEMMA PublishKeepsCompletions ==
  ASSUME TypeInv, TypeInv', CompletionInv, NEW c \in Controllers, PublishTransition(c)
  PROVE  CompletionInv'
<1>1. /\ UNCHANGED <<cr, job, cache, ended>> /\ SetCtl(c, Idle) /\ ctl[c].pc = "publish"
      /\ stream' = stream \union {Transition(ctl[c])}
  BY DEF PublishTransition, clusterVars, Bus!Publish
<1>2. /\ ctl[c] \in Task
      /\ ctl[c].exec \in Execs /\ ctl[c].phase \in {"running"} \union Outcomes
  BY <1>1 DEF Idle, Down, TypeInv, TypeOK, ControllerTypeOK, TasksNumbered
<1>3. ctl[c].run \in Runs
  BY <1>2 DEF Task
<1>4. /\ ctl'[c] = Idle /\ \A d \in Controllers : d # c => ctl'[d] = ctl[d]
  BY <1>1 DEF SetCtl, TypeInv, TypeOK, ControllerTypeOK
<1>5. Idle.pc = "idle"
  BY DEF Idle
<1>6. Grown
  BY <1>1 DEF Grown
<1>7. VersionsCount' /\ CopiesLag' /\ TasksLag'
  BY <1>1, <1>5, <1>6, GrownKeepsCopies, GrownKeepsTasks DEF CompletionInv
<1>8. OutcomesHappened'
  BY <1>1, <1>4, <1>5 DEF CompletionInv, OutcomesHappened, HappenedAs
<1>9. \A d \in Controllers : Publishing(d)' => d # c /\ Publishing(d) /\ ctl'[d] = ctl[d]
  BY <1>4, <1>5 DEF Publishing
<1>10. CASE ctl[c].phase \in Outcomes
  <2> DEFINE n == Completed(ctl[c].run, ctl[c].exec, ctl[c].phase)
  <2>1. /\ Transition(ctl[c]) = n /\ n \in RunCompleted
        /\ n.run = ctl[c].run /\ n.exec = ctl[c].exec /\ n.status = ctl[c].phase
    BY <1>2, <1>3, <1>10, TransitionTypes DEF Transition, Completed, Outcomes
  <2>2. Publishing(c)
    BY <1>1, <1>10 DEF Publishing
  <2>3. /\ cr[ctl[c].run].phase = ctl[c].phase
        /\ \A m \in stream \intersect RunCompleted : m.run # ctl[c].run
        /\ \A d \in Controllers : Publishing(d) /\ d # c => ctl[d].run # ctl[c].run
    BY <2>2 DEF CompletionInv, PublishersOwn
  <2>4. HappenedAs(ctl[c].run, ctl[c].exec, ctl[c].phase)
    BY <1>1, <1>10 DEF CompletionInv, OutcomesHappened
  <2> HIDE DEF n
  <2>5. PublishersOwn'
    <3> SUFFICES ASSUME NEW d \in Controllers, Publishing(d)'
        PROVE  /\ cr'[ctl'[d].run].phase = ctl'[d].phase
               /\ \A m \in stream' \intersect RunCompleted : m.run # ctl'[d].run
               /\ \A e \in Controllers : Publishing(e)' /\ ctl'[e].run = ctl'[d].run => e = d
      BY DEF PublishersOwn
    <3> QED
      BY <1>1, <1>9, <2>1, <2>3 DEF CompletionInv, PublishersOwn
  <2>6. CompletionsAreTrue'
    <3>1. [run |-> n.run, exec |-> n.exec, status |-> n.status] \in ended
      BY <2>1, <2>4 DEF HappenedAs
    <3>2. \A m \in stream' \intersect RunCompleted : m = n \/ (m \in stream /\ m.run # n.run)
      BY <1>1, <2>1, <2>3
    <3>3. \A m \in stream \intersect RunCompleted :
            /\ [run |-> m.run, exec |-> m.exec, status |-> m.status] \in ended
            /\ cr[m.run].phase = m.status
            /\ \A k \in stream \intersect RunCompleted : k.run = m.run => k = m
      BY DEF CompletionInv, CompletionsAreTrue
    <3> SUFFICES ASSUME NEW m \in stream' \intersect RunCompleted
                 PROVE  /\ [run |-> m.run, exec |-> m.exec, status |-> m.status] \in ended
                        /\ cr[m.run].phase = m.status
                        /\ \A k \in stream' \intersect RunCompleted : k.run = m.run => k = m
      BY <1>1 DEF CompletionsAreTrue
    <3>4. CASE m = n
      BY <2>1, <2>3, <3>1, <3>2, <3>4
    <3>5. CASE m \in stream /\ m.run # n.run
      BY <3>2, <3>3, <3>5
    <3> QED
      BY <3>2, <3>4, <3>5
  <2> QED
    BY <1>7, <1>8, <2>5, <2>6 DEF CompletionInv
<1>11. CASE ctl[c].phase \notin Outcomes
  <2>1. Transition(ctl[c]) \notin RunCompleted
    BY <1>2, <1>11 DEF Transition, Started, RunCompleted
  <2>2. PublishersOwn'
    BY <1>1, <1>9, <2>1 DEF CompletionInv, PublishersOwn
  <2>3. CompletionsAreTrue'
    BY <1>1, <2>1 DEF CompletionInv, CompletionsAreTrue
  <2> QED
    BY <1>7, <1>8, <2>2, <2>3 DEF CompletionInv
<1> QED
  BY <1>10, <1>11
\* What a replica starts from its caches.
LEMMA ReconcileKeepsCompletions ==
  ASSUME TypeInv, TypeInv', CompletionInv, NEW c \in Controllers, NEW r \in Runs,
         Reconcile(c, r)
  PROVE  CompletionInv'
<1> DEFINE seen == cache[c][r]
           phase == PhaseOf(seen.state, seen.phase)
<1>1. /\ UNCHANGED <<cr, job, cache, ended, stream>>
      /\ seen.phase \in LivePhases
  BY DEF Reconcile, clusterVars, busVars
<1>2. seen \in Copy
  BY DEF TypeInv, TypeOK, ControllerTypeOK
<1>3. /\ seen.ver <= cr[r].ver
      /\ cr[r].ver = seen.ver => cr[r].phase \in LivePhases
  BY <1>1 DEF CompletionInv, CopiesLag
<1>4. PICK pc \in {"create", "status"}, ph \in Phases :
        /\ SetCtl(c, [pc |-> pc, run |-> r, phase |-> ph, exec |-> seen.exec, ver |-> seen.ver])
        /\ pc = "status" /\ ph \in Outcomes => HappenedAs(r, seen.exec, ph)
  <2>1. "pending" \in Phases /\ phase \in Phases
    BY <1>2 DEF PhaseOf, Copy, Phases, LivePhases, Outcomes
  <2>2. CASE SetCtl(c, [pc |-> "create", run |-> r, phase |-> "pending",
                        exec |-> seen.exec, ver |-> seen.ver])
    BY <2>1, <2>2
  <2>3. CASE SetCtl(c, [pc |-> "status", run |-> r, phase |-> phase,
                        exec |-> seen.exec, ver |-> seen.ver])
    <3>1. phase \in Outcomes => phase = seen.state
      BY <1>1 DEF PhaseOf, LivePhases, Outcomes
    <3>2. phase \in Outcomes => HappenedAs(r, seen.exec, phase)
      BY <3>1 DEF CompletionInv, OutcomesHappened
    <3> HIDE DEF phase
    <3> QED
      BY <2>1, <2>3, <3>2
  <2> QED
    BY <2>2, <2>3 DEF Reconcile
<1> DEFINE t == [pc |-> pc, run |-> r, phase |-> ph, exec |-> seen.exec, ver |-> seen.ver]
<1>5. t \in Task
  BY <1>2 DEF Task, Copy
<1>6. t.pc = pc /\ t.run = r /\ t.phase = ph /\ t.exec = seen.exec /\ t.ver = seen.ver
  OBVIOUS
<1> HIDE DEF t, seen
<1>7. SetCtl(c, t)
  BY <1>4 DEF t
<1>8. /\ t \in Task \union {Idle, Down} /\ t.pc # "publish"
      /\ t.ver <= cr[t.run].ver
      /\ cr[t.run].ver = t.ver => cr[t.run].phase \in LivePhases
      /\ t.pc = "status" /\ t.phase \in Outcomes => HappenedAs(t.run, t.exec, t.phase)
      /\ \A q \in Runs : job'[q] = job[q]
  BY <1>1, <1>3, <1>4, <1>5, <1>6
<1> QED
  BY <1>1, <1>7, <1>8, TaskKeepsCompletions

\* An informer catches up, with a part of the copy or with all of it.
LEMMA CacheKeepsCompletions ==
  ASSUME TypeInv, TypeInv', CompletionInv, NEW c \in Controllers,
         UNCHANGED <<cr, job, ended, stream>>,
         \A d \in Controllers : d # c => cache'[d] = cache[d],
         \A r \in Runs :
           /\ \/ cache'[c][r].phase = cache[c][r].phase /\ cache'[c][r].ver = cache[c][r].ver
              \/ cache'[c][r].phase = cr[r].phase /\ cache'[c][r].ver = cr[r].ver
              \/ cache'[c][r].phase = "absent" /\ cache'[c][r].ver = 0
           /\ \/ cache'[c][r].state = cache[c][r].state /\ cache'[c][r].exec = cache[c][r].exec
              \/ cache'[c][r].state = job[r].state /\ cache'[c][r].exec = job[r].exec
              \/ cache'[c][r].state = "absent",
         ctl' = ctl \/ SetCtl(c, Idle) \/ SetCtl(c, Down)
  PROVE  CompletionInv'
<1>1. Idle.pc = "idle" /\ Down.pc = "down"
  BY DEF Idle, Down
<1>2. \A d \in Controllers : ctl'[d].pc \notin {"idle", "down"} => ctl'[d] = ctl[d]
  BY <1>1 DEF SetCtl, TypeInv, TypeOK, ControllerTypeOK
<1>3. CopiesLag'
  <2> SUFFICES ASSUME NEW d \in Controllers, NEW r \in Runs
               PROVE  /\ cache'[d][r].ver <= cr[r].ver
                      /\ cache'[d][r].ver = cr[r].ver => cache'[d][r].phase = cr[r].phase
    BY DEF CopiesLag
  <2>1. cr[r].ver \in Nat
    BY DEF TypeInv, TypeOK, ClusterTypeOK, AgentRun
  <2> QED
    BY <2>1 DEF CompletionInv, VersionsCount, CopiesLag
<1>4. TasksLag'
  BY <1>2 DEF CompletionInv, TasksLag, Unwritten, Current
<1>5. OutcomesHappened'
  <2>1. \A d \in Controllers : \A r \in Runs : cache'[d][r].state \in Outcomes
          => HappenedAs(r, cache'[d][r].exec, cache'[d][r].state)
    BY DEF CompletionInv, OutcomesHappened, Outcomes
  <2> QED
    BY <1>2, <2>1 DEF CompletionInv, OutcomesHappened, HappenedAs
<1>6. PublishersOwn'
  BY <1>2 DEF CompletionInv, PublishersOwn, Publishing
<1>7. VersionsCount' /\ CompletionsAreTrue'
  BY DEF CompletionInv, VersionsCount, CompletionsAreTrue
<1> QED
  BY <1>3, <1>4, <1>5, <1>6, <1>7 DEF CompletionInv
LEMMA ControllerKeepsCompletions ==
  ASSUME TypeInv, TypeInv', CompletionInv, Controller
  PROVE  CompletionInv'
<1>1. Idle.pc = "idle" /\ Down.pc = "down" /\ \A c \in Controllers : ctl[c].pc # "idle"
        /\ ctl[c].pc # "down" => ctl[c] \in Task
  BY DEF Idle, Down, TypeInv, TypeOK, ControllerTypeOK
<1>2. ASSUME NEW c \in Controllers, SetCtl(c, Idle), UNCHANGED <<cr, cache, ended, stream>>,
             \A r \in Runs : job'[r] = job[r] \/ job'[r].state \notin Outcomes
      PROVE  CompletionInv'
  BY <1>1, <1>2, TaskKeepsCompletions
<1>3. ASSUME NEW r \in Runs, NewJob(r)
      PROVE  \A q \in Runs : job'[q] = job[q] \/ job'[q].state \notin Outcomes
  BY <1>3 DEF NewJob, Outcomes, TypeInv, TypeOK, ClusterTypeOK
<1>4. ASSUME NEW c \in Controllers, CreateJob(c) \/ CreateJobReplyLost(c)
      PROVE  CompletionInv'
  <2> DEFINE t == [ctl[c] EXCEPT !.pc = "pending"]
  <2>1. /\ UNCHANGED <<cr, cache, ended, stream>> /\ ctl[c].pc = "create" /\ ctl[c] \in Task
        /\ NewJob(ctl[c].run) \/ job' = job
        /\ SetCtl(c, t) \/ SetCtl(c, Idle)
    BY <1>1, <1>4 DEF CreateJob, CreateJobReplyLost, busVars
  <2>2. t \in Task /\ t.pc = "pending" /\ t.ver = ctl[c].ver /\ t.run = ctl[c].run
        /\ ctl[c].run \in Runs
    BY <2>1 DEF Task
  <2>3. \A q \in Runs : job'[q] = job[q] \/ job'[q].state \notin Outcomes
    BY <1>3, <2>1, <2>2
  <2>4. /\ ctl[c].ver <= cr[ctl[c].run].ver
        /\ cr[ctl[c].run].ver = ctl[c].ver => cr[ctl[c].run].phase \in LivePhases
    BY <2>1 DEF CompletionInv, TasksLag, Unwritten, Current
  <2> HIDE DEF t
  <2> QED
    BY <1>2, <2>1, <2>2, <2>3, <2>4, TaskKeepsCompletions
<1>5. ASSUME NEW c \in Controllers,
             WritePending(c) \/ WriteStatus(c) \/ WriteStatusReplyLost(c)
      PROVE  CompletionInv'
  <2>1. UNCHANGED <<job, cache, ended, stream>> /\ ctl[c].pc \in {"pending", "status"}
    BY <1>5 DEF WritePending, WriteStatus, WriteStatusReplyLost, busVars
  <2>2. \/ UNCHANGED cr /\ SetCtl(c, Idle)
        \/ /\ Current(ctl[c]) /\ StatusWritten(ctl[c])
           /\ \/ SetCtl(c, Idle)
              \/ ctl[c].pc = "status" /\ SetCtl(c, ToPublish(ctl[c]))
    BY <1>5 DEF WritePending, WriteStatus, WriteStatusReplyLost
  <2> QED
    BY <1>2, <2>1, <2>2, WriteKeepsCompletions
<1>6. ASSUME NEW c \in Controllers, KubeWriteFails(c) \/ PublishTransitionFails(c)
      PROVE  CompletionInv'
  BY <1>2, <1>6 DEF KubeWriteFails, PublishTransitionFails, clusterVars, busVars
<1>7. ASSUME NEW c \in Controllers, NEW r \in Runs, SyncAgentRun(c, r) \/ SyncJob(c, r)
      PROVE  CompletionInv'
  <2>1. /\ UNCHANGED <<cr, job, ended, stream, ctl>>
        /\ \A d \in Controllers : d # c => cache'[d] = cache[d]
        /\ \A q \in Runs : q # r => cache'[c][q] = cache[c][q]
    BY <1>7 DEF SyncAgentRun, SyncJob, clusterVars, busVars, TypeInv, TypeOK, ControllerTypeOK
  <2>2. \/ cache'[c][r] = [phase |-> cr[r].phase, ver |-> cr[r].ver,
                           state |-> cache[c][r].state, exec |-> cache[c][r].exec]
        \/ cache'[c][r] = [phase |-> cache[c][r].phase, ver |-> cache[c][r].ver,
                           state |-> job[r].state, exec |-> job[r].exec]
    BY <1>7 DEF SyncAgentRun, SyncJob, TypeInv, TypeOK, ControllerTypeOK
  <2> QED
    BY <2>1, <2>2, CacheKeepsCompletions
<1>8. ASSUME NEW c \in Controllers, Elect(c) PROVE CompletionInv'
  BY <1>8, CompletionFrame DEF Elect, clusterVars, busVars
<1>9. ASSUME NEW c \in Controllers, ControllerCrash(c) \/ ControllerRestart(c)
      PROVE  CompletionInv'
  <2>1. /\ UNCHANGED <<cr, job, ended, stream>>
        /\ SetCtl(c, Idle) \/ SetCtl(c, Down)
        /\ \A d \in Controllers : d # c => cache'[d] = cache[d]
    BY <1>9 DEF ControllerCrash, ControllerRestart, clusterVars, busVars, TypeInv, TypeOK,
                ControllerTypeOK
  <2>2. cache'[c] = NothingCached \/ cache'[c] = [r \in Runs |-> Listed(r)]
    BY <1>9 DEF ControllerCrash, ControllerRestart, TypeInv, TypeOK, ControllerTypeOK
  <2>3. ASSUME NEW q \in Runs
        PROVE  /\ \/ cache'[c][q].phase = cr[q].phase /\ cache'[c][q].ver = cr[q].ver
                  \/ cache'[c][q].phase = "absent" /\ cache'[c][q].ver = 0
               /\ \/ cache'[c][q].state = job[q].state /\ cache'[c][q].exec = job[q].exec
                  \/ cache'[c][q].state = "absent"
    <3>1. CASE cache'[c] = NothingCached
      <4>1. cache'[c][q] = [phase |-> "absent", ver |-> 0, state |-> "absent", exec |-> 0]
        BY <3>1 DEF NothingCached
      <4> QED
        BY <4>1
    <3>2. CASE cache'[c] = [r \in Runs |-> Listed(r)]
      <4>1. cache'[c][q] = [phase |-> cr[q].phase, ver |-> cr[q].ver,
                            state |-> job[q].state, exec |-> job[q].exec]
        BY <3>2 DEF Listed
      <4> QED
        BY <4>1
    <3> QED
      BY <2>2, <3>1, <3>2
  <2> QED
    BY <2>1, <2>3, CacheKeepsCompletions
<1>10. ASSUME NEW r \in Runs, CollectJob(r) PROVE CompletionInv'
  <2>1. /\ UNCHANGED <<cr, cache, ctl, ended, stream>>
        /\ \A q \in Runs : job'[q] = job[q] \/ job'[q].state \notin Outcomes
    BY <1>10 DEF CollectJob, GcJob, ctlVars, busVars, Outcomes, TypeInv, TypeOK, ClusterTypeOK
  <2> QED
    BY <2>1 DEF CompletionInv, VersionsCount, CopiesLag, TasksLag, OutcomesHappened,
      PublishersOwn, CompletionsAreTrue, Unwritten, Publishing, HappenedAs, Current
<1> QED
  BY <1>4, <1>5, <1>6, <1>7, <1>8, <1>9, <1>10, DispatchKeepsCompletions,
     ReconcileKeepsCompletions, PublishKeepsCompletions
  DEF Controller, ControllerNext, ControllerStep, DispatchWork, ReconcileWork, InformerWork

LEMMA CompletionsInitially == Init => CompletionInv
BY DEF Init, Bus!BusInit, ClusterInit, ControllerInit, NothingCached, Idle, Outcomes,
       CompletionInv, VersionsCount, CopiesLag, TasksLag, OutcomesHappened, PublishersOwn,
       CompletionsAreTrue, Unwritten, Publishing

LEMMA CompletionsPreserved ==
  TypeInv /\ TypeInv' /\ CompletionInv /\ [Next]_vars => CompletionInv'
<1> SUFFICES ASSUME TypeInv, TypeInv', CompletionInv, [Next]_vars PROVE CompletionInv'
  OBVIOUS
<1>1. CASE UNCHANGED vars
  BY <1>1, CompletionFrame DEF vars, clusterVars, ctlVars, busVars
<1> QED
  BY <1>1, OthersKeepCompletions, KubernetesKeepsCompletions, ControllerKeepsCompletions
  DEF Next

LEMMA InvariantHolds == Spec => [](TypeInv /\ CompletionInv)
<1>1. Init => TypeInv /\ CompletionInv
  BY TypesInitially, CompletionsInitially
<1>2. TypeInv /\ CompletionInv /\ [Next]_vars => (TypeInv /\ CompletionInv)'
  BY TypesPreserved, CompletionsPreserved
<1> QED
  BY <1>1, <1>2, PTL DEF Spec

\* Every run.completed event reports an execution that really ended that way,
\* agrees with its AgentRun and is the only one of its run, with any number
\* of controller replicas, stale caches, crashes and lost replies.
THEOREM CompletionsHold == Spec => []CompletionsAreTrue
<1>1. CompletionInv => CompletionsAreTrue
  BY DEF CompletionInv
<1> QED
  BY <1>1, InvariantHolds, PTL

\* No replica publishes the completion of a run that another has published or
\* is about to publish: a run.completed is sent once, however many replicas
\* reconcile its run and however often they restart.
THEOREM CompletionsSentOnce == Spec => []CompletionsPublishedOnce
<1>1. CompletionInv => CompletionsPublishedOnce
  BY DEF CompletionInv, PublishersOwn, Publishing, CompletionsPublishedOnce
<1> QED
  BY <1>1, InvariantHolds, PTL
=============================================================================
