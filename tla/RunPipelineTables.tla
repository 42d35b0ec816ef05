------------------------- MODULE RunPipelineTables -------------------------
(***************************************************************************)
(* What RunPipeline keeps true, for every set of runs, agents, controllers *)
(* and workers, every bound and every set of faults: settled messages are  *)
(* applied, broadcasts are durable, a run is metered once, the rows        *)
(* implement RunLifecycle, start times agree and Secrets outlive rows;     *)
(* and, with the faults that would break it left out, a run executes once, *)
(* its completion is published, and what is acked is metered.              *)
(***************************************************************************)
EXTENDS RunPipelineProofs

-----------------------------------------------------------------------------
(* Whatever exists downstream of a row was preceded by it: a request in    *)
(* progress, an AgentRun, a handled run.requested, an event about to be    *)
(* published.  Rows are never removed, only marked deleted, and AgentRuns  *)
(* are never deleted, so the order of creation is kept for good.           *)

RequestsInserted ==
  \A r \in Runs : stage[r] \in InProgress => rows[r].status # "absent"

ObjectsInserted ==
  \A r \in Runs : cr[r].phase # "absent" => rows[r].status # "absent"

PublishersCreated ==
  \A c \in Controllers : ctl[c].pc = "publish" => cr[ctl[c].run].phase # "absent"

DispatchedCreated ==
  \A c \in Controllers : \A m \in disp[c] : cr[m.run].phase # "absent"

RequestsApplied ==
  \A m \in settled \intersect RunRequested : cr[m.run].phase # "absent"

\* What a replica is about to write or publish is a phase.
TasksPhased == \A c \in Controllers : Busy(c) => ctl[c].phase # "absent"

OriginInv ==
  /\ RequestsInserted /\ ObjectsInserted /\ TasksPhased /\ PublishersCreated
  /\ DispatchedCreated /\ RequestsApplied

TableInv == OriginInv /\ ReflectInv

LEMMA TypesGiveStatus ==
  ASSUME TypeInv PROVE StatusInv
BY DEF TypeInv, TypeOK, HeldIsStored, StatusInv, HandlersHoldStored

\* Completions of one run agree because there is only one.
LEMMA CompletionsAgree ==
  ASSUME CompletionInv PROVE OneVerdict
BY DEF CompletionInv, CompletionsAreTrue, OneVerdict

-----------------------------------------------------------------------------
(* What a controller step does to the AgentRuns and to the bus, whatever   *)
(* the step: it creates the AgentRun of a stored request, writes the task  *)
(* of a replica whose copy is current, publishes a replica's transition or *)
(* settles a request, and does nothing else to them.                       *)

ObjectsMove ==
  \/ cr' = cr
  \/ \E m \in RunRequested : m \in stream /\ cr' = [cr EXCEPT ![m.run] = CrCreated(@)]
  \/ \E c \in Controllers : Unwritten(c) /\ Current(ctl[c]) /\ StatusWritten(ctl[c])

TransitionsMove ==
  \/ stream' = stream
  \/ \E c \in Controllers : ctl[c].pc = "publish" /\ stream' = stream \union {Transition(ctl[c])}

RequestsMove ==
  settled' = settled \/ \E m \in RunRequested : settled' = settled \union {m}

LEMMA ControllerMoves ==
  ASSUME Controller
  PROVE  ObjectsMove /\ TransitionsMove /\ RequestsMove /\ secrets' = secrets
<1> DEFINE Moves == ObjectsMove /\ TransitionsMove /\ RequestsMove /\ secrets' = secrets
<1>1. SUFFICES ASSUME ControllerNext PROVE Moves
  BY DEF Controller
<1>2. ASSUME UNCHANGED <<cr, stream, settled, secrets>> PROVE Moves
  BY <1>2 DEF ObjectsMove, TransitionsMove, RequestsMove
<1>3. ASSUME NEW c \in Controllers, NEW m \in RunRequested,
             Dispatch(c, m) \/ DispatchFails(c, m) \/ DispatchAck(c, m)
      PROVE  Moves
  <2>1. UNCHANGED <<stream, secrets>> /\ (settled' = settled \/ settled' = settled \union {m})
    BY <1>3 DEF Dispatch, DispatchFails, DispatchAck, clusterVars, Bus!Deliver, Bus!Ack, Bus!Nak
  <2>2. cr' = cr \/ (m \in stream /\ cr' = [cr EXCEPT ![m.run] = CrCreated(@)])
    BY <1>3 DEF Dispatch, DispatchFails, DispatchAck, clusterVars, Bus!Deliver, Bus!Deliverable
  <2>3. ObjectsMove
    BY <2>2 DEF ObjectsMove
  <2> QED
    BY <2>1, <2>3 DEF TransitionsMove, RequestsMove
<1>4. ASSUME NEW c \in Controllers, WritePending(c) \/ WriteStatus(c) \/ WriteStatusReplyLost(c)
      PROVE  Moves
  <2>1. UNCHANGED <<stream, settled, secrets>> /\ Unwritten(c)
    BY <1>4 DEF WritePending, WriteStatus, WriteStatusReplyLost, busVars, Unwritten
  <2>2. cr' = cr \/ (Current(ctl[c]) /\ StatusWritten(ctl[c]))
    BY <1>4 DEF WritePending, WriteStatus, WriteStatusReplyLost
  <2> QED
    BY <2>1, <2>2 DEF ObjectsMove, TransitionsMove, RequestsMove
<1>5. ASSUME NEW c \in Controllers, PublishTransition(c) PROVE Moves
  <2>1. /\ UNCHANGED <<cr, settled, secrets>> /\ ctl[c].pc = "publish"
        /\ stream' = stream \union {Transition(ctl[c])}
    BY <1>5 DEF PublishTransition, clusterVars, Bus!Publish
  <2> QED
    BY <2>1 DEF ObjectsMove, TransitionsMove, RequestsMove
<1>6. ASSUME NEW c \in Controllers, NEW r \in Runs,
             Reconcile(c, r) \/ SyncAgentRun(c, r) \/ SyncJob(c, r)
      PROVE  Moves
  BY <1>2, <1>6 DEF Reconcile, SyncAgentRun, SyncJob, clusterVars, busVars
<1>7. ASSUME NEW c \in Controllers,
             CreateJob(c) \/ CreateJobReplyLost(c) \/ KubeWriteFails(c) \/ PublishTransitionFails(c)
      PROVE  Moves
  BY <1>2, <1>7
  DEF CreateJob, CreateJobReplyLost, KubeWriteFails, PublishTransitionFails, clusterVars, busVars
<1>8. ASSUME NEW c \in Controllers, Elect(c) \/ ControllerCrash(c) \/ ControllerRestart(c)
      PROVE  Moves
  BY <1>2, <1>8 DEF Elect, ControllerCrash, ControllerRestart, clusterVars, busVars
<1>9. ASSUME NEW r \in Runs, CollectJob(r) PROVE Moves
  BY <1>2, <1>9 DEF CollectJob, GcJob, busVars
<1> HIDE DEF Moves
<1> QED
  BY <1>1, <1>3, <1>4, <1>5, <1>6, <1>7, <1>8, <1>9
  DEF ControllerNext, ControllerStep, DispatchWork, ReconcileWork, InformerWork

-----------------------------------------------------------------------------
(* The AgentRuns.                                                          *)

\* How an AgentRun may change: it appears, or its phase advances from a live
\* one.  Only a replica whose task is current writes, and a current task was
\* made of a live object.
PhasesAdvance ==
  \A r \in Runs :
    /\ cr[r].phase # "absent" => cr'[r].phase # "absent"
    /\ cr[r].phase \in Outcomes => cr'[r].phase = cr[r].phase

LEMMA CreateAdvances ==
  ASSUME TypeInv, NEW r \in Runs, cr' = [cr EXCEPT ![r] = CrCreated(@)]
  PROVE  PhasesAdvance /\ cr'[r].phase # "absent"
BY DEF TypeInv, TypeOK, ClusterTypeOK, AgentRun, CrCreated, CrWritten, PhasesAdvance, Outcomes

LEMMA WriteAdvances ==
  ASSUME TypeInv, TasksLag, NEW c \in Controllers, ctl[c] \in Task, Unwritten(c),
         ctl[c].phase # "absent", Current(ctl[c]), StatusWritten(ctl[c])
  PROVE  PhasesAdvance /\ cr'[ctl[c].run].phase # "absent"
<1>1. ctl[c].run \in Runs /\ cr[ctl[c].run].phase \in LivePhases
  BY DEF TasksLag, Task
<1>2. "absent" \notin LivePhases /\ LivePhases \intersect Outcomes = {}
  BY DEF LivePhases, Outcomes
<1>3. \A r \in Runs : r # ctl[c].run => cr'[r] = cr[r]
  BY <1>1 DEF StatusWritten, TypeInv, TypeOK, ClusterTypeOK
<1>4. cr'[ctl[c].run].phase = ctl[c].phase
  BY <1>1 DEF StatusWritten, CrWritten, TypeInv, TypeOK, ClusterTypeOK
<1> QED
  BY <1>1, <1>2, <1>3, <1>4 DEF PhasesAdvance

LEMMA SameObjectsAdvance ==
  ASSUME cr' = cr PROVE PhasesAdvance
BY DEF PhasesAdvance

\* A replica's task becomes t, and nothing is dispatched or settled.
LEMMA TaskKeepsOrigin ==
  ASSUME TypeInv, OriginInv, PhasesAdvance, NEW c \in Controllers, NEW t, SetCtl(c, t),
         \/ t \in {Idle, Down}
         \/ t.phase # "absent" /\ (t.pc = "publish" => cr'[t.run].phase # "absent"),
         \A d \in Controllers : disp'[d] \subseteq disp[d],
         \A r \in Runs : cr'[r].phase # "absent" => cr[r].phase # "absent",
         UNCHANGED <<rows, stage, settled>>
  PROVE  OriginInv'
<1>1. \A m \in RunRequested : m.run \in Runs
  BY DEF RunRequested
<1>2. /\ ctl'[c] = t /\ \A d \in Controllers : d # c => ctl'[d] = ctl[d]
      /\ \A d \in Controllers : ctl[d].pc = "publish" => ctl[d].run \in Runs
      /\ \A d \in Controllers : disp[d] \subseteq RunRequested
  BY DEF SetCtl, TypeInv, TypeOK, ControllerTypeOK, Task, Idle, Down
<1>3. RequestsInserted' /\ ObjectsInserted'
  BY DEF OriginInv, RequestsInserted, ObjectsInserted
<1>4. TasksPhased'
  BY <1>2 DEF OriginInv, TasksPhased, Busy, Idle, Down
<1>5. PublishersCreated'
  BY <1>2 DEF OriginInv, PublishersCreated, PhasesAdvance, Idle, Down
<1>6. DispatchedCreated' /\ RequestsApplied'
  BY <1>1, <1>2 DEF OriginInv, DispatchedCreated, RequestsApplied, PhasesAdvance
<1> QED
  BY <1>3, <1>4, <1>5, <1>6 DEF OriginInv

\* The controller creates AgentRuns for messages of the stream, which are
\* about inserted runs, and publishes about AgentRuns that exist.
LEMMA ControllerKeepsOrigin ==
  ASSUME TypeInv, CompletionInv, TableInv, Controller
  PROVE  OriginInv' /\ PhasesAdvance
<1> DEFINE Kept == OriginInv' /\ PhasesAdvance
<1>1. SUFFICES ASSUME ControllerNext PROVE Kept
  BY DEF Controller
<1>2. UNCHANGED <<rows, stage>>
  BY DEF Controller, storeVars, apiVars
<1>3. \A c \in Controllers : Busy(c) => ctl[c] \in Task /\ ctl[c].phase # "absent"
  BY DEF TableInv, OriginInv, TasksPhased, TypeInv, TypeOK, ControllerTypeOK, Busy, Idle, Down
<1>4. ASSUME NEW c \in Controllers, NEW t, SetCtl(c, t), UNCHANGED <<disp, settled, cr>>,
             t \in {Idle, Down} \/ (t.phase # "absent" /\ t.pc # "publish")
      PROVE  Kept
  BY <1>2, <1>4, SameObjectsAdvance, TaskKeepsOrigin DEF TableInv
<1>5. ASSUME UNCHANGED <<disp, settled, cr, ctl>> PROVE Kept
  BY <1>2, <1>5, SameObjectsAdvance
  DEF TableInv, OriginInv, RequestsInserted, ObjectsInserted, TasksPhased, PublishersCreated,
      DispatchedCreated, RequestsApplied, Busy
<1>6. ASSUME NEW c \in Controllers, NEW m \in RunRequested,
             Dispatch(c, m) \/ DispatchFails(c, m)
      PROVE  Kept
  <2>1. m \in stream /\ m.run \in Runs /\ UNCHANGED <<settled, ctl>>
    BY <1>6 DEF Dispatch, DispatchFails, ctlVars, Bus!Deliver, Bus!Deliverable, RunRequested
  <2>2. CASE DispatchFails(c, m) /\ UNCHANGED cr
    BY <1>5, <2>1, <2>2 DEF DispatchFails, ctlVars
  <2>3. CASE cr' = [cr EXCEPT ![m.run] = CrCreated(@)]
    <3>1. PhasesAdvance /\ cr'[m.run].phase # "absent" /\ rows[m.run].status # "absent"
      BY <2>1, <2>3, CreateAdvances DEF TableInv, ReflectInv, Inserted
    <3>2. \A r \in Runs : cr'[r].phase # "absent" => r = m.run \/ cr[r].phase # "absent"
      BY <2>1, <2>3 DEF TypeInv, TypeOK, ClusterTypeOK
    <3>3. \A d \in Controllers : /\ disp'[d] \subseteq disp[d] \union {m}
                                 /\ ctl[d].pc = "publish" => ctl[d].run \in Runs
                                 /\ \A n \in disp[d] : n.run \in Runs
      BY <1>6 DEF Dispatch, DispatchFails, ctlVars, TypeInv, TypeOK, ControllerTypeOK,
                  RunRequested, Task, Idle, Down
    <3>4. RequestsInserted' /\ ObjectsInserted'
      BY <1>2, <3>1, <3>2 DEF TableInv, OriginInv, RequestsInserted, ObjectsInserted
    <3>5. TasksPhased' /\ PublishersCreated'
      BY <2>1, <3>1, <3>3
      DEF TableInv, OriginInv, TasksPhased, PublishersCreated, PhasesAdvance, Busy
    <3>6. DispatchedCreated'
      BY <3>1, <3>3 DEF TableInv, OriginInv, DispatchedCreated, PhasesAdvance
    <3>7. RequestsApplied'
      BY <2>1, <3>1
      DEF TableInv, OriginInv, RequestsApplied, PhasesAdvance, RunRequested
    <3> QED
      BY <3>1, <3>4, <3>5, <3>6, <3>7 DEF OriginInv
  <2> QED
    BY <1>6, <2>2, <2>3 DEF Dispatch, DispatchFails
<1>7. ASSUME NEW c \in Controllers, NEW m \in RunRequested, DispatchAck(c, m) PROVE Kept
  <2>1. /\ UNCHANGED <<cr, ctl>> /\ m \in disp[c]
        /\ \A d \in Controllers : disp'[d] \subseteq disp[d]
        /\ settled' \subseteq settled \union {m}
    BY <1>7 DEF DispatchAck, clusterVars, Bus!Ack, Bus!Nak, TypeInv, TypeOK, ControllerTypeOK
  <2> QED
    BY <1>2, <2>1, SameObjectsAdvance
    DEF TableInv, OriginInv, RequestsInserted, ObjectsInserted, TasksPhased, PublishersCreated,
        DispatchedCreated, RequestsApplied, Busy
<1>8. ASSUME NEW c \in Controllers, NEW r \in Runs, Reconcile(c, r) PROVE Kept
  <2> DEFINE seen == cache[c][r]
             task(pc, ph) == [pc |-> pc, run |-> r, phase |-> ph,
                              exec |-> seen.exec, ver |-> seen.ver]
  <2>1. /\ UNCHANGED <<disp, settled, cr>> /\ seen.phase # "absent"
        /\ PhaseOf(seen.state, seen.phase) # "absent"
    BY <1>8 DEF Reconcile, busVars, clusterVars, LivePhases, PhaseOf, Outcomes
  <2>2. \A pc, ph : task(pc, ph).pc = pc /\ task(pc, ph).phase = ph
    OBVIOUS
  <2>3. PICK pc \in {"create", "status"}, ph \in {"pending", PhaseOf(seen.state, seen.phase)} :
          SetCtl(c, task(pc, ph))
    BY <1>8 DEF Reconcile
  <2>4. task(pc, ph).pc # "publish" /\ task(pc, ph).phase # "absent"
    BY <2>1, <2>2
  <2> HIDE DEF task
  <2> QED
    BY <1>4, <2>1, <2>3, <2>4
<1>9. ASSUME NEW c \in Controllers, CreateJob(c) \/ CreateJobReplyLost(c) PROVE Kept
  <2> DEFINE t == [ctl[c] EXCEPT !.pc = "pending"]
  <2>1. ctl[c].pc = "create" /\ UNCHANGED <<disp, settled, cr>>
    BY <1>9 DEF CreateJob, CreateJobReplyLost, busVars
  <2>2. t.pc = "pending" /\ t.phase # "absent"
    BY <1>3, <2>1 DEF Busy, Task
  <2>3. SetCtl(c, t) \/ SetCtl(c, Idle)
    BY <1>9 DEF CreateJob, CreateJobReplyLost
  <2> HIDE DEF t
  <2> QED
    BY <1>4, <2>1, <2>2, <2>3
<1>10. ASSUME NEW c \in Controllers,
              WritePending(c) \/ WriteStatus(c) \/ WriteStatusReplyLost(c)
       PROVE  Kept
  <2> DEFINE t == ToPublish(ctl[c])
  <2>1. ctl[c].pc \in {"pending", "status"} /\ UNCHANGED <<disp, settled>>
    BY <1>10 DEF WritePending, WriteStatus, WriteStatusReplyLost, busVars
  <2>2. ctl[c] \in Task /\ ctl[c].phase # "absent" /\ Unwritten(c)
    BY <1>3, <2>1 DEF Busy, Unwritten
  <2>3. t.run = ctl[c].run /\ t.phase = ctl[c].phase
    BY <2>2 DEF ToPublish, Task
  <2>4. CASE UNCHANGED cr /\ SetCtl(c, Idle)
    BY <1>4, <2>1, <2>4
  <2>5. CASE Current(ctl[c]) /\ StatusWritten(ctl[c]) /\ (SetCtl(c, Idle) \/ SetCtl(c, t))
    <3>1. PhasesAdvance /\ cr'[ctl[c].run].phase # "absent"
      BY <2>2, <2>5, WriteAdvances DEF CompletionInv
    <3>2. \A r \in Runs : cr'[r].phase # "absent" => cr[r].phase # "absent"
      <4>1. \A r \in Runs : r # ctl[c].run => cr'[r] = cr[r]
        BY <2>2, <2>5 DEF StatusWritten, TypeInv, TypeOK, ClusterTypeOK
      <4>2. cr[ctl[c].run].phase # "absent"
        BY <2>2, <2>5 DEF CompletionInv, TasksLag, LivePhases
      <4> QED
        BY <4>1, <4>2
    <3>3. \A d \in Controllers : disp'[d] \subseteq disp[d]
      BY <2>1
    <3> HIDE DEF t
    <3>4. PICK u \in {Idle, t} : SetCtl(c, u)
      BY <2>5
    <3>5. u \in {Idle, Down} \/ (u.phase # "absent" /\ (u.pc = "publish" => cr'[u.run].phase # "absent"))
      BY <2>2, <2>3, <3>1
    <3> QED
      BY <1>2, <2>1, <3>1, <3>2, <3>3, <3>4, <3>5, TaskKeepsOrigin DEF TableInv
  <2> QED
    BY <1>10, <2>4, <2>5 DEF WritePending, WriteStatus, WriteStatusReplyLost
<1>11. ASSUME NEW c \in Controllers,
              KubeWriteFails(c) \/ PublishTransition(c) \/ PublishTransitionFails(c)
       PROVE  Kept
  BY <1>4, <1>11 DEF KubeWriteFails, PublishTransition, PublishTransitionFails,
     clusterVars, busVars, Bus!Publish
<1>12. ASSUME NEW c \in Controllers, NEW r \in Runs, SyncAgentRun(c, r) \/ SyncJob(c, r)
       PROVE  Kept
  BY <1>5, <1>12 DEF SyncAgentRun, SyncJob, clusterVars, busVars
<1>13. ASSUME NEW c \in Controllers, Elect(c) PROVE Kept
  BY <1>5, <1>13 DEF Elect, clusterVars, busVars
<1>14. ASSUME NEW c \in Controllers, ControllerCrash(c) \/ ControllerRestart(c) PROVE Kept
  <2>1. /\ UNCHANGED <<cr, settled>>
        /\ SetCtl(c, Idle) \/ SetCtl(c, Down)
        /\ \A d \in Controllers : disp'[d] \subseteq disp[d]
    BY <1>14 DEF ControllerCrash, ControllerRestart, clusterVars, busVars, TypeInv, TypeOK,
                 ControllerTypeOK
  <2>2. PICK t \in {Idle, Down} : SetCtl(c, t)
    BY <2>1
  <2> QED
    BY <1>2, <2>1, <2>2, SameObjectsAdvance, TaskKeepsOrigin DEF TableInv
<1>15. ASSUME NEW r \in Runs, CollectJob(r) PROVE Kept
  BY <1>5, <1>15 DEF CollectJob, GcJob, ctlVars, busVars
<1> QED
  BY <1>1, <1>6, <1>7, <1>8, <1>9, <1>10, <1>11, <1>12, <1>13, <1>14, <1>15
  DEF ControllerNext, ControllerStep, DispatchWork, ReconcileWork, InformerWork

\* The controller publishes only about runs that were inserted, and settles
\* only its own requests.
LEMMA ControllerKeepsTables ==
  ASSUME TypeInv, TypeInv', CompletionInv, CompletionInv', TableInv, Controller
  PROVE  TableInv'
<1>1. OriginInv'
  BY ControllerKeepsOrigin
<1>2. UNCHANGED rows /\ UNCHANGED statusVars
  BY DEF Controller, storeVars
<1>4. \A m \in settled' \intersect StatusMsg : m \in settled
  <2>1. \A m \in RunRequested : m \notin StatusMsg
    BY DEF RunRequested, StatusMsg, RunStarted, RunCompleted
  <2>2. settled' = settled \/ \E m \in RunRequested : settled' = settled \union {m}
    BY ControllerMoves DEF RequestsMove
  <2> QED
    BY <2>1, <2>2
<1>5. \/ stream' = stream
      \/ \E c \in Controllers : ctl[c].pc = "publish" /\ stream' = stream \union {Transition(ctl[c])}
  BY ControllerMoves DEF TransitionsMove
<1>6. \A m \in stream' : m \in stream \/ rows[m.run].status # "absent"
  <2> SUFFICES ASSUME NEW c \in Controllers, ctl[c].pc = "publish"
               PROVE  rows[Transition(ctl[c]).run].status # "absent"
    BY <1>5
  <2>1. ctl[c].run \in Runs /\ Transition(ctl[c]).run = ctl[c].run
    BY DEF TypeInv, TypeOK, ControllerTypeOK, Task, Idle, Down, Transition, Started, Completed
  <2> QED
    BY <2>1 DEF TableInv, OriginInv, PublishersCreated, ObjectsInserted
<1>7. OneVerdict'
  BY DEF CompletionInv, CompletionsAreTrue, OneVerdict
<1> QED
  BY <1>1, <1>2, <1>4, <1>5, <1>6, <1>7, PublishKeepsReflection DEF TableInv

-----------------------------------------------------------------------------
(* The api, the status handlers and the rest.                              *)

\* Rows that advance keep the order of creation, as long as nothing else
\* that it is about moves.
LEMMA RowsKeepOrigin ==
  ASSUME OriginInv, RowsAdvance, UNCHANGED <<cr, ctl, disp>>,
         \A m \in settled' \intersect RunRequested : m \in settled,
         \A r \in Runs : stage'[r] \in InProgress =>
           stage[r] \in InProgress \/ rows'[r].status # "absent"
  PROVE  OriginInv'
BY DEF OriginInv, RowsAdvance, RequestsInserted, ObjectsInserted, TasksPhased, PublishersCreated,
       DispatchedCreated, RequestsApplied, Busy

LEMMA ApiKeepsTables ==
  ASSUME TypeInv, TableInv, OneVerdict', Api PROVE TableInv' /\ RowsAdvance
<1> DEFINE Kept == TableInv' /\ RowsAdvance
<1>1. SUFFICES ASSUME ApiNext PROVE Kept
  BY DEF Api
<1>2. UNCHANGED <<cr, ctl, disp, settled>> /\ UNCHANGED statusVars
  BY DEF Api, ApiNext, ManualTrigger, WebhookTrigger, CronFire, Trigger, ProjectSecrets,
     ProjectFails, PublishRequest, PublishFails, Accept, RequestCrash, DeleteAgentRequest,
     clusterVars, busVars, ctlVars, Bus!Publish
<1>3. StatusInv
  BY TypesGiveStatus
<1>4. StoreTypeOK /\ ApiTypeOK
  BY DEF TypeInv, TypeOK
<1>5. ASSUME NEW r \in Runs, Trigger(r) PROVE Kept
  <2>1. CreateRow(r) /\ stream' = stream
    BY <1>5 DEF Trigger, busVars
  <2>2. RowsAdvance
    BY <1>4, <2>1, CreateRowAdvances
  <2>3. \A q \in Runs : stage'[q] \in InProgress => stage[q] \in InProgress \/ rows'[q].status # "absent"
    BY <1>4, <1>5 DEF Trigger, To, CreateRow, ApiTypeOK, StoreTypeOK, Row
  <2>4. \A q \in Runs : rows'[q].status \in Outcomes => rows'[q].status = rows[q].status
    BY <1>4, <2>1 DEF CreateRow, StoreTypeOK, Row, Outcomes
  <2>5. OriginInv'
    BY <1>2, <2>2, <2>3, RowsKeepOrigin DEF TableInv
  <2>6. ReflectInv'
    BY <1>2, <1>3, <2>1, <2>2, <2>4, OthersKeepReflection DEF TableInv
  <2> QED
    BY <2>2, <2>5, <2>6 DEF TableInv
<1>6. ASSUME NEW a \in Agents, DeleteAgentRequest(a) PROVE Kept
  <2>1. DeleteAgent(a) /\ stream' = stream /\ stage' = stage
    BY <1>6 DEF DeleteAgentRequest, busVars, apiVars
  <2>2. RowsAdvance
    BY <1>4, <2>1, DeleteAgentAdvances
  <2>3. \A q \in Runs : rows'[q].status \in Outcomes => rows'[q].status = rows[q].status
    BY <1>4, <2>1 DEF DeleteAgent, StoreTypeOK, Row, Outcomes
  <2>4. OriginInv'
    BY <1>2, <2>1, <2>2, RowsKeepOrigin DEF TableInv
  <2>5. ReflectInv'
    BY <1>2, <1>3, <2>1, <2>2, <2>3, OthersKeepReflection DEF TableInv
  <2> QED
    BY <2>2, <2>4, <2>5 DEF TableInv
<1>7. ASSUME NEW r \in Runs, rows' = rows, stage[r] \in InProgress,
             stream' = stream \/ stream' = stream \union {Requested(r)},
             \A q \in Runs : stage'[q] \in InProgress => stage[q] \in InProgress
      PROVE  Kept
  <2>1. RowsAdvance
    BY <1>7, SameRowsAdvance
  <2>2. OriginInv'
    BY <1>2, <1>7, <2>1, RowsKeepOrigin DEF TableInv
  <2>3. \A m \in stream' : m \in stream \/ rows[m.run].status # "absent"
    BY <1>7 DEF TableInv, OriginInv, RequestsInserted, Requested
  <2>4. ReflectInv'
    BY <1>2, <1>7, <2>3, PublishKeepsReflection DEF TableInv
  <2> QED
    BY <2>1, <2>2, <2>4 DEF TableInv
<1>8. ASSUME NEW r \in Runs, NEW s \in Stages, To(r, s), stage[r] \in InProgress
      PROVE  \A q \in Runs : stage'[q] \in InProgress => stage[q] \in InProgress
  BY <1>4, <1>8 DEF To, ApiTypeOK
<1>9. ASSUME NEW r \in Runs, ProjectSecrets(r) \/ ProjectFails(r) \/ Accept(r) \/ RequestCrash(r)
      PROVE  Kept
  <2>1. rows' = rows /\ stage[r] \in InProgress /\ stream' = stream
    BY <1>9 DEF ProjectSecrets, ProjectFails, Accept, RequestCrash, InProgress, storeVars, busVars
  <2>2. PICK s \in Stages : To(r, s)
    BY <1>9 DEF ProjectSecrets, ProjectFails, Accept, RequestCrash, Stages
  <2> QED
    BY <1>7, <1>8, <2>1, <2>2
<1>10. ASSUME NEW r \in Runs, PublishRequest(r) \/ PublishFails(r) PROVE Kept
  <2>1. /\ rows' = rows /\ stage[r] \in InProgress
        /\ stream' = stream \/ stream' = stream \union {Requested(r)}
    BY <1>10 DEF PublishRequest, PublishFails, InProgress, storeVars, busVars, Bus!Publish
  <2>2. PICK s \in Stages : To(r, s)
    BY <1>10 DEF PublishRequest, PublishFails, Stages
  <2> QED
    BY <1>7, <1>8, <2>1, <2>2
<1> QED
  BY <1>1, <1>5, <1>6, <1>9, <1>10 DEF ApiNext, ManualTrigger, WebhookTrigger, CronFire

LEMMA StatusKeepsTables ==
  ASSUME TypeInv, TableInv, StatusConsumers PROVE TableInv' /\ RowsAdvance
<1>1. StatusNext /\ UNCHANGED <<cr, ctl, disp, stage>>
  BY DEF StatusConsumers, clusterVars, ctlVars, apiVars
<1>2. ReflectInv' /\ RowsAdvance
  BY <1>1, TypesGiveStatus, WorkersKeepReflection DEF TableInv
<1>3. \A m \in settled' \intersect RunRequested : m \in settled
  <2>1. \A m \in RunRequested : m \notin StatusMsg
    BY DEF RunRequested, StatusMsg, RunStarted, RunCompleted
  <2>2. settled' = settled \/ \E w \in Workers : work[w].pc = "ack" /\ settled' = settled \union {work[w].msg}
    BY <1>1 DEF StatusNext, WorkerStep, HandlerWork, Handle, HandleFails, Receive, Meter,
                Broadcast, Acknowledge, WorkerCrash, busVars, Bus!Deliver, Bus!Ack, Bus!Nak
  <2>3. \A w \in Workers : work[w].pc = "ack" => work[w].msg \in StatusMsg
    BY DEF TypeInv, TypeOK, StatusTypeOK, Handling, Free
  <2> QED
    BY <2>1, <2>2, <2>3
<1>4. OriginInv'
  BY <1>1, <1>2, <1>3, RowsKeepOrigin DEF TableInv
<1> QED
  BY <1>2, <1>4 DEF TableInv

-----------------------------------------------------------------------------
(* Metering: only a handler of run.completed writes run.end and            *)
(* run.seconds, and by then the row has ended.                             *)

SecondsComplete ==
  \A w \in Workers : work[w].pc = "seconds" => work[w].msg.subject = "run.completed"

MeterInv == SecondsComplete /\ MeteredOnce

LEMMA SameUsageMetered ==
  ASSUME TypeInv, MeterInv, RowsAdvance, UNCHANGED usage PROVE MeteredOnce'
BY DEF MeterInv, MeteredOnce, RowsAdvance

LEMMA MeterKeepsMetering ==
  ASSUME TypeInv, TableInv, MeterInv, NEW w \in Workers, Meter(w), rows' = rows
  PROVE  MeteredOnce'
<1>1. work[w] \in Handling /\ work[w].msg \in StatusMsg /\ work[w] # Free
  BY DEF Meter, TypeInv, TypeOK, StatusTypeOK, Handling, Free
<1> DEFINE q == work[w].msg.run
           j == MeterKind(work[w])
<1>2. q \in Runs /\ j \in Kinds
  BY <1>1, MessageFacts DEF MeterKind, Kinds
<1>3. j \in {"run.end", "run.seconds"} => rows[q].status \in Outcomes \union {"deleted"}
  <2> SUFFICES ASSUME j \in {"run.end", "run.seconds"}
               PROVE  rows[q].status \in Outcomes \union {"deleted"}
    OBVIOUS
  <2>1. work[w].msg.subject = "run.completed"
    BY <1>1, MessageFacts DEF MeterKind, MeterInv, SecondsComplete
  <2>2. Reflected(work[w].msg)
    BY <1>1 DEF TableInv, ReflectInv, HandledReflected
  <2> QED
    BY <1>1, <2>1, <2>2, MessageFacts DEF Reflected, ReflectedIn
<1>4. usage \in [Runs -> [Kinds -> Nat]]
  BY DEF TypeInv, TypeOK, StoreTypeOK
<1>5. usage' = usage \/ usage' = [usage EXCEPT ![q][j] = 1]
  BY DEF Meter, RecordRun, storeVars
<1> HIDE DEF q, j
<1>6. \A r \in Runs, k \in Kinds : usage'[r][k] = usage[r][k] \/ (r = q /\ k = j /\ usage'[r][k] = 1)
  BY <1>2, <1>4, <1>5
<1>7. {"run.end", "run.seconds"} \subseteq Kinds
  BY DEF Kinds
<1> SUFFICES ASSUME NEW r \in Runs
             PROVE  /\ \A k \in Kinds : usage'[r][k] <= 1
                    /\ usage'[r]["run.end"] + usage'[r]["run.seconds"] > 0
                         => rows[r].status \in Outcomes \union {"deleted"}
  BY DEF MeteredOnce
<1>8. \A k \in Kinds : usage[r][k] \in Nat /\ usage[r][k] <= 1
  BY <1>4 DEF MeterInv, MeteredOnce
<1>9. \A k \in Kinds : usage'[r][k] \in Nat /\ usage'[r][k] <= 1
  BY <1>6, <1>8
<1>10. usage'[r]["run.end"] + usage'[r]["run.seconds"] > 0 =>
          \E k \in {"run.end", "run.seconds"} : usage'[r][k] > 0
  BY <1>7, <1>9
<1>11. ASSUME NEW k \in {"run.end", "run.seconds"}, usage'[r][k] > 0
       PROVE  rows[r].status \in Outcomes \union {"deleted"}
  <2>1. CASE r = q /\ k = j
    BY <1>3, <2>1
  <2>2. CASE usage'[r][k] = usage[r][k]
    <3>1. usage[r]["run.end"] + usage[r]["run.seconds"] > 0
      BY <1>7, <1>8, <1>11, <2>2
    <3> QED
      BY <3>1 DEF MeterInv, MeteredOnce
  <2> QED
    BY <1>6, <1>7, <2>1, <2>2
<1> QED
  BY <1>9, <1>10, <1>11

LEMMA StatusKeepsMetering ==
  ASSUME TypeInv, TableInv, MeterInv, StatusConsumers PROVE MeterInv'
<1>1. SUFFICES ASSUME NEW w \in Workers, WorkerStep(w) PROVE MeterInv'
  BY DEF StatusConsumers, StatusNext
<1>2. RowsAdvance
  BY StatusKeepsTables
<1>3. ASSUME NEW t, SetWork(w, t), t.pc = "seconds" => t.msg.subject = "run.completed"
      PROVE  SecondsComplete'
  BY <1>3 DEF SetWork, MeterInv, SecondsComplete, TypeInv, TypeOK, StatusTypeOK
<1>4. CASE Meter(w)
  <2>1. rows' = rows
    BY <1>4 DEF Meter, RecordRun, storeVars
  <2>2. MeteredOnce'
    BY <1>4, <2>1, MeterKeepsMetering
  <2> DEFINE t == [work[w] EXCEPT !.pc = AfterMeter(work[w])]
  <2>3. work[w] \in Handling
    BY <1>4 DEF Meter, TypeInv, TypeOK, StatusTypeOK, Free
  <2>4. SetWork(w, t)
    BY <1>4 DEF Meter
  <2>5. t.pc = "seconds" => t.msg.subject = "run.completed"
    BY <2>3 DEF Handling, AfterMeter
  <2> HIDE DEF t
  <2> QED
    BY <1>3, <2>2, <2>4, <2>5 DEF MeterInv
<1>5. CASE ~Meter(w)
  <2>1. UNCHANGED usage
    BY <1>1, <1>5 DEF WorkerStep, HandlerWork, Handle, HandleFails, Apply, MarkStarted, MarkCompleted,
       Broadcast, Acknowledge, WorkerCrash, storeVars
  <2>2. MeteredOnce'
    BY <1>2, <2>1, SameUsageMetered
  <2>3. work' = work \/ \E t : SetWork(w, t) /\ t.pc # "seconds"
    <3>1. Free.pc = "free"
      BY DEF Free
    <3>2. ASSUME NEW m \in StatusMsg, Handle(w, m) \/ HandleFails(w, m) PROVE <2>3
      <4>1. [pc |-> "meter", msg |-> m].pc = "meter"
        OBVIOUS
      <4> QED
        BY <3>2, <4>1 DEF Handle, HandleFails, statusVars
    <3>3. CASE Broadcast(w)
      <4> DEFINE t == [work[w] EXCEPT !.pc = "ack"]
      <4>1. work[w] \in Handling
        BY <3>3 DEF Broadcast, TypeInv, TypeOK, StatusTypeOK, Free
      <4>2. t.pc = "ack" /\ SetWork(w, t)
        BY <3>3, <4>1 DEF Broadcast, Handling
      <4> HIDE DEF t
      <4> QED
        BY <4>2
    <3> QED
      BY <1>1, <1>5, <3>1, <3>2, <3>3 DEF WorkerStep, HandlerWork, Acknowledge, WorkerCrash
  <2>4. SecondsComplete'
    BY <1>3, <2>3 DEF MeterInv, SecondsComplete
  <2> QED
    BY <2>2, <2>4 DEF MeterInv
<1> QED
  BY <1>4, <1>5

-----------------------------------------------------------------------------
(* The invariant, and what follows from it.                                *)

PipelineInv == TypeInv /\ CompletionInv /\ TableInv /\ MeterInv

LEMMA TablesInitially == Init => TableInv /\ MeterInv
<1> SUFFICES ASSUME Init PROVE TableInv /\ MeterInv
  OBVIOUS
<1>1. OriginInv
  BY DEF Init, Bus!BusInit, ClusterInit, ControllerInit, ApiInit, Idle, OriginInv, InProgress,
     RequestsInserted, ObjectsInserted, TasksPhased, Busy, PublishersCreated,
     DispatchedCreated, RequestsApplied
<1>2. ReflectInv
  BY DEF Init, StoreInit, Bus!BusInit, StatusInit, ReflectInv, Inserted, OneVerdict, Decided,
     HandledReflected, AnnouncedReflected, SettledReflected, Outcomes
<1>3. MeterInv
  <2>1. \A r \in Runs, k \in Kinds : usage[r][k] = 0
    BY DEF Init, StoreInit
  <2>2. MeteredOnce
    <3> SUFFICES ASSUME NEW r \in Runs
                 PROVE  /\ \A k \in Kinds : usage[r][k] <= 1
                        /\ ~(usage[r]["run.end"] + usage[r]["run.seconds"] > 0)
      BY DEF MeteredOnce
    <3>1. usage[r]["run.end"] = 0 /\ usage[r]["run.seconds"] = 0
      BY <2>1 DEF Kinds
    <3> QED
      BY <2>1, <3>1
  <2>3. SecondsComplete
    BY DEF Init, StatusInit, Free, SecondsComplete
  <2> QED
    BY <2>2, <2>3 DEF MeterInv
<1> QED
  BY <1>1, <1>2, <1>3 DEF TableInv

\* A step that moves neither the tables nor what they are compared with.
LEMMA TablesFrame ==
  ASSUME TableInv, MeterInv,
         UNCHANGED <<rows, usage, stage, cr, ctl, disp, stream, settled, work, announced>>
  PROVE  TableInv' /\ MeterInv'
BY DEF TableInv, OriginInv, RequestsInserted, ObjectsInserted, TasksPhased, Busy,
   PublishersCreated, DispatchedCreated, RequestsApplied, ReflectInv, Inserted, OneVerdict,
   Decided, HandledReflected, AnnouncedReflected, SettledReflected, Reflected, ReflectedIn,
   MeterInv, MeteredOnce, SecondsComplete

LEMMA TablesPreserved ==
  PipelineInv /\ TypeInv' /\ CompletionInv' /\ [Next]_vars => TableInv' /\ MeterInv'
<1> SUFFICES ASSUME PipelineInv, TypeInv', CompletionInv', [Next]_vars
             PROVE  TableInv' /\ MeterInv'
  OBVIOUS
<1> USE DEF PipelineInv
<1>1. CASE Api
  <2>1. OneVerdict'
    BY DEF CompletionInv, CompletionsAreTrue, OneVerdict
  <2>2. TableInv' /\ RowsAdvance
    BY <1>1, <2>1, ApiKeepsTables
  <2>3. UNCHANGED <<usage, work>>
    BY <1>1 DEF Api, ApiNext, ManualTrigger, WebhookTrigger, CronFire, Trigger, ProjectSecrets,
       ProjectFails, PublishRequest, PublishFails, Accept, RequestCrash, DeleteAgentRequest,
       CreateRow, DeleteAgent, storeVars, statusVars
  <2> QED
    BY <2>2, <2>3, SameUsageMetered DEF MeterInv, SecondsComplete
<1>2. CASE Controller
  <2>1. TableInv'
    BY <1>2, ControllerKeepsTables
  <2> QED
    BY <1>2, <2>1 DEF Controller, storeVars, statusVars, MeterInv, MeteredOnce, SecondsComplete
<1>3. CASE StatusConsumers
  BY <1>3, StatusKeepsTables, StatusKeepsMetering
<1>4. CASE Kubernetes
  BY <1>4, TablesFrame
  DEF Kubernetes, JobStart, JobFinish, storeVars, busVars, apiVars, ctlVars, statusVars
<1>5. CASE JanitorSecrets
  BY <1>5, TablesFrame
  DEF JanitorSecrets, GcSecret, storeVars, busVars, apiVars, ctlVars, statusVars
<1>6. CASE UNCHANGED vars
  BY <1>6, TablesFrame
  DEF vars, storeVars, busVars, clusterVars, apiVars, ctlVars, statusVars
<1> QED
  BY <1>1, <1>2, <1>3, <1>4, <1>5, <1>6 DEF Next

LEMMA PipelineInvHolds == Spec => []PipelineInv
<1>1. Init => PipelineInv
  BY TypesInitially, CompletionsInitially, TablesInitially DEF PipelineInv
<1>2. PipelineInv /\ [Next]_vars => PipelineInv'
  BY TypesPreserved, CompletionsPreserved, TablesPreserved DEF PipelineInv
<1> QED
  BY <1>1, <1>2, PTL DEF Spec

\* A message is acknowledged only when its effect is in place: an AgentRun
\* for a run.requested, the row for a run.started or run.completed.
THEOREM SettledMessagesApplied == Spec => []SettledIsApplied
<1>1. PipelineInv => SettledIsApplied
  <2> SUFFICES ASSUME PipelineInv, NEW m \in settled
               PROVE  CASE m.subject = "run.requested" -> cr[m.run].phase # "absent"
                        [] m.subject = "run.started" -> rows[m.run].status \notin {"absent", "pending"}
                        [] OTHER -> rows[m.run].status \in {m.status, "deleted"}
    BY DEF SettledIsApplied
  <2>1. m \in RunMsg
    BY DEF PipelineInv, TypeInv, TypeOK, Bus!BusTypeOK
  <2>2. CASE m \in RunRequested
    BY <2>2 DEF PipelineInv, TableInv, OriginInv, RequestsApplied, RunRequested
  <2>3. CASE m \in StatusMsg
    BY <2>3, MessageFacts
    DEF PipelineInv, TableInv, ReflectInv, SettledReflected, Reflected, ReflectedIn
  <2> QED
    BY <2>1, <2>2, <2>3 DEF RunMsg, StatusMsg
<1> QED
  BY <1>1, PipelineInvHolds, PTL

\* A transition is broadcast only when the table shows it, so a client that
\* is told of it and reads the run finds it.
THEOREM AnnouncementsDurable == Spec => []AnnouncedIsDurable
<1>1. PipelineInv => AnnouncedIsDurable
  BY DEF PipelineInv, TableInv, ReflectInv, AnnouncedReflected, Reflected, ReflectedIn,
         AnnouncedIsDurable
<1> QED
  BY <1>1, PipelineInvHolds, PTL

\* However often a run's events are delivered, and to however many replicas,
\* it is metered once per kind, and its end only when its row has ended.
THEOREM RunsMeteredOnce == Spec => []MeteredOnce
<1>1. PipelineInv => MeteredOnce
  BY DEF PipelineInv, MeterInv
<1> QED
  BY <1>1, PipelineInvHolds, PTL

-----------------------------------------------------------------------------
(* The refinement: every step is a step of RunLifecycle or a stutter.      *)

LifecycleStep == [Lifecycle!Next]_<<[r \in Runs |-> rows[r].status], [r \in Runs |-> Verdict(r)]>>

LEMMA Stutters ==
  ASSUME \A r \in Runs : rows'[r].status = rows[r].status,
         \A r \in Runs : cr'[r].phase = cr[r].phase \/ {cr[r].phase, cr'[r].phase} \intersect Outcomes = {}
  PROVE  LifecycleStep
BY DEF LifecycleStep, Verdict

LEMMA ApiImplements ==
  ASSUME TypeInv, Api PROVE LifecycleStep
<1>1. ApiNext /\ UNCHANGED cr
  BY DEF Api, ApiNext, ManualTrigger, WebhookTrigger, CronFire, Trigger, ProjectSecrets,
     ProjectFails, PublishRequest, PublishFails, Accept, RequestCrash, DeleteAgentRequest, clusterVars
<1>2. StoreTypeOK
  BY DEF TypeInv, TypeOK
<1>3. ASSUME NEW r \in Runs, Trigger(r) PROVE LifecycleStep
  <2>1. Lifecycle!Submit(r)
    BY <1>1, <1>2, <1>3 DEF Trigger, CreateRow, Lifecycle!Submit, Verdict, StoreTypeOK, Row
  <2> QED
    BY <2>1 DEF LifecycleStep, Lifecycle!Next
<1>4. ASSUME NEW a \in Agents, DeleteAgentRequest(a) PROVE LifecycleStep
  <2>1. PICK S \in SUBSET Runs : S = {r \in Runs : AgentOf[r] = a /\ RowExists(r)}
    OBVIOUS
  <2>2. Lifecycle!Discard(S)
    BY <1>1, <1>2, <1>4, <2>1
    DEF DeleteAgentRequest, DeleteAgent, Lifecycle!Discard, Verdict, RowExists, StoreTypeOK, Row
  <2> QED
    BY <2>2 DEF LifecycleStep, Lifecycle!Next
<1>5. ASSUME rows' = rows PROVE LifecycleStep
  BY <1>1, <1>5, Stutters
<1> QED
  BY <1>1, <1>3, <1>4, <1>5
  DEF ApiNext, ManualTrigger, WebhookTrigger, CronFire, ProjectSecrets, ProjectFails,
      PublishRequest, PublishFails, Accept, RequestCrash, storeVars

\* The handlers: a row goes from pending to running, or ends as a completion
\* says, which is what the AgentRun says.
LEMMA StatusImplements ==
  ASSUME TypeInv, CompletionInv, TableInv, StatusConsumers PROVE LifecycleStep
<1>1. StatusNext /\ UNCHANGED cr
  BY DEF StatusConsumers, clusterVars
<1>2. StoreTypeOK
  BY DEF TypeInv, TypeOK
<1>3. ASSUME rows' = rows PROVE LifecycleStep
  BY <1>1, <1>3, Stutters
<1>4. ASSUME NEW w \in Workers, NEW m \in StatusMsg, Handle(w, m) PROVE LifecycleStep
  <2>1. m.run \in Runs /\ m \in stream /\ Apply(m)
    BY <1>4, MessageFacts DEF Handle, Receive, Bus!Deliver, Bus!Deliverable
  <2>2. CASE m.subject = "run.started"
    <3>1. rows' = [rows EXCEPT ![m.run] = StartedRow(rows[m.run], m.exec)]
      BY <2>1, <2>2 DEF Apply, MarkStarted
    <3>2. CASE rows[m.run].status = "pending"
      <4>1. Lifecycle!Begin(m.run)
        BY <1>1, <1>2, <2>1, <3>1, <3>2 DEF StartedRow, Lifecycle!Begin, Verdict, StoreTypeOK, Row
      <4> QED
        BY <2>1, <4>1 DEF LifecycleStep, Lifecycle!Next
    <3>3. CASE rows[m.run].status # "pending"
      <4>1. \A r \in Runs : rows'[r].status = rows[r].status
        BY <1>2, <2>1, <3>1, <3>3 DEF StartedRow, StoreTypeOK, Row
      <4> QED
        BY <1>1, <4>1, Stutters
    <3> QED
      BY <3>2, <3>3
  <2>3. CASE m.subject = "run.completed"
    <3>1. rows' = [rows EXCEPT ![m.run] = CompletedRow(rows[m.run], m.status)]
      BY <2>1, <2>3 DEF Apply, MarkCompleted
    <3>2. m.status \in Outcomes /\ cr[m.run].phase = m.status
      BY <2>1, <2>3, MessageFacts DEF CompletionInv, CompletionsAreTrue
    <3>3. CASE rows[m.run].status \in {"pending", "running"}
      <4>1. Lifecycle!Finish(m.run)
        BY <1>1, <1>2, <2>1, <3>1, <3>2, <3>3
        DEF CompletedRow, Lifecycle!Finish, Lifecycle!Verdicts, Verdict, StoreTypeOK, Row, Outcomes
      <4> QED
        BY <2>1, <4>1 DEF LifecycleStep, Lifecycle!Next
    <3>4. CASE rows[m.run].status \notin {"pending", "running"}
      <4>1. \A r \in Runs : rows'[r].status = rows[r].status
        BY <1>2, <2>1, <3>1, <3>4 DEF CompletedRow, StoreTypeOK, Row
      <4> QED
        BY <1>1, <4>1, Stutters
    <3> QED
      BY <3>3, <3>4
  <2> QED
    BY <2>2, <2>3, MessageFacts
<1> QED
  BY <1>1, <1>3, <1>4
  DEF StatusNext, WorkerStep, HandlerWork, HandleFails, Meter, RecordRun, Broadcast,
      Acknowledge, WorkerCrash, storeVars

\* The controller: the write of a terminal phase is the decision.
LEMMA ControllerImplements ==
  ASSUME TypeInv, CompletionInv, TableInv, Controller PROVE LifecycleStep
<1>1. UNCHANGED rows
  BY DEF Controller, storeVars
<1>2. ASSUME cr' = cr PROVE LifecycleStep
  BY <1>1, <1>2, Stutters
<1>3. ASSUME NEW r \in Runs, cr' = [cr EXCEPT ![r] = CrCreated(@)] PROVE LifecycleStep
  <2>1. \A q \in Runs : cr'[q].phase = cr[q].phase \/ {cr[q].phase, cr'[q].phase} \intersect Outcomes = {}
    BY <1>3 DEF CrCreated, CrWritten, TypeInv, TypeOK, ClusterTypeOK, Outcomes
  <2> QED
    BY <1>1, <2>1, Stutters
<1>4. ASSUME NEW c \in Controllers, Unwritten(c), Current(ctl[c]), StatusWritten(ctl[c])
      PROVE  LifecycleStep
  <2> DEFINE r == ctl[c].run
  <2>1. ctl[c] \in Task /\ r \in Runs /\ cr[r].phase \in LivePhases
    BY <1>4 DEF CompletionInv, TasksLag, Unwritten, TypeInv, TypeOK, ControllerTypeOK, Idle, Down, Task
  <2>2. rows[r].status # "absent"
    BY <2>1 DEF TableInv, OriginInv, ObjectsInserted, LivePhases
  <2>3. cr'[r].phase = ctl[c].phase /\ \A q \in Runs : q # r => cr'[q] = cr[q]
    BY <1>4, <2>1 DEF StatusWritten, CrWritten, TypeInv, TypeOK, ClusterTypeOK
  <2> HIDE DEF r
  <2>4. LivePhases \intersect Outcomes = {}
    BY DEF LivePhases, Outcomes
  <2>5. CASE ctl[c].phase \notin Outcomes
    BY <1>1, <2>1, <2>3, <2>4, <2>5, Stutters
  <2>6. CASE ctl[c].phase \in Outcomes
    <3>1. \A q \in Runs : Verdict(q)' = IF q = r THEN ctl[c].phase ELSE Verdict(q)
      BY <2>3, <2>6 DEF Verdict
    <3>2. Verdict(r) = "undecided"
      BY <2>1, <2>4 DEF Verdict
    <3>3. Lifecycle!Decide(r)
      BY <1>1, <2>1, <2>2, <2>6, <3>1, <3>2 DEF Lifecycle!Decide, Lifecycle!Verdicts, Outcomes
    <3> QED
      BY <2>1, <3>3 DEF LifecycleStep, Lifecycle!Next
  <2> QED
    BY <2>5, <2>6
<1>5. ObjectsMove
  BY ControllerMoves
<1> QED
  BY <1>2, <1>3, <1>4, <1>5 DEF RunRequested, ObjectsMove

\* RunPipeline implements RunLifecycle: whatever is lost, repeated, late or
\* swapped, and however stale the controllers' caches, a row moves forward
\* only and ends with the verdict its AgentRun holds.
THEOREM ImplementsRunLifecycle == Spec => ImplementsLifecycle
<1>1. Init => Lifecycle!Init
  BY DEF Init, StoreInit, ClusterInit, Lifecycle!Init, Verdict, Outcomes
<1>2. PipelineInv /\ [Next]_vars => LifecycleStep
  <2> SUFFICES ASSUME PipelineInv, [Next]_vars PROVE LifecycleStep
    OBVIOUS
  <2>1. CASE Kubernetes \/ JanitorSecrets \/ UNCHANGED vars
    <3>1. rows' = rows /\ cr' = cr
      BY <2>1 DEF Kubernetes, JobStart, JobFinish, JanitorSecrets, GcSecret, vars, storeVars, clusterVars
    <3> QED
      BY <3>1, Stutters
  <2> QED
    BY <2>1, ApiImplements, StatusImplements, ControllerImplements DEF Next, PipelineInv
<1> QED
  BY <1>1, <1>2, PipelineInvHolds, PTL DEF Spec, ImplementsLifecycle, Lifecycle!Spec, LifecycleStep

-----------------------------------------------------------------------------
(* Start times.  A start time, once written to an AgentRun, is never       *)
(* moved, so whatever was made of it (a task that publishes it, an event   *)
(* in the stream, the row) still agrees with the object; and a run is      *)
(* announced as started only with the time its AgentRun holds.             *)

RunningStamped == \A r \in Runs : cr[r].phase = "running" => cr[r].started # 0

AbsentUnstamped == \A r \in Runs : cr[r].phase = "absent" => cr[r].started = 0

\* The write that follows Create(Job) is of "pending" and nothing else.
CreatesPending ==
  \A c \in Controllers : ctl[c].pc \in {"create", "pending"} => ctl[c].phase = "pending"

StartsPublished ==
  \A c \in Controllers : ctl[c].pc = "publish" /\ ctl[c].phase = "running"
    => cr[ctl[c].run].started = ctl[c].exec

StartsStored ==
  \A m \in stream \intersect RunStarted : cr[m.run].started = m.exec

StartInv ==
  /\ RunningStamped /\ AbsentUnstamped /\ CreatesPending
  /\ StartsPublished /\ StartsStored /\ StartTimesAgree

StampsKept == \A r \in Runs : cr[r].started # 0 => cr'[r].started = cr[r].started

LEMMA SameStamps ==
  ASSUME StartInv, cr' = cr
  PROVE  StampsKept /\ RunningStamped' /\ AbsentUnstamped'
BY DEF StartInv, StampsKept, RunningStamped, AbsentUnstamped

LEMMA CreateKeepsStamps ==
  ASSUME TypeInv, StartInv, NEW r \in Runs, cr' = [cr EXCEPT ![r] = CrCreated(@)]
  PROVE  StampsKept /\ RunningStamped' /\ AbsentUnstamped'
BY DEF TypeInv, TypeOK, ClusterTypeOK, AgentRun, CrCreated, CrWritten,
       StartInv, StampsKept, RunningStamped, AbsentUnstamped

\* A status write stamps the execution its task read, or keeps the stamp.
LEMMA WriteStamps ==
  ASSUME TypeInv, StartInv, NEW c \in Controllers, ctl[c] \in Task,
         ctl[c].pc \in {"pending", "status"}, ctl[c].phase # "absent", StatusWritten(ctl[c])
  PROVE  /\ StampsKept /\ RunningStamped' /\ AbsentUnstamped'
         /\ ctl[c].pc = "status" /\ ctl[c].phase = "running"
              => cr'[ctl[c].run].started = StartOf(ctl[c])
<1> DEFINE q == ctl[c].run
           s == StartOf(ctl[c])
<1>1. q \in Runs
  BY DEF Task
<1>2. \A r \in Runs : r # q => cr'[r] = cr[r]
  BY <1>1 DEF StatusWritten, TypeInv, TypeOK, ClusterTypeOK
<1>3. cr[q].started # 0 => s = cr[q].started
  BY DEF StartOf
<1>4. ctl[c].phase = "running" => s # 0
  <2> SUFFICES ASSUME ctl[c].phase = "running" PROVE s # 0
    OBVIOUS
  <2>1. ctl[c].pc = "status"
    BY DEF StartInv, CreatesPending
  <2>2. ctl[c].exec # 0
    BY <2>1, ExecsAssumption DEF TypeInv, TasksNumbered, Execs
  <2> QED
    BY <2>1, <2>2 DEF StartOf
<1>5. CASE cr[q].phase = ctl[c].phase
  <2>1. cr'[q] = cr[q]
    BY <1>1, <1>5 DEF StatusWritten, TypeInv, TypeOK, ClusterTypeOK
  <2> QED
    BY <1>1, <1>2, <1>3, <1>5, <2>1
    DEF StartInv, StampsKept, RunningStamped, AbsentUnstamped
<1>6. CASE cr[q].phase # ctl[c].phase
  <2>1. cr'[q].phase = ctl[c].phase /\ cr'[q].started = s
    BY <1>1, <1>6 DEF StatusWritten, CrWritten, TypeInv, TypeOK, ClusterTypeOK
  <2> HIDE DEF s
  <2> QED
    BY <1>1, <1>2, <1>3, <1>4, <2>1
    DEF StartInv, StampsKept, RunningStamped, AbsentUnstamped, s
<1> QED
  BY <1>5, <1>6

\* Whatever was made of a start time still agrees with it.
LEMMA StampsAgree ==
  ASSUME TypeInv, StartInv, StampsKept,
         \A m \in stream' \intersect RunStarted : m \in stream \/ cr'[m.run].started = m.exec,
         \A r \in Runs : \/ rows'[r].started_at = rows[r].started_at
                         \/ rows'[r].started_at = cr'[r].started
  PROVE  StartsStored' /\ StartTimesAgree'
<1>1. \A m \in RunStarted : m.run \in Runs /\ m.exec # 0
  BY ExecsAssumption DEF RunStarted, Execs
<1>2. StartsStored'
  BY <1>1 DEF StartInv, StartsStored, StampsKept
<1>3. StartTimesAgree'
  BY DEF StartInv, StartTimesAgree, StampsKept
<1> QED
  BY <1>2, <1>3

\* A replica's task becomes t.
LEMMA TaskKeepsStamps ==
  ASSUME TypeInv, StartInv, StampsKept, NEW c \in Controllers, NEW t, SetCtl(c, t),
         t.pc \in {"create", "pending"} => t.phase = "pending",
         t.pc = "publish" /\ t.phase = "running" => cr'[t.run].started = t.exec
  PROVE  CreatesPending' /\ StartsPublished'
<1>1. ctl'[c] = t /\ \A d \in Controllers : d # c => ctl'[d] = ctl[d]
  BY DEF SetCtl, TypeInv, TypeOK, ControllerTypeOK
<1>2. CreatesPending'
  BY <1>1 DEF StartInv, CreatesPending
<1>3. \A d \in Controllers : ctl[d].pc = "publish" => ctl[d].run \in Runs /\ ctl[d].exec # 0
  <2> SUFFICES ASSUME NEW d \in Controllers, ctl[d].pc = "publish"
               PROVE  ctl[d].run \in Runs /\ ctl[d].exec # 0
    OBVIOUS
  <2>1. ctl[d] \in Task
    BY DEF TypeInv, TypeOK, ControllerTypeOK, Idle, Down
  <2>2. ctl[d].exec \in Execs
    BY DEF TypeInv, TasksNumbered
  <2> QED
    BY <2>1, <2>2, ExecsAssumption DEF Task, Execs
<1>4. StartsPublished'
  BY <1>1, <1>3 DEF StartInv, StartsPublished, StampsKept
<1> QED
  BY <1>2, <1>4

LEMMA ControllerKeepsStarts ==
  ASSUME PipelineInv, StartInv, Controller PROVE StartInv'
<1> USE DEF PipelineInv
<1>1. ControllerNext /\ UNCHANGED rows
  BY DEF Controller, storeVars
<1>2. \A c \in Controllers : Busy(c) => ctl[c] \in Task /\ ctl[c].phase # "absent"
  BY DEF TableInv, OriginInv, TasksPhased, TypeInv, TypeOK, ControllerTypeOK, Busy, Idle, Down
<1>3. Idle.pc = "idle" /\ Down.pc = "down"
  BY DEF Idle, Down
<1>4. ASSUME NEW c \in Controllers, NEW t, SetCtl(c, t), UNCHANGED <<cr, stream>>,
             t.pc \in {"create", "pending"} => t.phase = "pending", t.pc # "publish"
      PROVE  StartInv'
  BY <1>1, <1>4, SameStamps, StampsAgree, TaskKeepsStamps DEF StartInv
<1>5. ASSUME UNCHANGED <<cr, ctl, stream>> PROVE StartInv'
  BY <1>1, <1>5 DEF StartInv, RunningStamped, AbsentUnstamped, CreatesPending,
     StartsPublished, StartsStored, StartTimesAgree
<1>6. ASSUME NEW c \in Controllers, NEW m \in RunRequested,
             Dispatch(c, m) \/ DispatchFails(c, m) \/ DispatchAck(c, m)
      PROVE  StartInv'
  <2>1. /\ m.run \in Runs /\ UNCHANGED <<ctl, stream>>
        /\ cr' = cr \/ cr' = [cr EXCEPT ![m.run] = CrCreated(@)]
    BY <1>6 DEF Dispatch, DispatchFails, DispatchAck, ctlVars, clusterVars, Bus!Deliver,
       Bus!Ack, Bus!Nak, RunRequested
  <2>2. StampsKept /\ RunningStamped' /\ AbsentUnstamped'
    BY <2>1, SameStamps, CreateKeepsStamps
  <2>3. StartsStored' /\ StartTimesAgree'
    BY <1>1, <2>1, <2>2, StampsAgree
  <2>4. CreatesPending'
    BY <2>1 DEF StartInv, CreatesPending
  <2>5. StartsPublished'
    <3>1. \A d \in Controllers : ctl[d].pc = "publish" => ctl[d].run \in Runs /\ ctl[d].exec # 0
      BY ExecsAssumption DEF TypeInv, TypeOK, ControllerTypeOK, TasksNumbered, Execs, Task, Idle, Down
    <3> QED
      BY <2>1, <2>2, <3>1 DEF StartInv, StartsPublished, StampsKept
  <2> QED
    BY <2>2, <2>3, <2>4, <2>5 DEF StartInv
<1>7. ASSUME NEW c \in Controllers, NEW r \in Runs, Reconcile(c, r) PROVE StartInv'
  <2> DEFINE task(pc, ph) == [pc |-> pc, run |-> r, phase |-> ph,
                              exec |-> cache[c][r].exec, ver |-> cache[c][r].ver]
  <2>1. UNCHANGED <<cr, stream>>
    BY <1>7 DEF Reconcile, busVars, clusterVars
  <2>2. \A pc, ph : task(pc, ph).pc = pc /\ task(pc, ph).phase = ph
    OBVIOUS
  <2>3. PICK pc \in {"create", "status"}, ph \in Phases \union {"pending"} :
          SetCtl(c, task(pc, ph)) /\ (pc = "create" => ph = "pending")
    <3>1. PhaseOf(cache[c][r].state, cache[c][r].phase) \in Phases
      BY DEF TypeInv, TypeOK, ControllerTypeOK, PhaseOf, Copy, Phases, Outcomes, LivePhases
    <3> QED
      BY <1>7, <3>1 DEF Reconcile
  <2> HIDE DEF task
  <2> QED
    BY <1>4, <2>1, <2>2, <2>3
<1>8. ASSUME NEW c \in Controllers, CreateJob(c) \/ CreateJobReplyLost(c) PROVE StartInv'
  <2> DEFINE t == [ctl[c] EXCEPT !.pc = "pending"]
  <2>1. ctl[c].pc = "create" /\ UNCHANGED <<cr, stream>>
    BY <1>8 DEF CreateJob, CreateJobReplyLost, busVars
  <2>2. t.pc = "pending" /\ t.phase = "pending"
    BY <1>2, <2>1 DEF Busy, Task, StartInv, CreatesPending
  <2>3. SetCtl(c, t) \/ SetCtl(c, Idle)
    BY <1>8 DEF CreateJob, CreateJobReplyLost
  <2> HIDE DEF t
  <2> QED
    BY <1>3, <1>4, <2>1, <2>2, <2>3
<1>9. ASSUME NEW c \in Controllers,
             WritePending(c) \/ WriteStatus(c) \/ WriteStatusReplyLost(c)
      PROVE  StartInv'
  <2> DEFINE t == ToPublish(ctl[c])
  <2>1. ctl[c].pc \in {"pending", "status"} /\ UNCHANGED stream
    BY <1>9 DEF WritePending, WriteStatus, WriteStatusReplyLost, busVars
  <2>2. ctl[c] \in Task /\ ctl[c].phase # "absent"
    BY <1>2, <2>1 DEF Busy
  <2>3. CASE UNCHANGED cr /\ SetCtl(c, Idle)
    BY <1>3, <1>4, <2>1, <2>3
  <2>4. CASE /\ StatusWritten(ctl[c])
             /\ SetCtl(c, Idle) \/ (ctl[c].pc = "status" /\ SetCtl(c, t))
    <3>1. /\ StampsKept /\ RunningStamped' /\ AbsentUnstamped'
          /\ ctl[c].pc = "status" /\ ctl[c].phase = "running"
               => cr'[ctl[c].run].started = StartOf(ctl[c])
      BY <2>1, <2>2, <2>4, WriteStamps
    <3>2. /\ t.pc = "publish" /\ t.run = ctl[c].run
          /\ t.phase = "running" => ctl[c].phase = "running" /\ t.exec = StartOf(ctl[c])
      BY <2>2 DEF ToPublish, Task
    <3>3. StartsStored' /\ StartTimesAgree'
      BY <1>1, <2>1, <3>1, StampsAgree
    <3> HIDE DEF t
    <3>4. CreatesPending' /\ StartsPublished'
      BY <1>3, <2>4, <3>1, <3>2, TaskKeepsStamps
    <3> QED
      BY <3>1, <3>3, <3>4 DEF StartInv
  <2> QED
    BY <1>9, <2>3, <2>4 DEF WritePending, WriteStatus, WriteStatusReplyLost
<1>10. ASSUME NEW c \in Controllers, KubeWriteFails(c) \/ PublishTransitionFails(c)
       PROVE  StartInv'
  BY <1>3, <1>4, <1>10 DEF KubeWriteFails, PublishTransitionFails, clusterVars, busVars
<1>11. ASSUME NEW c \in Controllers, PublishTransition(c) PROVE StartInv'
  <2>1. /\ UNCHANGED cr /\ SetCtl(c, Idle) /\ ctl[c].pc = "publish"
        /\ stream' = stream \union {Transition(ctl[c])}
    BY <1>11 DEF PublishTransition, clusterVars, Bus!Publish
  <2>2. Transition(ctl[c]) \in RunStarted =>
          cr[Transition(ctl[c]).run].started = Transition(ctl[c]).exec
    BY <2>1 DEF StartInv, StartsPublished, Transition, Started, Completed, RunStarted
  <2>3. StampsKept /\ RunningStamped' /\ AbsentUnstamped'
    BY <2>1, SameStamps
  <2>4. StartsStored' /\ StartTimesAgree'
    BY <1>1, <2>1, <2>2, <2>3, StampsAgree
  <2>5. CreatesPending' /\ StartsPublished'
    BY <1>3, <2>1, <2>3, TaskKeepsStamps
  <2> QED
    BY <2>3, <2>4, <2>5 DEF StartInv
<1>12. ASSUME NEW c \in Controllers, NEW r \in Runs, SyncAgentRun(c, r) \/ SyncJob(c, r)
       PROVE  StartInv'
  BY <1>5, <1>12 DEF SyncAgentRun, SyncJob, clusterVars, busVars
<1>13. ASSUME NEW c \in Controllers, Elect(c) PROVE StartInv'
  BY <1>5, <1>13 DEF Elect, clusterVars, busVars
<1>14. ASSUME NEW c \in Controllers, ControllerCrash(c) \/ ControllerRestart(c) PROVE StartInv'
  BY <1>3, <1>4, <1>14 DEF ControllerCrash, ControllerRestart, clusterVars, busVars
<1>15. ASSUME NEW r \in Runs, CollectJob(r) PROVE StartInv'
  BY <1>5, <1>15 DEF CollectJob, GcJob, ctlVars, busVars
<1> QED
  BY <1>1, <1>6, <1>7, <1>8, <1>9, <1>10, <1>11, <1>12, <1>13, <1>14, <1>15
  DEF ControllerNext, ControllerStep, DispatchWork, ReconcileWork, InformerWork

\* The api inserts rows without a start time and publishes requests only;
\* a handler records the time of the run.started it holds.
LEMMA OthersKeepStarts ==
  ASSUME PipelineInv, StartInv, Api \/ StatusConsumers \/ Kubernetes \/ JanitorSecrets
  PROVE  StartInv'
<1> USE DEF PipelineInv
<1>1. UNCHANGED <<cr, ctl>>
  BY DEF Api, ApiNext, ManualTrigger, WebhookTrigger, CronFire, Trigger, ProjectSecrets,
     ProjectFails, PublishRequest, PublishFails, Accept, RequestCrash, DeleteAgentRequest,
     StatusConsumers, Kubernetes, JobStart, JobFinish, JanitorSecrets, GcSecret,
     clusterVars, ctlVars
<1>2. StampsKept /\ RunningStamped' /\ AbsentUnstamped' /\ CreatesPending' /\ StartsPublished'
  BY <1>1, SameStamps DEF StartInv, CreatesPending, StartsPublished
<1>3. \A m \in stream' \intersect RunStarted : m \in stream
  <2>1. \A r \in Runs : Requested(r) \notin RunStarted
    BY DEF Requested, RunStarted
  <2>2. stream' = stream \/ \E r \in Runs : stream' = stream \union {Requested(r)}
    <3>1. CASE Api
      BY <3>1 DEF Api, ApiNext, ManualTrigger, WebhookTrigger, CronFire, Trigger,
         ProjectSecrets, ProjectFails, PublishRequest, PublishFails, Accept, RequestCrash,
         DeleteAgentRequest, busVars, Bus!Publish
    <3>2. CASE StatusConsumers
      BY <3>2 DEF StatusConsumers, StatusNext, WorkerStep, HandlerWork, Handle, HandleFails,
         Receive, Meter, Broadcast, Acknowledge, WorkerCrash, busVars, Bus!Deliver,
         Bus!Ack, Bus!Nak
    <3>3. CASE Kubernetes \/ JanitorSecrets
      BY <3>3 DEF Kubernetes, JanitorSecrets, busVars
    <3> QED
      BY <3>1, <3>2, <3>3
  <2> QED
    BY <2>1, <2>2
<1>4. \A r \in Runs : \/ rows'[r].started_at = rows[r].started_at
                      \/ rows'[r].started_at = cr'[r].started
  <2>1. rows \in [Runs -> Row]
    BY DEF TypeInv, TypeOK, StoreTypeOK
  <2>2. CASE Api
    BY <2>1, <2>2 DEF Api, ApiNext, ManualTrigger, WebhookTrigger, CronFire, Trigger,
       ProjectSecrets, ProjectFails, PublishRequest, PublishFails, Accept, RequestCrash,
       DeleteAgentRequest, CreateRow, DeleteAgent, storeVars, Row
  <2>3. CASE StatusConsumers
    <3>1. ASSUME NEW m \in StatusMsg, m \in stream, Apply(m) PROVE <1>4
      <4>1. CASE m.subject = "run.started"
        <5>1. m \in RunStarted
          BY <3>1, <4>1 DEF StatusMsg, RunStarted, RunCompleted
        <5>2. cr'[m.run].started = m.exec /\ m.run \in Runs
          BY <1>1, <3>1, <5>1 DEF StartInv, StartsStored, RunStarted
        <5> QED
          BY <2>1, <3>1, <4>1, <5>2 DEF Apply, MarkStarted, StartedRow, Row
      <4>2. CASE m.subject # "run.started"
        BY <2>1, <3>1, <4>2 DEF Apply, MarkCompleted, CompletedRow, Row
      <4> QED
        BY <4>1, <4>2
    <3>2. rows' = rows \/ \E m \in StatusMsg : m \in stream /\ Apply(m)
      BY <2>3 DEF StatusConsumers, StatusNext, WorkerStep, HandlerWork, Handle, HandleFails,
         Receive, Meter, RecordRun, Broadcast, Acknowledge, WorkerCrash, storeVars,
         Bus!Deliver, Bus!Deliverable
    <3> QED
      BY <3>1, <3>2
  <2>4. CASE Kubernetes \/ JanitorSecrets
    BY <2>4 DEF Kubernetes, JanitorSecrets, storeVars
  <2> QED
    BY <2>2, <2>3, <2>4
<1>5. StartsStored' /\ StartTimesAgree'
  BY <1>2, <1>3, <1>4, StampsAgree
<1> QED
  BY <1>2, <1>5 DEF StartInv

LEMMA StartsInitially == Init => StartInv
BY DEF Init, StoreInit, Bus!BusInit, ClusterInit, ControllerInit, Idle, StartInv,
       RunningStamped, AbsentUnstamped, CreatesPending, StartsPublished, StartsStored,
       StartTimesAgree

LEMMA StartsPreserved == PipelineInv /\ StartInv /\ [Next]_vars => StartInv'
<1> SUFFICES ASSUME PipelineInv, StartInv, [Next]_vars PROVE StartInv'
  OBVIOUS
<1>1. CASE UNCHANGED vars
  BY <1>1 DEF vars, storeVars, busVars, clusterVars, ctlVars, StartInv, RunningStamped,
     AbsentUnstamped, CreatesPending, StartsPublished, StartsStored, StartTimesAgree
<1> QED
  BY <1>1, ControllerKeepsStarts, OthersKeepStarts DEF Next

\* The start time a run's owner sees is the one its AgentRun holds, whichever
\* run.started was applied first and however many replicas and executions
\* there were (RunPipeline's StartTimesAgree).
THEOREM StartTimesHold == Spec => []StartTimesAgree
<1>1. StartInv => StartTimesAgree
  BY DEF StartInv
<1> QED
  BY <1>1, StartsInitially, StartsPreserved, PipelineInvHolds, PTL DEF Spec

-----------------------------------------------------------------------------
(* Secrets.  From the moment a manual run's request may be published, its  *)
(* Secret exists for as long as its row does: the projection comes before  *)
(* the request, and the janitor deletes after the row.                     *)

SecretInv ==
  \A r \in Runs :
    /\ SourceOf[r] = "manual" /\ RowExists(r)
    /\ stage[r] = "publishing" \/ Requested(r) \in stream \/ cr[r].phase # "absent"
    => r \in secrets

\* Nothing new asks for a Secret, and none is deleted under a row.
LEMMA SecretsKept ==
  ASSUME SecretInv,
         \A r \in Runs : stage'[r] = "publishing" => stage[r] = "publishing",
         \A r \in Runs : Requested(r) \in stream' =>
           Requested(r) \in stream \/ stage[r] = "publishing",
         \A r \in Runs : cr'[r].phase # "absent" =>
           cr[r].phase # "absent" \/ Requested(r) \in stream,
         \A r \in Runs : RowExists(r)' => RowExists(r),
         \A r \in secrets : r \in secrets' \/ ~RowExists(r)
  PROVE  SecretInv'
BY DEF SecretInv

LEMMA ApiKeepsSecrets ==
  ASSUME PipelineInv, SecretInv, Api PROVE SecretInv'
<1> USE DEF PipelineInv
<1>1. ApiNext
  BY DEF Api
<1>2. /\ rows \in [Runs -> Row] /\ stage \in [Runs -> Stages]
      /\ \A r, q \in Runs : Requested(r) = Requested(q) => r = q
  BY DEF TypeInv, TypeOK, StoreTypeOK, ApiTypeOK, Requested
<1>3. ASSUME NEW r \in Runs, NEW s \in Stages, To(r, s), s # "publishing",
             UNCHANGED <<rows, cr, secrets>>,
             stream' = stream \/ (stage[r] = "publishing" /\ stream' = stream \union {Requested(r)})
      PROVE  SecretInv'
  BY <1>2, <1>3, SecretsKept DEF To, RowExists
<1>4. ASSUME NEW r \in Runs, Trigger(r) PROVE SecretInv'
  <2>1. /\ rows' = [rows EXCEPT ![r].status = "pending"] /\ rows[r].status = "absent"
        /\ UNCHANGED <<stream, cr, secrets>>
        /\ stage' = [stage EXCEPT ![r] = IF SourceOf[r] = "manual" THEN "projecting" ELSE "publishing"]
    BY <1>4 DEF Trigger, CreateRow, To, busVars, clusterVars
  <2>2. Requested(r) \notin stream /\ cr[r].phase = "absent"
    BY <2>1 DEF TableInv, ReflectInv, Inserted, OriginInv, ObjectsInserted, Requested
  <2>3. \A q \in Runs : q # r => rows'[q] = rows[q] /\ stage'[q] = stage[q]
    BY <1>2, <2>1
  <2>4. SourceOf[r] = "manual" => stage'[r] # "publishing"
    BY <1>2, <2>1
  <2> QED
    BY <2>1, <2>2, <2>3, <2>4 DEF SecretInv, RowExists
<1>5. ASSUME NEW r \in Runs, ProjectSecrets(r) PROVE SecretInv'
  <2>1. UNCHANGED <<rows, stream, cr>> /\ secrets' = secrets \union {r}
    BY <1>5 DEF ProjectSecrets, storeVars, busVars
  <2>2. \A q \in Runs : q # r => stage'[q] = stage[q]
    BY <1>2, <1>5 DEF ProjectSecrets, To
  <2> QED
    BY <2>1, <2>2 DEF SecretInv, RowExists
<1>6. ASSUME NEW r \in Runs,
             \/ ProjectFails(r) \/ PublishRequest(r) \/ PublishFails(r)
             \/ Accept(r) \/ RequestCrash(r)
      PROVE  SecretInv'
  <2>1. /\ UNCHANGED <<rows, cr, secrets>>
        /\ \/ stream' = stream
           \/ stage[r] = "publishing" /\ stream' = stream \union {Requested(r)}
    BY <1>6 DEF ProjectFails, PublishRequest, PublishFails, Accept, RequestCrash,
       storeVars, busVars, clusterVars, Bus!Publish
  <2>2. PICK s \in Stages : To(r, s) /\ s # "publishing"
    BY <1>6 DEF ProjectFails, PublishRequest, PublishFails, Accept, RequestCrash, Stages
  <2> QED
    BY <1>3, <2>1, <2>2
<1>7. ASSUME NEW a \in Agents, DeleteAgentRequest(a) PROVE SecretInv'
  <2>1. UNCHANGED <<stage, stream, cr, secrets>>
    BY <1>7 DEF DeleteAgentRequest, apiVars, busVars, clusterVars
  <2>2. \A r \in Runs : RowExists(r)' => RowExists(r)
    BY <1>2, <1>7 DEF DeleteAgentRequest, DeleteAgent, RowExists, Row
  <2> QED
    BY <2>1, <2>2, SecretsKept
<1> QED
  BY <1>1, <1>4, <1>5, <1>6, <1>7 DEF ApiNext, ManualTrigger, WebhookTrigger, CronFire

LEMMA ControllerKeepsSecrets ==
  ASSUME PipelineInv, SecretInv, Controller PROVE SecretInv'
<1> USE DEF PipelineInv
<1>1. UNCHANGED <<rows, stage>>
  BY DEF Controller, storeVars, apiVars
<1>2. UNCHANGED secrets
  BY ControllerMoves
<1>3. \A r \in Runs : Requested(r) \in stream' => Requested(r) \in stream
  <2>1. \A r \in Runs : \A t : Requested(r) # Transition(t)
    BY DEF Requested, Transition, Started, Completed
  <2>2. stream' = stream \/ \E t : stream' = stream \union {Transition(t)}
    BY ControllerMoves DEF TransitionsMove
  <2> QED
    BY <2>1, <2>2
<1>4. \A r \in Runs : cr'[r].phase # "absent" => cr[r].phase # "absent" \/ Requested(r) \in stream
  <2>1. ASSUME NEW m \in RunRequested, m \in stream, cr' = [cr EXCEPT ![m.run] = CrCreated(@)]
        PROVE  <1>4
    <3>1. m = Requested(m.run) /\ m.run \in Runs
      BY DEF RunRequested, Requested
    <3> QED
      BY <2>1, <3>1 DEF TypeInv, TypeOK, ClusterTypeOK
  <2>2. ASSUME NEW c \in Controllers, Unwritten(c), Current(ctl[c]), StatusWritten(ctl[c])
        PROVE  <1>4
    <3>1. ctl[c].run \in Runs /\ cr[ctl[c].run].phase # "absent"
      BY <2>2 DEF CompletionInv, TasksLag, Unwritten, TypeInv, TypeOK, ControllerTypeOK, Task,
         Idle, Down, LivePhases
    <3>2. \A r \in Runs : r # ctl[c].run => cr'[r] = cr[r]
      BY <2>2, <3>1 DEF StatusWritten, TypeInv, TypeOK, ClusterTypeOK
    <3> QED
      BY <3>1, <3>2
  <2> QED
    BY <2>1, <2>2, ControllerMoves DEF ObjectsMove
<1> QED
  BY <1>1, <1>2, <1>3, <1>4, SecretsKept DEF RowExists

\* A handler's statements create no row, and the janitor asks the table
\* before it deletes.
LEMMA OthersKeepSecrets ==
  ASSUME PipelineInv, SecretInv, StatusConsumers \/ Kubernetes \/ JanitorSecrets
  PROVE  SecretInv'
<1> USE DEF PipelineInv
<1>1. CASE StatusConsumers
  <2>1. UNCHANGED <<stage, cr, secrets>>
    BY <1>1 DEF StatusConsumers, apiVars, clusterVars
  <2>2. UNCHANGED stream
    BY <1>1 DEF StatusConsumers, StatusNext, WorkerStep, HandlerWork, Handle, HandleFails,
       Receive, Meter, Broadcast, Acknowledge, WorkerCrash, busVars, Bus!Deliver,
       Bus!Ack, Bus!Nak
  <2>3. rows' = rows \/ \E m \in StatusMsg : Apply(m)
    BY <1>1 DEF StatusConsumers, StatusNext, WorkerStep, HandlerWork, Handle, HandleFails,
       Meter, RecordRun, Broadcast, Acknowledge, WorkerCrash, storeVars
  <2>4. \A r \in Runs : RowExists(r)' => RowExists(r)
    BY <2>3 DEF Apply, MarkStarted, MarkCompleted, StartedRow, CompletedRow, RowExists,
       TypeInv, TypeOK, StoreTypeOK, Row
  <2> QED
    BY <2>1, <2>2, <2>4, SecretsKept
<1>2. CASE Kubernetes
  BY <1>2 DEF Kubernetes, JobStart, JobFinish, storeVars, busVars, apiVars, SecretInv, RowExists
<1>3. CASE JanitorSecrets
  BY <1>3, SecretsKept DEF JanitorSecrets, GcSecret, storeVars, busVars, apiVars, RowExists
<1> QED
  BY <1>1, <1>2, <1>3

LEMMA SecretsInitially == Init => SecretInv
BY DEF Init, StoreInit, SecretInv, RowExists

LEMMA SecretsPreserved == PipelineInv /\ SecretInv /\ [Next]_vars => SecretInv'
<1> SUFFICES ASSUME PipelineInv, SecretInv, [Next]_vars PROVE SecretInv'
  OBVIOUS
<1>1. CASE UNCHANGED vars
  BY <1>1 DEF vars, storeVars, busVars, clusterVars, apiVars, SecretInv, RowExists
<1> QED
  BY <1>1, ApiKeepsSecrets, ControllerKeepsSecrets, OthersKeepSecrets DEF Next

\* The Secret a manual run's Job mounts exists while the run's row and its
\* AgentRun do (RunPipeline's SecretOutlivesRow).
THEOREM SecretsOutliveRows == Spec => []SecretOutlivesRow
<1>1. SecretInv => SecretOutlivesRow
  BY DEF SecretInv, SecretOutlivesRow
<1> QED
  BY <1>1, SecretsInitially, SecretsPreserved, PipelineInvHolds, PTL DEF Spec

-----------------------------------------------------------------------------
(* Executions.  A Job is created only if none exists, so a second one      *)
(* needs the first to be collected.  The janitor collects a Job only when  *)
(* every running replica has seen it end, and from then on no replica has  *)
(* a live copy to start from: a copy is refreshed from an object whose     *)
(* phase is terminal for good, and a restarted process lists it anew.      *)

DownForgets == \A c \in Controllers : ctl[c] = Down => cache[c] = NothingCached

\* Collected jobs are over for every replica.
CollectedIsOver ==
  \A r \in Runs : job[r].state = "absent" /\ job[r].exec # 0 =>
    /\ cr[r].phase \in Outcomes
    /\ \A c \in Controllers :
         /\ cache[c][r].phase \notin LivePhases
         /\ ctl[c].pc = "create" => ctl[c].run # r

ExecInv == DownForgets /\ CollectedIsOver /\ ExecutesOnce

LEMMA PhaseSets ==
  /\ LivePhases \intersect Outcomes = {} /\ "absent" \notin LivePhases
  /\ "absent" \notin Outcomes /\ "absent" \notin {"new", "active"}
BY DEF LivePhases, Outcomes

\* A step that creates no Job and collects none.
LEMMA SameJobsOnce ==
  ASSUME TypeInv, ExecInv, PhasesAdvance, DownForgets',
         \A r \in Runs : /\ job'[r].exec = job[r].exec
                         /\ job'[r].state = "absent" => job[r].state = "absent",
         \A c \in Controllers, r \in Runs : cache'[c][r].phase \in LivePhases =>
           cache[c][r].phase \in LivePhases \/ cr[r].phase \in LivePhases,
         \A c \in Controllers : ctl'[c].pc = "create" =>
           ctl'[c] = ctl[c] \/ cache[c][ctl'[c].run].phase \in LivePhases
  PROVE  ExecInv'
<1>1. ExecutesOnce'
  BY DEF ExecInv, ExecutesOnce
<1>2. CollectedIsOver'
  <2> SUFFICES ASSUME NEW r \in Runs, job'[r].state = "absent", job'[r].exec # 0
               PROVE  /\ cr'[r].phase \in Outcomes
                      /\ \A c \in Controllers :
                           /\ cache'[c][r].phase \notin LivePhases
                           /\ ctl'[c].pc = "create" => ctl'[c].run # r
    BY DEF CollectedIsOver
  <2>1. /\ cr[r].phase \in Outcomes
        /\ \A c \in Controllers :
             /\ cache[c][r].phase \notin LivePhases
             /\ ctl[c].pc = "create" => ctl[c].run # r
    BY DEF ExecInv, CollectedIsOver
  <2>2. cr'[r].phase \in Outcomes
    BY <2>1 DEF PhasesAdvance
  <2> QED
    BY <2>1, <2>2, PhaseSets
<1> QED
  BY <1>1, <1>2 DEF ExecInv

\* A replica's task becomes t, and its caches stay.
LEMMA TaskKeepsOnce ==
  ASSUME TypeInv, ExecInv, PhasesAdvance, NEW c \in Controllers, NEW t, SetCtl(c, t), t # Down,
         t.pc = "create" => cache[c][t.run].phase \in LivePhases, UNCHANGED <<job, cache>>
  PROVE  ExecInv'
<1>1. ctl'[c] = t /\ \A d \in Controllers : d # c => ctl'[d] = ctl[d]
  BY DEF SetCtl, TypeInv, TypeOK, ControllerTypeOK
<1>2. DownForgets'
  BY <1>1 DEF ExecInv, DownForgets
<1> QED
  BY <1>1, <1>2, SameJobsOnce

\* A Job is created for a run that has had none.
LEMMA CreateKeepsOnce ==
  ASSUME TypeInv, ExecInv, NEW c \in Controllers, ctl[c].pc = "create", NewJob(ctl[c].run),
         NEW t, SetCtl(c, t), t # Down, t.pc # "create", UNCHANGED <<cr, cache>>
  PROVE  ExecInv'
<1> DEFINE q == ctl[c].run
<1>1. q \in Runs
  BY DEF TypeInv, TypeOK, ControllerTypeOK, Task, Idle, Down
<1>2. ctl'[c] = t /\ \A d \in Controllers : d # c => ctl'[d] = ctl[d]
  BY DEF SetCtl, TypeInv, TypeOK, ControllerTypeOK
<1>3. job[q].exec = 0
  BY <1>1 DEF NewJob, ExecInv, CollectedIsOver
<1>4. /\ job'[q].state = "new" /\ job'[q].exec = 1
      /\ \A r \in Runs : r # q => job'[r] = job[r]
  BY <1>1, <1>3 DEF NewJob, TypeInv, TypeOK, ClusterTypeOK
<1>5. ExecutesOnce'
  BY <1>4 DEF ExecInv, ExecutesOnce
<1>6. DownForgets'
  BY <1>2 DEF ExecInv, DownForgets
<1>7. CollectedIsOver'
  BY <1>2, <1>4 DEF ExecInv, CollectedIsOver
<1> QED
  BY <1>5, <1>6, <1>7 DEF ExecInv

LEMMA ControllerKeepsOnce ==
  ASSUME "outage" \notin FaultKinds, PipelineInv, ExecInv, Controller PROVE ExecInv'
<1> USE DEF PipelineInv
<1>1. ControllerNext /\ PhasesAdvance
  BY ControllerKeepsOrigin DEF Controller
<1>2. Idle.pc = "idle" /\ Down.pc = "down" /\ Idle # Down
  BY DEF Idle, Down
<1>3. ASSUME NEW c \in Controllers, SetCtl(c, Idle), UNCHANGED <<job, cache>> PROVE ExecInv'
  BY <1>1, <1>2, <1>3, TaskKeepsOnce
<1>4. ASSUME UNCHANGED <<job, cache, ctl>> PROVE ExecInv'
  BY <1>1, <1>4, SameJobsOnce DEF ExecInv, DownForgets
<1>5. ASSUME NEW c \in Controllers, NEW m \in RunRequested,
             Dispatch(c, m) \/ DispatchFails(c, m) \/ DispatchAck(c, m)
      PROVE  ExecInv'
  BY <1>4, <1>5 DEF Dispatch, DispatchFails, DispatchAck, ctlVars, clusterVars
<1>6. ASSUME NEW c \in Controllers, NEW r \in Runs, Reconcile(c, r) PROVE ExecInv'
  <2> DEFINE task(pc, ph) == [pc |-> pc, run |-> r, phase |-> ph,
                              exec |-> cache[c][r].exec, ver |-> cache[c][r].ver]
  <2>1. UNCHANGED <<job, cache>> /\ cache[c][r].phase \in LivePhases
    BY <1>6 DEF Reconcile, clusterVars
  <2>2. \A pc, ph : task(pc, ph).pc = pc /\ task(pc, ph).run = r
    OBVIOUS
  <2>3. PICK pc \in {"create", "status"},
             ph \in {"pending", PhaseOf(cache[c][r].state, cache[c][r].phase)} :
          SetCtl(c, task(pc, ph))
    BY <1>6 DEF Reconcile
  <2> HIDE DEF task
  <2>4. task(pc, ph) # Down
    BY <1>2, <2>2
  <2> QED
    BY <1>1, <2>1, <2>2, <2>3, <2>4, TaskKeepsOnce
<1>7. ASSUME NEW c \in Controllers, CreateJob(c) \/ CreateJobReplyLost(c) PROVE ExecInv'
  <2> DEFINE t == [ctl[c] EXCEPT !.pc = "pending"]
  <2>1. ctl[c].pc = "create" /\ UNCHANGED <<cr, cache>>
    BY <1>7 DEF CreateJob, CreateJobReplyLost
  <2>2. t.pc = "pending"
    <3>1. ctl[c] \in Task
      BY <2>1, <1>2 DEF TypeInv, TypeOK, ControllerTypeOK
    <3> QED
      BY <3>1 DEF Task
  <2>3. \/ SetCtl(c, Idle) /\ UNCHANGED job
        \/ NewJob(ctl[c].run) /\ (SetCtl(c, t) \/ SetCtl(c, Idle))
    BY <1>7 DEF CreateJob, CreateJobReplyLost
  <2> HIDE DEF t
  <2> QED
    BY <1>2, <1>3, <2>1, <2>2, <2>3, CreateKeepsOnce
<1>8. ASSUME NEW c \in Controllers,
             WritePending(c) \/ WriteStatus(c) \/ WriteStatusReplyLost(c)
      PROVE  ExecInv'
  <2> DEFINE t == ToPublish(ctl[c])
  <2>1. UNCHANGED <<job, cache>>
    BY <1>8 DEF WritePending, WriteStatus, WriteStatusReplyLost
  <2>2. ctl[c].pc = "status" => t.pc = "publish"
    <3>1. ctl[c].pc = "status" => ctl[c] \in Task
      BY <1>2 DEF TypeInv, TypeOK, ControllerTypeOK
    <3> QED
      BY <3>1 DEF ToPublish, Task
  <2>3. SetCtl(c, Idle) \/ (ctl[c].pc = "status" /\ SetCtl(c, t))
    BY <1>8 DEF WritePending, WriteStatus, WriteStatusReplyLost
  <2> HIDE DEF t
  <2> QED
    BY <1>1, <1>2, <1>3, <2>1, <2>2, <2>3, TaskKeepsOnce
<1>9. ASSUME NEW c \in Controllers,
             KubeWriteFails(c) \/ PublishTransition(c) \/ PublishTransitionFails(c)
      PROVE  ExecInv'
  BY <1>3, <1>9 DEF KubeWriteFails, PublishTransition, PublishTransitionFails, clusterVars
<1>10. ASSUME NEW c \in Controllers, NEW r \in Runs, SyncAgentRun(c, r) \/ SyncJob(c, r)
       PROVE  ExecInv'
  <2>1. /\ UNCHANGED <<job, ctl, cr>> /\ Up(c)
        /\ \A d \in Controllers : d # c => cache'[d] = cache[d]
        /\ \A q \in Runs : q # r => cache'[c][q] = cache[c][q]
        /\ cache'[c][r].phase \in {cache[c][r].phase, cr[r].phase}
    BY <1>10 DEF SyncAgentRun, SyncJob, clusterVars, TypeInv, TypeOK, ControllerTypeOK
  <2>2. DownForgets'
    BY <1>2, <2>1 DEF ExecInv, DownForgets, Up
  <2> QED
    BY <1>1, <2>1, <2>2, SameJobsOnce
<1>11. ASSUME NEW c \in Controllers, Elect(c) PROVE ExecInv'
  BY <1>4, <1>11 DEF Elect, clusterVars
<1>12. ASSUME NEW c \in Controllers, ControllerCrash(c) \/ ControllerRestart(c) PROVE ExecInv'
  <2>1. /\ UNCHANGED <<job, cr>>
        /\ \A d \in Controllers : d # c => cache'[d] = cache[d] /\ ctl'[d] = ctl[d]
    BY <1>12 DEF ControllerCrash, ControllerRestart, SetCtl, clusterVars, TypeInv, TypeOK,
       ControllerTypeOK
  <2>2. \/ ctl'[c] = Down /\ cache'[c] = NothingCached
        \/ ctl'[c] = Idle /\ cache'[c] = [r \in Runs |-> Listed(r)]
    BY <1>12 DEF ControllerCrash, ControllerRestart, SetCtl, TypeInv, TypeOK, ControllerTypeOK
  <2>3. DownForgets'
    BY <1>2, <2>1, <2>2 DEF ExecInv, DownForgets
  <2>4. \A r \in Runs : cache'[c][r].phase \in LivePhases => cr[r].phase \in LivePhases
    <3>1. \A r \in Runs : NothingCached[r].phase = "absent"
      BY DEF NothingCached
    <3>2. \A r \in Runs : Listed(r).phase = cr[r].phase
      BY DEF Listed
    <3> QED
      BY <2>2, <3>1, <3>2, PhaseSets
  <2> QED
    BY <1>1, <1>2, <2>1, <2>2, <2>3, <2>4, SameJobsOnce
<1>13. ASSUME NEW r \in Runs, CollectJob(r) PROVE ExecInv'
  <2>1. /\ UNCHANGED <<cr, ctl, cache>> /\ GcJob(r) /\ cr[r].phase \in Outcomes
        /\ \A c \in Controllers : Up(c) => SeenBy(c, r)
    BY <1>13 DEF CollectJob, ctlVars, GcJob, Fault
  <2>2. /\ job'[r].exec = job[r].exec
        /\ \A q \in Runs : q # r => job'[q] = job[q]
    BY <2>1 DEF GcJob, TypeInv, TypeOK, ClusterTypeOK
  <2>3. ASSUME NEW c \in Controllers
        PROVE  cache[c][r].phase \notin LivePhases /\ (ctl[c].pc = "create" => ctl[c].run # r)
    <3>1. CASE Up(c)
      <4>1. cache[c][r].phase = cr[r].phase
        BY <2>1, <3>1 DEF SeenBy, Listed
      <4>2. ctl[c].pc = "create" => ctl[c].run # r
        BY <2>1, <3>1 DEF SeenBy, Busy
      <4> QED
        BY <2>1, <4>1, <4>2, PhaseSets
    <3>2. CASE ~Up(c)
      <4>1. ctl[c] = Down
        BY <1>2, <3>2 DEF Up, TypeInv, TypeOK, ControllerTypeOK, Task
      <4>2. cache[c][r].phase = "absent"
        BY <4>1 DEF ExecInv, DownForgets, NothingCached
      <4> QED
        BY <1>2, <4>1, <4>2, PhaseSets
    <3> QED
      BY <3>1, <3>2
  <2>4. CollectedIsOver'
    BY <2>1, <2>2, <2>3 DEF ExecInv, CollectedIsOver
  <2>5. ExecutesOnce' /\ DownForgets'
    BY <2>1, <2>2 DEF ExecInv, ExecutesOnce, DownForgets
  <2> QED
    BY <2>4, <2>5 DEF ExecInv
<1> QED
  BY <1>1, <1>5, <1>6, <1>7, <1>8, <1>9, <1>10, <1>11, <1>12, <1>13
  DEF ControllerNext, ControllerStep, DispatchWork, ReconcileWork, InformerWork

\* Everything else leaves the AgentRuns, the copies and the tasks alone, and
\* a Job's end creates and collects nothing.
LEMMA OthersKeepOnce ==
  ASSUME PipelineInv, ExecInv,
         Api \/ StatusConsumers \/ Kubernetes \/ JanitorSecrets \/ UNCHANGED vars
  PROVE  ExecInv'
<1>1. UNCHANGED <<cr, ctl, cache>>
  BY DEF Api, ApiNext, ManualTrigger, WebhookTrigger, CronFire, Trigger, ProjectSecrets,
     ProjectFails, PublishRequest, PublishFails, Accept, RequestCrash, DeleteAgentRequest,
     StatusConsumers, Kubernetes, JobStart, JobFinish, JanitorSecrets, GcSecret,
     vars, clusterVars, ctlVars
<1>2. PhasesAdvance /\ DownForgets'
  BY <1>1, SameObjectsAdvance DEF ExecInv, DownForgets
<1>3. \A r \in Runs : /\ job'[r].exec = job[r].exec
                      /\ job'[r].state = "absent" => job[r].state = "absent"
  <2>1. job \in [Runs -> [state: JobStates, exec: 0..MaxExecs]]
    BY DEF PipelineInv, TypeInv, TypeOK, ClusterTypeOK
  <2>2. CASE Kubernetes
    BY <2>1, <2>2 DEF Kubernetes, JobStart, JobFinish, Outcomes
  <2>3. CASE ~Kubernetes
    BY <2>3 DEF Api, ApiNext, ManualTrigger, WebhookTrigger, CronFire, Trigger,
       ProjectSecrets, ProjectFails, PublishRequest, PublishFails, Accept, RequestCrash,
       DeleteAgentRequest, StatusConsumers, JanitorSecrets, GcSecret, vars, clusterVars
  <2> QED
    BY <2>2, <2>3
<1> QED
  BY <1>1, <1>2, <1>3, SameJobsOnce DEF PipelineInv

LEMMA ExecutionsInitially == Init => ExecInv
BY DEF Init, ClusterInit, ControllerInit, ExecInv, DownForgets, CollectedIsOver, ExecutesOnce

LEMMA ExecutionsPreserved ==
  ASSUME "outage" \notin FaultKinds
  PROVE  PipelineInv /\ ExecInv /\ [Next]_vars => ExecInv'
BY ControllerKeepsOnce, OthersKeepOnce DEF Next

\* A run executes at most once, with any number of replicas, stale caches,
\* redeliveries, crashes and leader changes, unless an outage of every
\* controller outlasts the janitor's TTL (RunPipeline's ExecutesOnce).
THEOREM RunsExecuteOnce ==
  ASSUME "outage" \notin FaultKinds
  PROVE  Spec => []ExecutesOnce
<1>1. ExecInv => ExecutesOnce
  BY DEF ExecInv
<1> QED
  BY <1>1, ExecutionsInitially, ExecutionsPreserved, PipelineInvHolds, PTL DEF Spec

-----------------------------------------------------------------------------
(* The completion that is not lost.  controller.go:50-51 takes a terminal  *)
(* phase for a sign that run.completed was published.  That is so as long  *)
(* as the replica that writes the phase gets to its publish and the        *)
(* publish succeeds: the three kinds of fault named here are all that can  *)
(* make the comment wrong.                                                 *)

Reliable == FaultKinds \intersect {"kube_reply", "publish", "ctl_crash"} = {}

\* A terminal phase has its completion in the stream, or a replica about to
\* publish it (and not merely one still publishing run.started).
CompletionOwed ==
  \A r \in Runs : cr[r].phase \in Outcomes =>
    \/ \E m \in stream \intersect RunCompleted : m.run = r
    \/ \E c \in Controllers : Publishing(c) /\ ctl[c].run = r

\* A replica's task becomes t.  If it was publishing a completion, that is
\* now in the stream; if it has just written a terminal phase, it publishes.
LEMMA TaskKeepsOwed ==
  ASSUME TypeInv, CompletionOwed, NEW c \in Controllers, NEW t, SetCtl(c, t),
         stream \subseteq stream',
         Publishing(c) => \E m \in stream' \intersect RunCompleted : m.run = ctl[c].run,
         \A r \in Runs : cr'[r].phase \in Outcomes =>
           \/ cr[r].phase \in Outcomes
           \/ t.pc = "publish" /\ t.phase \in Outcomes /\ t.run = r
  PROVE  CompletionOwed'
<1>1. ctl'[c] = t /\ \A d \in Controllers : d # c => ctl'[d] = ctl[d]
  BY DEF SetCtl, TypeInv, TypeOK, ControllerTypeOK
<1> SUFFICES ASSUME NEW r \in Runs, cr'[r].phase \in Outcomes
             PROVE  \/ \E m \in stream' \intersect RunCompleted : m.run = r
                    \/ \E d \in Controllers : Publishing(d)' /\ ctl'[d].run = r
  BY DEF CompletionOwed
<1>2. CASE cr[r].phase \in Outcomes
  BY <1>1, <1>2 DEF CompletionOwed, Publishing
<1>3. CASE t.pc = "publish" /\ t.phase \in Outcomes /\ t.run = r
  BY <1>1, <1>3 DEF Publishing
<1> QED
  BY <1>2, <1>3

LEMMA ControllerKeepsOwed ==
  ASSUME Reliable, PipelineInv, StartInv, CompletionOwed, Controller
  PROVE  CompletionOwed'
<1> USE DEF PipelineInv
<1>1. ControllerNext
  BY DEF Controller
<1>2. /\ "kube_reply" \notin FaultKinds /\ "publish" \notin FaultKinds
      /\ "ctl_crash" \notin FaultKinds
  BY DEF Reliable
<1>3. ASSUME NEW c \in Controllers, NEW t, SetCtl(c, t), ctl[c].pc # "publish",
             UNCHANGED <<cr, stream>>
      PROVE  CompletionOwed'
  BY <1>3, TaskKeepsOwed DEF Publishing
<1>4. ASSUME UNCHANGED <<cr, ctl, stream>> PROVE CompletionOwed'
  BY <1>4 DEF CompletionOwed, Publishing
<1>5. ASSUME NEW c \in Controllers, NEW m \in RunRequested,
             Dispatch(c, m) \/ DispatchFails(c, m) \/ DispatchAck(c, m)
      PROVE  CompletionOwed'
  <2>1. /\ m.run \in Runs /\ UNCHANGED <<ctl, stream>>
        /\ cr' = cr \/ cr' = [cr EXCEPT ![m.run] = CrCreated(@)]
    BY <1>5 DEF Dispatch, DispatchFails, DispatchAck, ctlVars, clusterVars, Bus!Deliver,
       Bus!Ack, Bus!Nak, RunRequested
  <2>2. \A r \in Runs : cr'[r].phase \in Outcomes => cr[r].phase \in Outcomes
    BY <2>1 DEF CrCreated, CrWritten, TypeInv, TypeOK, ClusterTypeOK, Outcomes
  <2> QED
    BY <2>1, <2>2 DEF CompletionOwed, Publishing
<1>6. ASSUME NEW c \in Controllers, NEW r \in Runs, Reconcile(c, r) PROVE CompletionOwed'
  <2>1. ctl[c].pc # "publish" /\ UNCHANGED <<cr, stream>> /\ \E t : SetCtl(c, t)
    BY <1>6 DEF Reconcile, Idle, clusterVars, busVars
  <2> QED
    BY <1>3, <2>1
<1>7. ASSUME NEW c \in Controllers, CreateJob(c) \/ KubeWriteFails(c) PROVE CompletionOwed'
  <2>1. ctl[c].pc # "publish" /\ UNCHANGED <<cr, stream>> /\ \E t : SetCtl(c, t)
    BY <1>7 DEF CreateJob, KubeWriteFails, clusterVars, busVars
  <2> QED
    BY <1>3, <2>1
<1>8. ASSUME NEW c \in Controllers, WritePending(c) \/ WriteStatus(c) PROVE CompletionOwed'
  <2> DEFINE t == ToPublish(ctl[c])
  <2>1. ctl[c].pc \in {"pending", "status"} /\ UNCHANGED stream
    BY <1>8 DEF WritePending, WriteStatus, busVars
  <2>2. ctl[c] \in Task
    BY <2>1 DEF TypeInv, TypeOK, ControllerTypeOK, Idle, Down
  <2>3. /\ ctl[c].run \in Runs /\ ~Publishing(c)
        /\ t.pc = "publish" /\ t.run = ctl[c].run /\ t.phase = ctl[c].phase
    BY <2>1, <2>2 DEF ToPublish, Task, Publishing
  <2>4. StatusWritten(ctl[c]) =>
          /\ \A r \in Runs : r # ctl[c].run => cr'[r] = cr[r]
          /\ cr'[ctl[c].run].phase = ctl[c].phase
    BY <2>3 DEF StatusWritten, CrWritten, TypeInv, TypeOK, ClusterTypeOK
  <2> HIDE DEF t
  <2>5. CASE UNCHANGED cr /\ SetCtl(c, Idle)
    BY <1>3, <2>1, <2>5
  <2>6. CASE StatusWritten(ctl[c]) /\ ctl[c].pc = "pending" /\ SetCtl(c, Idle)
    <3>1. ctl[c].phase \notin Outcomes
      BY <2>6 DEF StartInv, CreatesPending, Outcomes
    <3> QED
      BY <2>1, <2>3, <2>4, <2>6, <3>1, TaskKeepsOwed
  <2>7. CASE StatusWritten(ctl[c]) /\ SetCtl(c, t)
    BY <2>1, <2>3, <2>4, <2>7, TaskKeepsOwed
  <2> QED
    BY <1>8, <2>5, <2>6, <2>7 DEF WritePending, WriteStatus, t
<1>9. ASSUME NEW c \in Controllers, PublishTransition(c) PROVE CompletionOwed'
  <2>1. /\ UNCHANGED cr /\ SetCtl(c, Idle) /\ ctl[c].pc = "publish"
        /\ stream' = stream \union {Transition(ctl[c])}
    BY <1>9 DEF PublishTransition, clusterVars, Bus!Publish
  <2>2. ctl[c] \in Task /\ ctl[c].exec \in Execs /\ ctl[c].phase \in {"running"} \union Outcomes
    BY <2>1 DEF TypeInv, TypeOK, ControllerTypeOK, TasksNumbered, Idle, Down
  <2>3. CASE ctl[c].phase \in Outcomes
    <3>1. ctl[c].run \in Runs /\ ctl[c].phase # "running"
      BY <2>2, <2>3 DEF Task, Outcomes
    <3>2. Transition(ctl[c]) \in RunCompleted /\ Transition(ctl[c]).run = ctl[c].run
      BY <2>2, <2>3, <3>1 DEF Transition, Completed, RunCompleted
    <3> QED
      BY <2>1, <3>2, TaskKeepsOwed
  <2>4. CASE ctl[c].phase \notin Outcomes
    BY <2>1, <2>4, TaskKeepsOwed DEF Publishing
  <2> QED
    BY <2>3, <2>4
<1>10. ASSUME NEW c \in Controllers, NEW r \in Runs, SyncAgentRun(c, r) \/ SyncJob(c, r)
       PROVE  CompletionOwed'
  BY <1>4, <1>10 DEF SyncAgentRun, SyncJob, clusterVars, busVars
<1>11. ASSUME NEW c \in Controllers, Elect(c) PROVE CompletionOwed'
  BY <1>4, <1>11 DEF Elect, clusterVars, busVars
<1>12. ASSUME NEW c \in Controllers, ControllerRestart(c) PROVE CompletionOwed'
  BY <1>3, <1>12 DEF ControllerRestart, Up, clusterVars, busVars
<1>13. ASSUME NEW r \in Runs, CollectJob(r) PROVE CompletionOwed'
  BY <1>4, <1>13 DEF CollectJob, GcJob, ctlVars, busVars
<1>14. ASSUME NEW c \in Controllers,
              \/ CreateJobReplyLost(c) \/ WriteStatusReplyLost(c)
              \/ PublishTransitionFails(c) \/ ControllerCrash(c)
       PROVE  FALSE
  BY <1>2, <1>14 DEF CreateJobReplyLost, WriteStatusReplyLost, PublishTransitionFails,
     ControllerCrash, Fault
<1> QED
  BY <1>1, <1>5, <1>6, <1>7, <1>8, <1>9, <1>10, <1>11, <1>12, <1>13, <1>14
  DEF ControllerNext, ControllerStep, DispatchWork, ReconcileWork, InformerWork

LEMMA OthersKeepOwed ==
  ASSUME PipelineInv, CompletionOwed,
         Api \/ StatusConsumers \/ Kubernetes \/ JanitorSecrets \/ UNCHANGED vars
  PROVE  CompletionOwed'
<1>1. UNCHANGED <<cr, ctl>>
  BY DEF Api, ApiNext, ManualTrigger, WebhookTrigger, CronFire, Trigger, ProjectSecrets,
     ProjectFails, PublishRequest, PublishFails, Accept, RequestCrash, DeleteAgentRequest,
     StatusConsumers, Kubernetes, JobStart, JobFinish, JanitorSecrets, GcSecret,
     vars, clusterVars, ctlVars
<1>2. stream \subseteq stream'
  <2>1. CASE Api
    BY <2>1 DEF Api, ApiNext, ManualTrigger, WebhookTrigger, CronFire, Trigger,
       ProjectSecrets, ProjectFails, PublishRequest, PublishFails, Accept, RequestCrash,
       DeleteAgentRequest, busVars, Bus!Publish
  <2>2. CASE StatusConsumers
    BY <2>2 DEF StatusConsumers, StatusNext, WorkerStep, HandlerWork, Handle, HandleFails,
       Receive, Meter, Broadcast, Acknowledge, WorkerCrash, busVars, Bus!Deliver,
       Bus!Ack, Bus!Nak
  <2>3. CASE Kubernetes \/ JanitorSecrets \/ UNCHANGED vars
    BY <2>3 DEF Kubernetes, JanitorSecrets, vars, busVars
  <2> QED
    BY <2>1, <2>2, <2>3
<1> QED
  BY <1>1, <1>2 DEF CompletionOwed, Publishing

\* Without those faults a run whose AgentRun is terminal has its run.completed
\* in the stream or about to be there, as controller.go:50-51 says (RunPipeline's
\* TerminalIsPublished, refuted once a publish may fail or a replica may die).
THEOREM ReliableCompletionsPublished ==
  ASSUME Reliable
  PROVE  Spec => []TerminalIsPublished
<1>1. Init => CompletionOwed
  BY DEF Init, ClusterInit, CompletionOwed, Outcomes
<1>2. PipelineInv /\ StartInv /\ CompletionOwed /\ [Next]_vars => CompletionOwed'
  BY ControllerKeepsOwed, OthersKeepOwed DEF Next
<1>3. CompletionOwed => TerminalIsPublished
  BY DEF CompletionOwed, TerminalIsPublished, Publishing
<1> QED
  BY <1>1, <1>2, <1>3, StartsInitially, StartsPreserved, PipelineInvHolds, PTL DEF Spec

-----------------------------------------------------------------------------
(* What an acked message has metered.  Where no insert fails, a handler    *)
(* leaves nothing behind it: at every step of it the rows due so far are   *)
(* in place, though a second handler of the same message may have written  *)
(* them, and no later step of anyone takes one away.                       *)

\* The kinds a handler has been through at its step.
MeteredBy(task) ==
  CASE task.pc = "meter" -> {}
    [] task.pc = "seconds" -> {"run.end"}
    [] OTHER -> Meters(task.msg)

MeteredIn(table, counts, m, K) ==
  table[m.run].status \notin {"absent", "deleted"} => \A k \in K : counts[m.run][k] = 1
Metered(m, K) == MeteredIn(rows, usage, m, K)

HandledMetered ==
  \A w \in Workers : work[w] # Free => Metered(work[w].msg, MeteredBy(work[w]))

SettledMetered == \A m \in settled \intersect StatusMsg : Metered(m, Meters(m))

BilledInv == HandledMetered /\ SettledMetered

UsageStands == \A r \in Runs, k \in Kinds : usage[r][k] = 1 => usage'[r][k] = 1

\* A run whose row is gone stays gone, and a usage row is never removed.
LEMMA MeteredStays ==
  ASSUME RowsAdvance, UsageStands, NEW m \in StatusMsg, Reflected(m),
         NEW K \in SUBSET Kinds, Metered(m, K)
  PROVE  MeteredIn(rows', usage', m, K)
<1>1. m.run \in Runs
  BY MessageFacts
<1>2. rows'[m.run].status \notin {"absent", "deleted"} => rows[m.run].status \notin {"absent", "deleted"}
  BY <1>1 DEF RowsAdvance, Reflected, ReflectedIn
<1> QED
  BY <1>1, <1>2 DEF UsageStands, Metered, MeteredIn

LEMMA MeteredKinds ==
  ASSUME NEW m, NEW task
  PROVE  Meters(m) \subseteq Kinds /\ MeteredBy(task) \subseteq Kinds
BY DEF Meters, MeteredBy, Kinds

\* A worker's task becomes t, with what t has been through in place, and only
\* a message metered in full is settled.
LEMMA TaskKeepsBilled ==
  ASSUME PipelineInv, BilledInv, RowsAdvance, UsageStands,
         NEW w \in Workers, NEW t, SetWork(w, t),
         t = Free \/ MeteredIn(rows', usage', t.msg, MeteredBy(t)),
         \A m \in settled' \intersect StatusMsg : m \in settled \/ (Metered(m, Meters(m)) /\ Reflected(m))
  PROVE  BilledInv'
<1>1. work'[w] = t /\ \A v \in Workers : v # w => work'[v] = work[v]
  BY DEF SetWork, PipelineInv, TypeInv, TypeOK, StatusTypeOK
<1>2. HandledMetered'
  <2> SUFFICES ASSUME NEW v \in Workers, work'[v] # Free
               PROVE  MeteredIn(rows', usage', work'[v].msg, MeteredBy(work'[v]))
    BY DEF HandledMetered, Metered, MeteredIn, MeteredBy, Meters
  <2>1. CASE v = w
    BY <1>1, <2>1
  <2>2. CASE v # w
    <3>1. work'[v] = work[v] /\ work[v] # Free
      BY <1>1, <2>2
    <3>2. work[v].msg \in StatusMsg /\ Reflected(work[v].msg)
      BY <3>1 DEF PipelineInv, TypeInv, TypeOK, StatusTypeOK, Handling, TableInv, ReflectInv,
         HandledReflected
    <3>3. Metered(work[v].msg, MeteredBy(work[v]))
      BY <3>1 DEF BilledInv, HandledMetered
    <3> QED
      BY <3>1, <3>2, <3>3, MeteredStays, MeteredKinds
  <2> QED
    BY <2>1, <2>2
<1>3. SettledMetered'
  <2> SUFFICES ASSUME NEW m \in settled' \intersect StatusMsg
               PROVE  MeteredIn(rows', usage', m, Meters(m))
    BY DEF SettledMetered, Metered, MeteredIn, Meters
  <2>1. Metered(m, Meters(m)) /\ Reflected(m)
    BY DEF BilledInv, SettledMetered, PipelineInv, TableInv, ReflectInv, SettledReflected
  <2> QED
    BY <2>1, MeteredStays, MeteredKinds
<1> QED
  BY <1>2, <1>3 DEF BilledInv

\* A step of no worker that settles no event of a run.
LEMMA OthersKeepBilled ==
  ASSUME PipelineInv, BilledInv, RowsAdvance, UsageStands, work' = work,
         settled' \intersect StatusMsg \subseteq settled
  PROVE  BilledInv'
<1>1. HandledMetered'
  <2> SUFFICES ASSUME NEW v \in Workers, work[v] # Free
               PROVE  MeteredIn(rows', usage', work[v].msg, MeteredBy(work[v]))
    BY DEF HandledMetered, Metered, MeteredIn, MeteredBy, Meters
  <2>1. work[v].msg \in StatusMsg /\ Reflected(work[v].msg)
    BY DEF PipelineInv, TypeInv, TypeOK, StatusTypeOK, Handling, TableInv, ReflectInv,
       HandledReflected
  <2>2. Metered(work[v].msg, MeteredBy(work[v]))
    BY DEF BilledInv, HandledMetered
  <2> QED
    BY <2>1, <2>2, MeteredStays, MeteredKinds
<1>2. SettledMetered'
  <2> SUFFICES ASSUME NEW m \in settled' \intersect StatusMsg
               PROVE  MeteredIn(rows', usage', m, Meters(m))
    BY DEF SettledMetered, Metered, MeteredIn, Meters
  <2>1. Metered(m, Meters(m)) /\ Reflected(m)
    BY DEF BilledInv, SettledMetered, PipelineInv, TableInv, ReflectInv, SettledReflected
  <2> QED
    BY <2>1, MeteredStays, MeteredKinds
<1> QED
  BY <1>1, <1>2 DEF BilledInv

\* Usage.RecordRun leaves its row there, whoever wrote it, unless the run's
\* row is gone; what was there stays.
LEMMA RecordRunMeters ==
  ASSUME PipelineInv, NEW r \in Runs, NEW k \in Kinds, RecordRun(r, k)
  PROVE  /\ UsageStands /\ rows' = rows
         /\ RowExists(r) => usage'[r][k] = 1
<1>1. usage \in [Runs -> [Kinds -> Nat]] /\ usage[r][k] <= 1
  BY DEF PipelineInv, TypeInv, TypeOK, StoreTypeOK, MeterInv, MeteredOnce
<1> QED
  BY <1>1 DEF RecordRun, UsageStands

LEMMA MeterKeepsBilled ==
  ASSUME "meter" \notin FaultKinds, PipelineInv, BilledInv, RowsAdvance,
         NEW w \in Workers, Meter(w)
  PROVE  BilledInv'
<1> DEFINE t == [work[w] EXCEPT !.pc = AfterMeter(work[w])]
           q == work[w].msg.run
           j == MeterKind(work[w])
<1>1. work[w] \in Handling /\ work[w].msg \in StatusMsg /\ work[w] # Free
  BY DEF Meter, PipelineInv, TypeInv, TypeOK, StatusTypeOK, Handling, Free
<1>2. q \in Runs /\ j \in Kinds
  BY <1>1, MessageFacts DEF MeterKind, Kinds
<1>3. RecordRun(q, j)
  BY DEF Meter, Fault
<1>4. UsageStands /\ rows' = rows /\ (RowExists(q) => usage'[q][j] = 1)
  BY <1>2, <1>3, RecordRunMeters
<1>5. t.msg = work[w].msg /\ t.pc = AfterMeter(work[w])
  BY <1>1 DEF Handling
<1>6. MeteredBy(t) \subseteq MeteredBy(work[w]) \union {j}
  <2>1. work[w].pc \in {"meter", "seconds"}
    BY DEF Meter
  <2>2. work[w].pc = "seconds" => work[w].msg.subject = "run.completed"
    BY DEF PipelineInv, MeterInv, SecondsComplete
  <2>3. work[w].msg.subject \in {"run.started", "run.completed"}
    BY <1>1, MessageFacts
  <2> HIDE DEF t
  <2> QED
    BY <1>5, <2>1, <2>2, <2>3 DEF MeteredBy, Meters, AfterMeter, MeterKind, j
<1>7. Metered(work[w].msg, MeteredBy(work[w])) /\ Reflected(work[w].msg)
  BY <1>1 DEF BilledInv, HandledMetered, PipelineInv, TableInv, ReflectInv, HandledReflected
<1>8. MeteredIn(rows', usage', work[w].msg, MeteredBy(work[w]))
  BY <1>1, <1>4, <1>7, MeteredStays, MeteredKinds
<1>9. SetWork(w, t) /\ settled' = settled
  BY DEF Meter, busVars
<1> HIDE DEF t, j
<1>10. MeteredIn(rows', usage', t.msg, MeteredBy(t))
  BY <1>4, <1>5, <1>6, <1>8 DEF MeteredIn, RowExists
<1> QED
  BY <1>4, <1>9, <1>10, TaskKeepsBilled

LEMMA StatusKeepsBilled ==
  ASSUME "meter" \notin FaultKinds, PipelineInv, BilledInv, StatusConsumers
  PROVE  BilledInv'
<1>1. RowsAdvance
  BY StatusKeepsTables DEF PipelineInv
<1>2. SUFFICES ASSUME NEW w \in Workers, WorkerStep(w) PROVE BilledInv'
  BY DEF StatusConsumers, StatusNext
<1>3. ~Meter(w) => UsageStands
  <2>1. ~Meter(w) => UNCHANGED usage
    BY <1>2 DEF WorkerStep, HandlerWork, Handle, HandleFails, Apply, MarkStarted, MarkCompleted,
       Broadcast, Acknowledge, WorkerCrash, storeVars
  <2> QED
    BY <2>1 DEF UsageStands
<1>4. work \in [Workers -> Handling \union {Free}]
  BY DEF PipelineInv, TypeInv, TypeOK, StatusTypeOK
<1>5. CASE Meter(w)
  BY <1>1, <1>5, MeterKeepsBilled
<1>6. ASSUME ~Meter(w), NEW m \in StatusMsg, Handle(w, m) PROVE BilledInv'
  <2>1. SetWork(w, [pc |-> "meter", msg |-> m]) /\ settled' = settled
    BY <1>6 DEF Handle, Receive, Bus!Deliver
  <2>2. MeteredBy([pc |-> "meter", msg |-> m]) = {}
    BY DEF MeteredBy
  <2>3. MeteredIn(rows', usage', m, {})
    BY DEF MeteredIn
  <2> QED
    BY <1>1, <1>3, <1>6, <2>1, <2>2, <2>3, TaskKeepsBilled
<1>7. ASSUME ~Meter(w), NEW m \in StatusMsg, HandleFails(w, m) PROVE BilledInv'
  BY <1>1, <1>3, <1>7, OthersKeepBilled DEF HandleFails, statusVars, Bus!Deliver
<1>8. ASSUME ~Meter(w), Broadcast(w) PROVE BilledInv'
  <2> DEFINE t == [work[w] EXCEPT !.pc = "ack"]
  <2>1. work[w] \in Handling /\ work[w] # Free /\ work[w].pc = "broadcast"
    BY <1>4, <1>8 DEF Broadcast, Free
  <2>2. t.msg = work[w].msg /\ t.pc = "ack"
    BY <2>1 DEF Handling
  <2>3. SetWork(w, t) /\ UNCHANGED <<settled, rows, usage>>
    BY <1>8 DEF Broadcast, storeVars, busVars
  <2> HIDE DEF t
  <2>4. MeteredBy(t) = MeteredBy(work[w])
    BY <2>1, <2>2 DEF MeteredBy
  <2>5. MeteredIn(rows', usage', t.msg, MeteredBy(t))
    BY <2>1, <2>2, <2>3, <2>4 DEF BilledInv, HandledMetered, Metered
  <2> QED
    BY <1>1, <1>3, <1>8, <2>3, <2>5, TaskKeepsBilled
<1>9. ASSUME ~Meter(w), Acknowledge(w) PROVE BilledInv'
  <2>1. work[w] # Free /\ work[w].pc = "ack"
    BY <1>9 DEF Acknowledge, Free
  <2>2. Metered(work[w].msg, Meters(work[w].msg)) /\ Reflected(work[w].msg)
    BY <2>1 DEF BilledInv, HandledMetered, MeteredBy, PipelineInv, TableInv, ReflectInv,
       HandledReflected
  <2>3. SetWork(w, Free) /\ settled' \subseteq settled \union {work[w].msg}
    BY <1>9 DEF Acknowledge, Bus!Ack, Bus!Nak
  <2> QED
    BY <1>1, <1>3, <1>9, <2>2, <2>3, TaskKeepsBilled
<1>10. ASSUME ~Meter(w), WorkerCrash(w) PROVE BilledInv'
  <2>1. SetWork(w, Free) /\ settled' = settled
    BY <1>10 DEF WorkerCrash, busVars
  <2> QED
    BY <1>1, <1>3, <1>10, <2>1, TaskKeepsBilled
<1> QED
  BY <1>2, <1>5, <1>6, <1>7, <1>8, <1>9, <1>10 DEF WorkerStep, HandlerWork

LEMMA BilledPreserved ==
  ASSUME "meter" \notin FaultKinds
  PROVE  PipelineInv /\ CompletionInv' /\ BilledInv /\ [Next]_vars => BilledInv'
<1> SUFFICES ASSUME PipelineInv, CompletionInv', BilledInv, [Next]_vars PROVE BilledInv'
  OBVIOUS
<1>1. CASE Api
  <2>1. RowsAdvance
    BY <1>1, ApiKeepsTables DEF PipelineInv, CompletionInv, CompletionsAreTrue, OneVerdict
  <2>2. UNCHANGED <<usage, work, settled>>
    BY <1>1 DEF Api, ApiNext, ManualTrigger, WebhookTrigger, CronFire, Trigger, ProjectSecrets,
       ProjectFails, PublishRequest, PublishFails, Accept, RequestCrash, DeleteAgentRequest,
       CreateRow, DeleteAgent, storeVars, statusVars, busVars, Bus!Publish
  <2> QED
    BY <2>1, <2>2, OthersKeepBilled DEF UsageStands
<1>2. CASE Controller
  <2>1. UNCHANGED <<rows, usage, work>>
    BY <1>2 DEF Controller, storeVars, statusVars
  <2>2. RowsAdvance
    BY <2>1, SameRowsAdvance
  <2>3. settled' = settled \/ \E m \in RunRequested : settled' = settled \union {m}
    BY <1>2, ControllerMoves DEF RequestsMove
  <2>4. RunRequested \intersect StatusMsg = {}
    BY DEF RunRequested, StatusMsg, RunStarted, RunCompleted
  <2> QED
    BY <2>1, <2>2, <2>3, <2>4, OthersKeepBilled DEF UsageStands
<1>3. CASE StatusConsumers
  BY <1>3, StatusKeepsBilled
<1>4. CASE Kubernetes \/ JanitorSecrets \/ UNCHANGED vars
  <2>1. UNCHANGED <<rows, usage, work, settled>>
    BY <1>4 DEF Kubernetes, JanitorSecrets, vars, storeVars, busVars, statusVars
  <2> QED
    BY <2>1, SameRowsAdvance, OthersKeepBilled DEF UsageStands
<1> QED
  BY <1>1, <1>2, <1>3, <1>4 DEF Next

\* Where no usage insert fails, an acked run.started has its run.start and an
\* acked run.completed its run.end and its run.seconds, for any number of
\* handlers, redeliveries, lost acks and crashes between the inserts: so the
\* dropped errors of status_consumer.go:60-62 and 93-98 are all that can leave
\* a run that was applied unmetered (RunPipeline's SettledIsMetered).
THEOREM SettledMessagesMetered ==
  ASSUME "meter" \notin FaultKinds
  PROVE  Spec => []SettledIsMetered
<1>1. Init => BilledInv
  BY DEF Init, Bus!BusInit, StatusInit, BilledInv, HandledMetered, SettledMetered
<1>2. PipelineInv /\ PipelineInv' /\ BilledInv /\ [Next]_vars => BilledInv'
  BY BilledPreserved DEF PipelineInv
<1>3. PipelineInv /\ BilledInv => SettledIsMetered
  <2> SUFFICES ASSUME PipelineInv, BilledInv, NEW m \in settled \ RunRequested
               PROVE  RowExists(m.run) => \A k \in Meters(m) : usage[m.run][k] = 1
    BY DEF SettledIsMetered
  <2>1. m \in StatusMsg
    BY DEF PipelineInv, TypeInv, TypeOK, Bus!BusTypeOK, RunMsg, StatusMsg
  <2> QED
    BY <2>1 DEF BilledInv, SettledMetered, Metered, MeteredIn, RowExists
<1> QED
  BY <1>1, <1>2, <1>3, PipelineInvHolds, PTL DEF Spec
=============================================================================
