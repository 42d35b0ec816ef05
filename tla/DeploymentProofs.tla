-------------------------- MODULE DeploymentProofs --------------------------
(***************************************************************************)
(* Deployments is type correct, its status is never stale, its reconciler  *)
(* never rests on work it has not done, and requests made in quiet have    *)
(* the last word: for every set of requests, every assignment of ports and *)
(* every set of faults.  The gateway's cache on top is type correct.       *)
(***************************************************************************)
EXTENDS Gateway, TLAPS

-----------------------------------------------------------------------------
(* Types.  A handler holds a message that is stored, or an ack would       *)
(* settle one that is not.                                                 *)

HandledIsStored ==
  /\ dispatching # Idle => dispatching.msg \in stream
  /\ stopping # Idle => stopping.msg \in stream

TypeInv == TypeOK /\ HandledIsStored

LEMMA FaultTypes ==
  ASSUME FaultTypeOK, NEW k, Mishap(k) PROVE FaultTypeOK'
BY FaultsAssumption DEF FaultTypeOK, Mishap, Fault

LEMMA BusTypes ==
  ASSUME Bus!BusTypeOK, NEW m \in Deploys \union Stops
  PROVE  /\ Bus!Publish(m) => Bus!BusTypeOK' /\ stream \subseteq stream'
         /\ Bus!Deliver(m) => Bus!BusTypeOK' /\ UNCHANGED stream /\ m \in stream
         /\ Bus!Ack(m) /\ m \in stream => Bus!BusTypeOK' /\ UNCHANGED stream
         /\ Bus!Nak => Bus!BusTypeOK' /\ UNCHANGED stream
BY DeployDeliverAssumption
DEF Bus!BusTypeOK, Bus!Publish, Bus!Deliver, Bus!Deliverable, Bus!Ack, Bus!Nak

LEMMA AckTypes ==
  ASSUME Bus!BusTypeOK, FaultTypeOK, NEW m \in stream, m \in Deploys \union Stops,
         AckOrLoseIt(m)
  PROVE  Bus!BusTypeOK' /\ FaultTypeOK' /\ UNCHANGED stream
BY BusTypes, FaultTypes DEF AckOrLoseIt, FaultTypeOK

LEMMA PortTypes == \A d \in Deploys : Port(d) \in Ports /\ Port(d) # NoUrl
<1> SUFFICES ASSUME NEW d \in Deploys PROVE Port(d) \in Ports /\ Port(d) # NoUrl
  OBVIOUS
<1>1. Port(d) \in Ports
  BY DEF Ports
<1>2. Port(d) # NoUrl
  BY DEF Port, PortOrDefault, NoUrl
<1> QED
  BY <1>1, <1>2

LEMMA ObjectTypes ==
  ASSUME TypeOK
  PROVE  /\ \A d \in Deploys : NewCR(d) \in AgentDeployment
         /\ \A ad \in AgentDeployment : Applied(ad) \in Owned
         /\ \A x \in AgentDeployment :
              /\ [x EXCEPT !.rv = version + 1] \in AgentDeployment
              /\ \A d \in Deploys : [x EXCEPT !.spec = d] \in AgentDeployment
              /\ \A u \in Ports : [x EXCEPT !.url = u] \in AgentDeployment
BY DEF TypeOK, NewCR, Applied, AgentDeployment, Owned

LEMMA CurrentIsObject ==
  ASSUME TypeOK, NEW seen, IsCurrent(seen) PROVE cr \in AgentDeployment
BY DEF TypeOK, IsCurrent

LEMMA RewriteTypes ==
  ASSUME TypeOK, NEW x \in AgentDeployment, Rewrite(x)
  PROVE  cr' \in AgentDeployment \union {Absent} /\ version' \in Nat
BY ObjectTypes DEF TypeOK, Rewrite

LEMMA DispatchTypes ==
  ASSUME TypeInv, dispatching # Idle
  PROVE  /\ dispatching.msg \in Deploys /\ dispatching.msg \in stream
         /\ dispatching.stage = "update" => dispatching.seen \in AgentDeployment
BY DEF TypeInv, TypeOK, HandledIsStored, Idle

LEMMA ReconcileTypes ==
  ASSUME TypeInv, reconciling # Idle
  PROVE  reconciling \in [stage: {"deployment", "service", "status"}, ad: AgentDeployment]
BY DEF TypeInv, TypeOK

\* The write of a dispatch or of the status: the object stays one.
LEMMA WriteTypes ==
  ASSUME TypeInv
  PROVE  /\ \A d \in Deploys : CreatedCR(d) =>
               cr' \in AgentDeployment \union {Absent} /\ version' \in Nat
         /\ \A d \in Deploys : cr # Absent /\ Rewrite([cr EXCEPT !.spec = d]) =>
               cr' \in AgentDeployment \union {Absent} /\ version' \in Nat
         /\ \A u \in Ports : cr # Absent /\ Rewrite([cr EXCEPT !.url = u]) =>
               cr' \in AgentDeployment \union {Absent} /\ version' \in Nat
<1> USE DEF TypeInv
<1>1. ASSUME NEW d \in Deploys, CreatedCR(d)
      PROVE  cr' \in AgentDeployment \union {Absent} /\ version' \in Nat
  BY <1>1, ObjectTypes DEF CreatedCR, TypeOK
<1>2. cr # Absent => cr \in AgentDeployment
  BY DEF TypeOK
<1>3. ASSUME NEW d \in Deploys, cr # Absent, Rewrite([cr EXCEPT !.spec = d])
      PROVE  cr' \in AgentDeployment \union {Absent} /\ version' \in Nat
  BY <1>2, <1>3, ObjectTypes, RewriteTypes
<1>4. ASSUME NEW u \in Ports, cr # Absent, Rewrite([cr EXCEPT !.url = u])
      PROVE  cr' \in AgentDeployment \union {Absent} /\ version' \in Nat
  BY <1>2, <1>4, ObjectTypes, RewriteTypes
<1> QED
  BY <1>1, <1>3, <1>4

LEMMA TypesInitially == Init => TypeInv
<1>1. Init => FaultTypeOK /\ Bus!BusTypeOK
  BY FaultsAssumption, DeployDeliverAssumption
  DEF Init, FaultInit, FaultTypeOK, Bus!BusInit, Bus!BusTypeOK
<1>2. Init => TypeOK
  <2>1. Init => version \in Nat
    BY DEF Init
  <2>2. Init => /\ cr = Absent /\ cached = Absent /\ deployment = Absent /\ service = Absent
                /\ dispatching = Idle /\ stopping = Idle /\ reconciling = Idle
                /\ queued = FALSE /\ wanted = Unclear
                /\ lagging = {} /\ deploymentCopy = Absent /\ serviceCopy = Absent
    BY DEF Init
  <2>3. Init => lagging \in SUBSET {"deployment", "service"}
    BY <2>2
  <2> QED
    BY <1>1, <2>1, <2>2, <2>3, Zenon DEF TypeOK
<1> QED
  BY <1>2 DEF Init, TypeInv, HandledIsStored

LEMMA ConsumersTypes ==
  ASSUME TypeInv,
         \/ ApiStep
         \/ \E d \in Deploys : TakeRequested(d)
         \/ \E s \in Stops : TakeStopped(s)
         \/ Dispatch \/ DeleteCR
  PROVE  TypeInv'
<1> USE DEF TypeInv, TypeOK, copies
<1>1. ASSUME UNCHANGED faults PROVE FaultTypeOK'
  BY <1>1 DEF FaultTypeOK
<1>2. ASSUME UNCHANGED <<dispatching, stopping>>, stream \subseteq stream'
      PROVE  HandledIsStored'
  BY <1>2 DEF HandledIsStored
<1>3. ASSUME NEW q \in Deploys \union Stops, Publishes(q) PROVE TypeInv'
  <2>1. Bus!BusTypeOK' /\ stream \subseteq stream'
    BY <1>3, BusTypes DEF Publishes
  <2> QED
    BY <1>1, <1>2, <1>3, <2>1 DEF Publishes, clusterVars, controllerVars
<1>4. ASSUME NEW d \in Deploys, TakeRequested(d) PROVE TypeInv'
  <2>1. Bus!BusTypeOK' /\ UNCHANGED stream /\ d \in stream
    BY <1>4, BusTypes DEF TakeRequested
  <2>2. HandledIsStored'
    BY <1>4, <2>1 DEF TakeRequested, HandledIsStored
  <2> QED
    BY <1>1, <1>4, <2>1, <2>2 DEF TakeRequested, clusterVars
<1>5. ASSUME NEW s \in Stops, TakeStopped(s) PROVE TypeInv'
  <2>1. Bus!BusTypeOK' /\ UNCHANGED stream /\ s \in stream
    BY <1>5, BusTypes DEF TakeStopped
  <2>2. HandledIsStored'
    BY <1>5, <2>1 DEF TakeStopped, HandledIsStored
  <2> QED
    BY <1>1, <1>5, <2>1, <2>2 DEF TakeStopped, clusterVars
<1>6. ASSUME Dispatched, Bus!BusTypeOK', FaultTypeOK', UNCHANGED stream,
             cr' \in AgentDeployment \union {Absent}, version' \in Nat
      PROVE  TypeInv'
  BY <1>6 DEF Dispatched, HandledIsStored
<1>7. ASSUME CreateCR PROVE TypeInv'
  <2>1. dispatching.msg \in Deploys /\ dispatching.msg \in stream
    BY <1>7, DispatchTypes DEF CreateCR, Idle
  <2>2. Bus!BusTypeOK' /\ FaultTypeOK' /\ UNCHANGED stream
    <3>1. PICK m \in Deploys : m = dispatching.msg
      BY <2>1
    <3> QED
      BY <1>7, <2>1, <3>1, AckTypes DEF CreateCR
  <2>3. cr' \in AgentDeployment \union {Absent} /\ version' \in Nat
    BY <1>7, <2>1, WriteTypes DEF CreateCR
  <2> QED
    BY <1>6, <1>7, <2>2, <2>3 DEF CreateCR
<1>8. ASSUME UpdateCR PROVE TypeInv'
  <2>1. dispatching.msg \in Deploys /\ dispatching.msg \in stream
    BY <1>8, DispatchTypes DEF UpdateCR, Idle
  <2>2. Bus!BusTypeOK' /\ FaultTypeOK' /\ UNCHANGED stream
    <3>1. PICK m \in Deploys : m = dispatching.msg
      BY <2>1
    <3> QED
      BY <1>1, <1>8, <2>1, <3>1, AckTypes, BusTypes DEF UpdateCR, UpdateSettles
  <2>3. cr' \in AgentDeployment \union {Absent} /\ version' \in Nat
    BY <1>8, <2>1, WriteTypes DEF UpdateCR, IsCurrent
  <2> QED
    BY <1>6, <1>8, <2>2, <2>3 DEF UpdateCR
<1>9. ASSUME DispatchFails PROVE TypeInv'
  <2>1. dispatching.msg \in Deploys
    BY <1>9, DispatchTypes DEF DispatchFails
  <2>2. Bus!BusTypeOK' /\ UNCHANGED stream
    BY <1>9 DEF DispatchFails, Bus!Nak, Bus!BusTypeOK
  <2>3. cr' \in AgentDeployment \union {Absent} /\ version' \in Nat
    BY <1>9, <2>1, WriteTypes DEF DispatchFails, IsCurrent
  <2>4. FaultTypeOK'
    BY <1>9, FaultTypes DEF DispatchFails
  <2> QED
    BY <1>6, <1>9, <2>2, <2>3, <2>4 DEF DispatchFails
<1>10. ASSUME DeleteCR PROVE TypeInv'
  <2>1. stopping.msg \in Stops /\ stopping.msg \in stream
    BY <1>10 DEF DeleteCR, HandledIsStored, Idle
  <2>2. Bus!BusTypeOK' /\ FaultTypeOK' /\ UNCHANGED stream
    <3>1. PICK m \in Stops : m = stopping.msg
      BY <2>1
    <3>2. ASSUME Mishap("kube"), Bus!Nak
          PROVE  Bus!BusTypeOK' /\ FaultTypeOK' /\ UNCHANGED stream
      BY <3>2, FaultTypes DEF Bus!Nak, Bus!BusTypeOK
    <3> QED
      BY <1>10, <2>1, <3>1, <3>2, AckTypes DEF DeleteCR
  <2> QED
    BY <1>10, <2>2 DEF DeleteCR, HandledIsStored
<1> QED
  BY <1>3, <1>4, <1>5, <1>7, <1>8, <1>9, <1>10 DEF ApiStep, Deploy, Undeploy, Dispatch

LEMMA ReconcilerTypes ==
  ASSUME TypeInv,
         \/ SyncCache \/ SyncDeployment \/ SyncService
         \/ Reconcile \/ ControllerRestarts \/ KubernetesStep
         \/ UNCHANGED vars
  PROVE  TypeInv'
<1> USE DEF TypeInv, TypeOK, copies
<1>1. ASSUME UNCHANGED faults PROVE FaultTypeOK'
  BY <1>1 DEF FaultTypeOK
<1>2. ASSUME UNCHANGED busVars PROVE Bus!BusTypeOK' /\ UNCHANGED stream
  BY <1>2 DEF busVars, Bus!BusTypeOK
<1>3. ASSUME Reconciles, FaultTypeOK', queued' \in BOOLEAN,
             cr' \in AgentDeployment \union {Absent}, version' \in Nat,
             deployment' \in Owned \union {Absent}, service' \in Owned \union {Absent},
             lagging' \in SUBSET {"deployment", "service"},
             reconciling' \in {Idle} \union [stage: {"deployment", "service", "status"}, ad: AgentDeployment]
      PROVE  TypeInv'
  <2>1. UNCHANGED <<cached, deploymentCopy, serviceCopy, dispatching, stopping, wanted>>
        /\ UNCHANGED busVars
    BY <1>3 DEF Reconciles
  <2> QED
    BY <1>2, <1>3, <2>1 DEF HandledIsStored
<1>4. ASSUME SyncCache \/ SyncDeployment \/ SyncService PROVE TypeInv'
  BY <1>1, <1>2, <1>4 DEF SyncCache, SyncDeployment, SyncService, clusterVars, HandledIsStored
<1>5. ASSUME StartReconcile PROVE TypeInv'
  <2>1. reconciling' \in {Idle} \union [stage: {"deployment", "service", "status"}, ad: AgentDeployment]
    BY <1>5 DEF StartReconcile
  <2>2. /\ UNCHANGED <<cr, version, deployment, service, lagging, cached, deploymentCopy,
                       serviceCopy, dispatching, stopping, wanted>>
        /\ UNCHANGED busVars /\ UNCHANGED faults /\ queued' = FALSE
    BY <1>5 DEF StartReconcile, clusterVars
  <2> QED
    BY <1>3, <2>1, <2>2, <1>1 DEF Reconciles
<1>6. ASSUME ApplyDeployment PROVE TypeInv'
  <2>1. reconciling \in [stage: {"deployment", "service", "status"}, ad: AgentDeployment]
    BY <1>6, ReconcileTypes DEF ApplyDeployment, Idle
  <2>2. Applied(reconciling.ad) \in Owned
    BY <2>1, ObjectTypes
  <2>3. reconciling' \in {Idle} \union [stage: {"deployment", "service", "status"}, ad: AgentDeployment]
    BY <1>6, <2>1 DEF ApplyDeployment, Requeue, Continue
  <2>4. deployment' \in Owned \union {Absent} /\ lagging' \in SUBSET {"deployment", "service"}
    BY <1>6, <2>2 DEF ApplyDeployment, WriteDeployment
  <2>5. queued' \in BOOLEAN
    BY <1>6, Zenon DEF ApplyDeployment, Requeue
  <2>6. FaultTypeOK'
    BY <1>1, <1>6, FaultTypes DEF ApplyDeployment
  <2> QED
    BY <1>3, <1>6, <2>3, <2>4, <2>5, <2>6 DEF ApplyDeployment
<1>7. ASSUME ApplyService PROVE TypeInv'
  <2>1. reconciling \in [stage: {"deployment", "service", "status"}, ad: AgentDeployment]
    BY <1>7, ReconcileTypes DEF ApplyService, Idle
  <2>2. Applied(reconciling.ad) \in Owned
    BY <2>1, ObjectTypes
  <2>3. reconciling' \in {Idle} \union [stage: {"deployment", "service", "status"}, ad: AgentDeployment]
    BY <1>7, <2>1 DEF ApplyService, Requeue, Continue
  <2>4. service' \in Owned \union {Absent} /\ lagging' \in SUBSET {"deployment", "service"}
    BY <1>7, <2>2 DEF ApplyService, WriteService
  <2>5. queued' \in BOOLEAN
    BY <1>7, Zenon DEF ApplyService, Requeue
  <2>6. FaultTypeOK'
    BY <1>1, <1>7, FaultTypes DEF ApplyService
  <2> QED
    BY <1>3, <1>7, <2>3, <2>4, <2>5, <2>6 DEF ApplyService
<1>8. ASSUME UpdateStatus PROVE TypeInv'
  <2>1. reconciling.ad.spec \in Deploys
    BY <1>8, ReconcileTypes DEF UpdateStatus, Idle, AgentDeployment
  <2>2. cr' \in AgentDeployment \union {Absent} /\ version' \in Nat
    BY <1>8, <2>1, WriteTypes, PortTypes DEF UpdateStatus, WriteStatus, IsCurrent
  <2>3. reconciling' = Idle /\ queued' \in BOOLEAN
    BY <1>8 DEF UpdateStatus, Requeue
  <2>4. FaultTypeOK'
    BY <1>1, <1>8, FaultTypes DEF UpdateStatus
  <2> QED
    BY <1>3, <1>8, <2>2, <2>3, <2>4 DEF UpdateStatus
<1>9. ASSUME ControllerRestarts PROVE TypeInv'
  BY <1>2, <1>9, FaultTypes DEF ControllerRestarts, HandledIsStored
<1>10. ASSUME KubernetesStep PROVE TypeInv'
  <2>1. UNCHANGED busVars /\ FaultTypeOK'
    BY <1>1, <1>10, FaultTypes DEF KubernetesStep, Collect, RollOut
  <2> QED
    BY <1>2, <1>10, <2>1 DEF KubernetesStep, Collect, RollOut, controllerVars, HandledIsStored
<1>11. ASSUME UNCHANGED vars PROVE TypeInv'
  BY <1>1, <1>2, <1>11 DEF vars, clusterVars, controllerVars, HandledIsStored
<1> QED
  BY <1>4, <1>5, <1>6, <1>7, <1>8, <1>9, <1>10, <1>11 DEF Reconcile

LEMMA TypesPreserved == TypeInv /\ [Next]_vars => TypeInv'
BY ConsumersTypes, ReconcilerTypes DEF Next, ControllerStep, Consume

\* Deployments is well typed; in particular a consumer only ever settles a
\* stored message.
THEOREM DeploymentsTypeCorrect == Spec => []TypeOK
<1>1. TypeInv => TypeOK
  BY DEF TypeInv
<1> QED
  BY <1>1, TypesInitially, TypesPreserved, PTL DEF Spec

-----------------------------------------------------------------------------
(* Status.  Whatever was read earlier, by the informer, a dispatch or a    *)
(* reconcile, is the object as it is now or has an older version: versions *)
(* are never handed out twice, not even to an object of the same name      *)
(* created later.  So a write that the api-server takes was computed from  *)
(* the object it changes.                                                  *)

IsReading(x) == /\ x.rv <= version
                /\ cr # Absent /\ x.rv = cr.rv => x = cr

ReadingsLag ==
  /\ cr # Absent => cr.rv <= version
  /\ cached # Absent => IsReading(cached)
  /\ dispatching.stage = "update" => IsReading(dispatching.seen)
  /\ reconciling # Idle => IsReading(reconciling.ad)

StatusInv == TypeInv /\ ReadingsLag

LEMMA StatusInitially == Init => StatusInv
BY TypesInitially DEF Init, StatusInv, ReadingsLag, Idle

\* What may happen to the object: nothing, its deletion, its creation, or a
\* write that gives it the next version.
Writes ==
  \/ UNCHANGED <<cr, version>>
  \/ cr' = Absent /\ UNCHANGED version
  \/ cr' # Absent /\ cr'.rv = version + 1 /\ version' = version + 1

\* No step breaks a reading.
LEMMA ReadingsStay ==
  ASSUME StatusInv, Writes
  PROVE  \A x \in AgentDeployment : IsReading(x) => IsReading(x)'
BY DEF StatusInv, TypeInv, TypeOK, Writes, IsReading, AgentDeployment

LEMMA WritesOnly ==
  ASSUME StatusInv, [Next]_vars
  PROVE  /\ Writes
         /\ cr' # Absent /\ cr # Absent /\ cr'.uid = cr.uid /\ cr'.url # cr.url
              => cr'.url = Port(cr'.spec)
<1> DEFINE Fresh == cr' # Absent /\ cr # Absent /\ cr'.uid = cr.uid /\ cr'.url # cr.url
                      => cr'.url = Port(cr'.spec)
<1> USE DEF StatusInv, TypeInv, TypeOK
<1>1. cr # Absent => cr \in AgentDeployment
  OBVIOUS
<1>2. ASSUME UNCHANGED <<cr, version>> PROVE Writes /\ Fresh
  BY <1>2 DEF Writes
<1>3. ASSUME NEW d \in Deploys, cr = Absent, CreatedCR(d) PROVE Writes /\ Fresh
  BY <1>3 DEF CreatedCR, NewCR, Writes, Absent
<1>4. ASSUME NEW d \in Deploys, cr # Absent, Rewrite([cr EXCEPT !.spec = d])
      PROVE  Writes /\ Fresh
  <2>1. CASE [cr EXCEPT !.spec = d] = cr
    BY <1>2, <1>4, <2>1 DEF Rewrite
  <2>2. CASE [cr EXCEPT !.spec = d] # cr
    BY <1>1, <1>4, <2>2 DEF Rewrite, Writes, Absent, AgentDeployment
  <2> QED
    BY <2>1, <2>2
<1>5. ASSUME UpdateStatus PROVE Writes /\ Fresh
  <2>1. CASE WriteStatus
    <3>1. reconciling.ad = cr /\ cr # Absent
      BY <1>5, <2>1 DEF UpdateStatus, WriteStatus, IsCurrent, ReadingsLag, IsReading, Idle
    <3>2. CASE [cr EXCEPT !.url = Port(cr.spec)] = cr
      BY <1>2, <2>1, <3>1, <3>2 DEF WriteStatus, Rewrite
    <3>3. CASE [cr EXCEPT !.url = Port(cr.spec)] # cr
      <4> DEFINE new == [cr EXCEPT !.url = Port(cr.spec)]
      <4>1. cr' = [new EXCEPT !.rv = version + 1] /\ version' = version + 1
        BY <2>1, <3>1, <3>3 DEF WriteStatus, Rewrite
      <4>2. /\ cr'.url = Port(cr.spec) /\ cr'.spec = cr.spec
            /\ cr'.rv = version + 1 /\ cr'.kind = "agentdeployment"
        BY <1>1, <3>1, <4>1 DEF AgentDeployment
      <4>3. cr' # Absent
        BY <4>2 DEF Absent
      <4> QED
        BY <4>1, <4>2, <4>3 DEF Writes
    <3> QED
      BY <3>2, <3>3
  <2>2. CASE UNCHANGED <<cr, version>>
    BY <1>2, <2>2
  <2> QED
    BY <1>5, <2>1, <2>2 DEF UpdateStatus
<1>6. ASSUME CreateCR PROVE Writes /\ Fresh
  BY <1>2, <1>3, <1>6, DispatchTypes DEF CreateCR, Idle
<1>7. ASSUME UpdateCR PROVE Writes /\ Fresh
  BY <1>2, <1>4, <1>7, DispatchTypes DEF UpdateCR, IsCurrent, Idle
<1>8. ASSUME DispatchFails PROVE Writes /\ Fresh
  BY <1>2, <1>3, <1>4, <1>8, DispatchTypes DEF DispatchFails, IsCurrent
<1>9. ASSUME DeleteCR PROVE Writes /\ Fresh
  BY <1>2, <1>9 DEF DeleteCR, Writes
<1> QED
  BY <1>2, <1>5, <1>6, <1>7, <1>8, <1>9
  DEF Next, ApiStep, ControllerStep, Consume, Dispatch, Reconcile, Deploy, Undeploy, Publishes,
      TakeRequested, TakeStopped, SyncCache, SyncDeployment, SyncService, StartReconcile,
      ApplyDeployment, ApplyService, ControllerRestarts, KubernetesStep, Collect, RollOut,
      vars, clusterVars

\* A step takes its readings of the cache, and the cache its copy of cr.
LEMMA ReadingsPreserved == StatusInv /\ [Next]_vars => StatusInv'
<1> SUFFICES ASSUME StatusInv, [Next]_vars PROVE StatusInv'
  OBVIOUS
<1> USE DEF StatusInv
<1>1. TypeInv' /\ Writes
  BY TypesPreserved, WritesOnly
<1>2. \A x \in AgentDeployment : IsReading(x) => IsReading(x)'
  BY <1>1, ReadingsStay
<1>3. cr' # Absent => cr'.rv <= version' /\ IsReading(cr)'
  BY <1>1 DEF Writes, ReadingsLag, IsReading, TypeInv, TypeOK, AgentDeployment
<1>4. cached' # Absent => IsReading(cached)'
  <2>1. cached' \in {cached, cr} /\ (cached' # cached => UNCHANGED cr)
    BY DEF Next, ApiStep, ControllerStep, Consume, Dispatch, Reconcile, Deploy, Undeploy, Publishes,
           TakeRequested, TakeStopped, SyncCache, SyncDeployment, SyncService,
           StartReconcile, ApplyDeployment, ApplyService, UpdateStatus, CreateCR, UpdateCR, DispatchFails, DeleteCR,
           Dispatched, Reconciles, ControllerRestarts, KubernetesStep, Collect,
           RollOut, vars, clusterVars, controllerVars, copies
  <2>2. cached # Absent => cached \in AgentDeployment
    BY DEF TypeInv, TypeOK
  <2> QED
    BY <1>2, <1>3, <2>1, <2>2 DEF ReadingsLag, IsReading
<1>5. dispatching'.stage = "update" => IsReading(dispatching.seen)'
  <2>1. dispatching.stage = "update" => dispatching.seen \in AgentDeployment
    BY DispatchTypes DEF Idle
  <2>2. \/ dispatching' = dispatching \/ dispatching' = Idle
        \/ \E d \in Deploys : dispatching' = [stage |-> "create", msg |-> d]
        \/ /\ cached \in AgentDeployment
           /\ \E d \in Deploys : dispatching' = [stage |-> "update", msg |-> d, seen |-> cached]
    BY DEF Next, ApiStep, ControllerStep, Consume, Dispatch, Reconcile, Deploy, Undeploy, Publishes,
           TakeRequested, TakeStopped, SyncCache, SyncDeployment, SyncService,
           StartReconcile, ApplyDeployment, ApplyService, UpdateStatus, CreateCR, UpdateCR, DispatchFails, DeleteCR,
           Dispatched, Reconciles, ControllerRestarts, KubernetesStep, Collect,
           RollOut, vars, clusterVars, controllerVars, copies, TypeInv, TypeOK
  <2>3. CASE dispatching' = dispatching
    BY <1>2, <2>1, <2>3 DEF ReadingsLag, IsReading
  <2>4. CASE /\ cached \in AgentDeployment
             /\ \E d \in Deploys :
                  dispatching' = [stage |-> "update", msg |-> d, seen |-> cached]
    BY <1>2, <2>4 DEF ReadingsLag, IsReading, AgentDeployment, Absent
  <2> QED
    BY <2>2, <2>3, <2>4 DEF Idle
<1>6. reconciling' # Idle => IsReading(reconciling.ad)'
  <2>1. reconciling # Idle =>
          reconciling \in [stage: {"deployment", "service", "status"}, ad: AgentDeployment]
    BY ReconcileTypes
  <2>2. \/ reconciling' = reconciling \/ reconciling' = Idle
        \/ reconciling # Idle /\ \E st \in {"service", "status"} : Continue(st)
        \/ cached \in AgentDeployment /\ reconciling' = [stage |-> "deployment", ad |-> cached]
    BY DEF Next, ApiStep, ControllerStep, Consume, Dispatch, Reconcile, Deploy, Undeploy, Publishes,
           TakeRequested, TakeStopped, SyncCache, SyncDeployment, SyncService,
           StartReconcile, ApplyDeployment, ApplyService, UpdateStatus, CreateCR, UpdateCR, DispatchFails, DeleteCR,
           Dispatched, Reconciles, Requeue, ControllerRestarts, KubernetesStep, Collect,
           RollOut, vars, clusterVars, controllerVars, copies, TypeInv, TypeOK, Idle
  <2>3. reconciling # Idle /\ reconciling'.ad = reconciling.ad => IsReading(reconciling.ad)'
    BY <1>2, <2>1 DEF ReadingsLag, IsReading
  <2>4. CASE reconciling # Idle /\ \E st \in {"service", "status"} : Continue(st)
    BY <2>1, <2>3, <2>4 DEF Continue
  <2>5. CASE cached \in AgentDeployment /\ reconciling' = [stage |-> "deployment", ad |-> cached]
    BY <1>2, <2>5 DEF ReadingsLag, IsReading, AgentDeployment, Absent
  <2> QED
    BY <2>2, <2>3, <2>4, <2>5
<1> QED
  BY <1>1, <1>3, <1>4, <1>5, <1>6 DEF ReadingsLag

\* What the status of an AgentDeployment says was computed from the spec it
\* has at that moment, whatever was stale, deleted and created again, or
\* written by another handler in between.
THEOREM StatusFresh == Spec => StatusIsOfTheSpec
<1>1. StatusInv /\ [Next]_vars
        => [cr' # Absent /\ cr # Absent /\ cr'.uid = cr.uid /\ cr'.url # cr.url
              => cr'.url = Port(cr'.spec)]_vars
  BY WritesOnly
<1> QED
  BY <1>1, StatusInitially, ReadingsPreserved, PTL DEF Spec, StatusIsOfTheSpec

-----------------------------------------------------------------------------
(* Settled deployments.  While no reconcile is queued, and the informer    *)
(* has the object as it is, what the current reconcile has done so far, or *)
(* all there is to do when none runs, is done: the owned object is as      *)
(* wanted, or its copy was and an event that queues another reconcile is   *)
(* on its way.                                                             *)

Done(kind, copy, object) ==
  Matches(object, cr) \/ (Matches(copy, cr) /\ kind \in lagging)

\* An informer without events on their way has the object.
CopiesLag ==
  /\ "deployment" \notin lagging => deploymentCopy = deployment
  /\ "service" \notin lagging => serviceCopy = service

DeploymentDone == Done("deployment", deploymentCopy, deployment)
ServiceDone == Done("service", serviceCopy, service)

Progress ==
  /\ reconciling # Idle => reconciling.ad = cr
  /\ reconciling = Idle \/ reconciling.stage \in {"service", "status"} => DeploymentDone
  /\ reconciling = Idle \/ reconciling.stage = "status" => ServiceDone
  /\ reconciling = Idle => cr.url = Port(cr.spec)

SettledInv ==
  /\ StatusInv
  /\ CopiesLag
  /\ ~queued /\ cached = cr /\ cr # Absent => Progress

LEMMA SettledInitially == Init => SettledInv
BY StatusInitially DEF Init, SettledInv, CopiesLag

LEMMA CopiesLagPreserved == CopiesLag /\ [Next]_vars => CopiesLag'
BY DEF CopiesLag, Next, ApiStep, ControllerStep, Consume, KubernetesStep, Dispatch, Reconcile, Deploy,
       Undeploy, Publishes, TakeRequested, TakeStopped, SyncCache, SyncDeployment, SyncService,
       StartReconcile, ApplyDeployment, WriteDeployment, ApplyService, WriteService,
       UpdateStatus, CreateCR, UpdateCR, DispatchFails, DeleteCR, Dispatched, Reconciles,
       ControllerRestarts, Collect, RollOut, vars, clusterVars, controllerVars, copies

\* A version the object gets is one the informer has not seen.
LEMMA CaughtUpIsUntouched ==
  ASSUME StatusInv, Writes, UNCHANGED cached, cached' = cr', cr' # Absent
  PROVE  UNCHANGED cr
BY DEF Writes, StatusInv, ReadingsLag, IsReading, TypeInv, TypeOK, AgentDeployment

\* The api and the consumers write the object at most.
LEMMA ConsumersOnlyWrite ==
  ASSUME ApiStep \/ (\E d \in Deploys : TakeRequested(d)) \/ (\E s \in Stops : TakeStopped(s))
           \/ Dispatch \/ DeleteCR \/ UNCHANGED vars
  PROVE  UNCHANGED <<cached, deployment, service, lagging, deploymentCopy, serviceCopy,
                     reconciling, queued>>
BY DEF ApiStep, Deploy, Undeploy, Publishes, TakeRequested, TakeStopped, Dispatch, CreateCR,
       UpdateCR, DispatchFails, Dispatched, DeleteCR, vars, clusterVars, controllerVars, copies

\* What a step leaves as it was, or marks as lagging, stays done.  The garbage
\* collector takes nothing that is as the object wants it.
LEMMA KubernetesLeavesDone ==
  ASSUME KubernetesStep, cr # Absent
  PROVE  (DeploymentDone => DeploymentDone') /\ (ServiceDone => ServiceDone')
<1>1. /\ UNCHANGED <<cr, deploymentCopy, serviceCopy>>
      /\ lagging \subseteq lagging'
      /\ UNCHANGED deployment \/ Orphan(deployment)
      /\ UNCHANGED service \/ Orphan(service)
  BY DEF KubernetesStep, Collect, RollOut, controllerVars, copies
<1>2. \A object : Orphan(object) => ~Matches(object, cr)
  BY DEF Orphan, LiveUids, Matches
<1> QED
  BY <1>1, <1>2 DEF DeploymentDone, ServiceDone, Done, Matches

\* A step of the reconciler that does not end in an error does its part,
\* unless its copy was as wanted and the object was not.
LEMMA ApplyingIsDone ==
  ASSUME CopiesLag, TypeInv, cr # Absent, reconciling # Idle => reconciling.ad = cr, ~queued'
  PROVE  /\ ApplyDeployment => DeploymentDone' /\ (ServiceDone => ServiceDone')
         /\ ApplyService => ServiceDone' /\ (DeploymentDone => DeploymentDone')
<1>1. Matches(Applied(cr), cr)
  BY DEF Matches, Applied, Absent
<1>2. ASSUME ApplyDeployment PROVE DeploymentDone' /\ (ServiceDone => ServiceDone')
  <2>1. /\ reconciling.ad = cr /\ UNCHANGED <<cr, service, deploymentCopy, serviceCopy>>
        /\ \/ deployment' = Applied(cr) /\ lagging' = lagging \union {"deployment"}
           \/ Matches(deploymentCopy, cr) /\ UNCHANGED <<deployment, lagging>>
    BY <1>2 DEF ApplyDeployment, WriteDeployment, Requeue, Reconciles, copies, Idle
  <2>2. CASE deployment' = Applied(cr) /\ lagging' = lagging \union {"deployment"}
    BY <1>1, <2>1, <2>2 DEF DeploymentDone, ServiceDone, Done, Matches
  <2>3. CASE Matches(deploymentCopy, cr) /\ UNCHANGED <<deployment, lagging>>
    BY <2>1, <2>3 DEF DeploymentDone, ServiceDone, Done, Matches, CopiesLag
  <2> QED
    BY <2>1, <2>2, <2>3
<1>3. ASSUME ApplyService PROVE ServiceDone' /\ (DeploymentDone => DeploymentDone')
  <2>1. /\ reconciling.ad = cr /\ UNCHANGED <<cr, deployment, deploymentCopy, serviceCopy>>
        /\ \/ service' = Applied(cr) /\ lagging' = lagging \union {"service"}
           \/ Matches(serviceCopy, cr) /\ UNCHANGED <<service, lagging>>
    BY <1>3 DEF ApplyService, WriteService, Requeue, Reconciles, copies, Idle
  <2>2. CASE service' = Applied(cr) /\ lagging' = lagging \union {"service"}
    BY <1>1, <2>1, <2>2 DEF DeploymentDone, ServiceDone, Done, Matches
  <2>3. CASE Matches(serviceCopy, cr) /\ UNCHANGED <<service, lagging>>
    BY <2>1, <2>3 DEF DeploymentDone, ServiceDone, Done, Matches, CopiesLag
  <2> QED
    BY <2>1, <2>2, <2>3
<1> QED
  BY <1>2, <1>3

LEMMA ReconcilesProgress ==
  ASSUME SettledInv, Writes, Reconcile, ~queued', cached' = cr', cr' # Absent PROVE Progress'
<1> USE DEF SettledInv
<1>1. UNCHANGED <<cached, cr>> /\ cached = cr /\ cr # Absent
  BY CaughtUpIsUntouched
  DEF Reconcile, StartReconcile, ApplyDeployment, ApplyService, UpdateStatus, Reconciles, copies
<1>2. CASE StartReconcile
  <2>1. reconciling' = [stage |-> "deployment", ad |-> cached]
    BY <1>1, <1>2 DEF StartReconcile
  <2> QED
    BY <1>1, <2>1 DEF Progress, Idle
<1>3. CASE ~StartReconcile
  <2>1. reconciling # Idle /\ ~queued /\ Progress
    BY <1>1, <1>3
    DEF Reconcile, ApplyDeployment, ApplyService, UpdateStatus, Requeue, Idle
  <2>2. reconciling.ad = cr
    BY <2>1 DEF Progress
  <2>3. reconciling \in [stage: {"deployment", "service", "status"}, ad: AgentDeployment]
    BY <2>1, ReconcileTypes DEF StatusInv
  <2>4. CASE ApplyDeployment
    <3>1. reconciling'.stage = "service" /\ reconciling'.ad = cr' /\ reconciling' # Idle
      BY <1>1, <2>2, <2>3, <2>4 DEF ApplyDeployment, Requeue, Continue, Idle
    <3>2. DeploymentDone'
      BY <1>1, <2>2, <2>4, ApplyingIsDone DEF StatusInv
    <3> QED
      BY <3>1, <3>2 DEF Progress
  <2>5. CASE ApplyService
    <3>1. reconciling'.stage = "status" /\ reconciling'.ad = cr' /\ reconciling' # Idle
      BY <1>1, <2>2, <2>3, <2>5 DEF ApplyService, Requeue, Continue, Idle
    <3>2. DeploymentDone
      BY <2>1, <2>5 DEF ApplyService, Progress
    <3>3. ServiceDone' /\ DeploymentDone'
      BY <1>1, <2>2, <2>5, <3>2, ApplyingIsDone DEF StatusInv
    <3> QED
      BY <3>1, <3>3 DEF Progress
  <2>6. CASE UpdateStatus
    <3>1. /\ Rewrite([cr EXCEPT !.url = Port(cr.spec)]) /\ reconciling' = Idle
          /\ UNCHANGED <<deployment, service, lagging, deploymentCopy, serviceCopy>>
      BY <2>2, <2>6 DEF UpdateStatus, WriteStatus, Requeue, Reconciles, copies
    <3>2. DeploymentDone /\ ServiceDone
      BY <2>1, <2>6 DEF UpdateStatus, Progress
    <3>3. DeploymentDone' /\ ServiceDone'
      BY <1>1, <3>1, <3>2 DEF DeploymentDone, ServiceDone, Done, Matches
    <3>4. cr \in AgentDeployment /\ cr.rv <= version /\ version \in Nat
      BY <1>1 DEF StatusInv, ReadingsLag, TypeInv, TypeOK
    <3>5. [cr EXCEPT !.url = Port(cr.spec)] = cr
      <4> DEFINE new == [cr EXCEPT !.url = Port(cr.spec)]
      <4> SUFFICES ASSUME new # cr PROVE FALSE
        OBVIOUS
      <4>1. cr' = [new EXCEPT !.rv = version + 1]
        BY <3>1 DEF Rewrite
      <4>2. cr'.rv = version + 1
        BY <3>4, <4>1 DEF AgentDeployment
      <4> QED
        BY <1>1, <3>4, <4>2 DEF AgentDeployment
    <3>6. cr.url = Port(cr.spec)
      BY <3>4, <3>5 DEF AgentDeployment
    <3> QED
      BY <1>1, <3>1, <3>3, <3>6 DEF Progress
  <2> QED
    BY <1>3, <2>4, <2>5, <2>6 DEF Reconcile
<1> QED
  BY <1>2, <1>3

LEMMA SettledPreserved == SettledInv /\ [Next]_vars => SettledInv'
<1> SUFFICES ASSUME SettledInv, [Next]_vars PROVE SettledInv'
  OBVIOUS
<1>1. StatusInv' /\ Writes /\ CopiesLag'
  BY ReadingsPreserved, WritesOnly, CopiesLagPreserved DEF SettledInv
<1>2. ASSUME ~queued', cached' = cr', cr' # Absent PROVE Progress'
  <2>1. ~(SyncCache \/ SyncDeployment \/ SyncService \/ ControllerRestarts)
    BY <1>2 DEF SyncCache, SyncDeployment, SyncService, ControllerRestarts
  <2>2. CASE Reconcile
    BY <1>1, <1>2, <2>2, ReconcilesProgress
  <2>3. CASE KubernetesStep
    <3>1. UNCHANGED <<cr, cached, reconciling, queued>>
      BY <2>3 DEF KubernetesStep, Collect, RollOut, controllerVars, copies
    <3> QED
      BY <1>2, <2>3, <3>1, KubernetesLeavesDone DEF SettledInv, Progress
  <2>4. CASE ~Reconcile /\ ~KubernetesStep
    <3>1. UNCHANGED <<cached, deployment, service, lagging, deploymentCopy, serviceCopy,
                      reconciling, queued>>
      BY <2>1, <2>4, ConsumersOnlyWrite DEF Next, ControllerStep, Consume
    <3>2. UNCHANGED cr
      BY <1>1, <1>2, <3>1, CaughtUpIsUntouched DEF SettledInv
    <3> QED
      BY <1>2, <3>1, <3>2
      DEF SettledInv, Progress, DeploymentDone, ServiceDone, Done, Matches
  <2> QED
    BY <2>2, <2>3, <2>4
<1> QED
  BY <1>1, <1>2 DEF SettledInv

LEMMA RestIsSettled == SettledInv => IdleMeansSettled
BY DEF SettledInv, Progress, DeploymentDone, ServiceDone, Done, IdleMeansSettled, Settled

\* The reconciler never rests on work it has not done: with none running or
\* queued, and informers that have caught up, Deployment, Service and URL are
\* what the custom resource asks for, whatever failed, was refused or was read
\* from a stale copy on the way.
THEOREM RestedReconcilerHasSettled == Spec => []IdleMeansSettled
BY SettledInitially, SettledPreserved, RestIsSettled, PTL DEF Spec

-----------------------------------------------------------------------------
(* Quiet requests.  After a request that was made while all was quiet,     *)
(* nothing but its own message is owed or handled until the next request.  *)
(* So an object that its handler did not see, in the informer or when it   *)
(* decided to create one, is of its own making.                            *)

OwnsTheBus ==
  /\ wanted \in stream /\ stream \subseteq settled \union {wanted}
  /\ dispatching # Idle => dispatching.msg = wanted /\ wanted \notin settled
  /\ stopping # Idle => stopping.msg = wanted /\ wanted \notin settled

UnseenIsOwn ==
  wanted \in Deploys /\ cr # Absent /\ (cached = Absent \/ dispatching.stage = "create")
    => cr.spec = wanted

QuietInv ==
  /\ TypeInv
  /\ wanted # Unclear => OwnsTheBus /\ UnseenIsOwn /\ QuietRequestsWin

LEMMA WantedKinds ==
  /\ wanted = Unclear => wanted \notin Deploys /\ wanted \notin Stops
  /\ wanted \in Deploys => wanted \notin Stops
BY UnclearAssumption, RequestsAssumption

LEMMA QuietInitially == Init => QuietInv
BY TypesInitially DEF Init, QuietInv

\* A request: made in quiet, it finds every other message settled.
LEMMA RequestsKeepQuiet ==
  ASSUME QuietInv, NEW q \in Deploys \union Stops, Publishes(q) PROVE QuietInv'
<1>1. TypeInv'
  BY ConsumersTypes DEF QuietInv, ApiStep, Deploy, Undeploy
<1>2. CASE Quiet
  <2>1. /\ stream' = stream \union {q} /\ UNCHANGED settled /\ q \notin stream
        /\ wanted' = q /\ stream = settled
        /\ dispatching' = Idle /\ stopping' = Idle /\ cached' = cr'
    BY <1>2 DEF Publishes, Bus!Publish, Quiet, clusterVars, controllerVars, copies
  <2>2. OwnsTheBus' /\ UnseenIsOwn' /\ QuietRequestsWin'
    BY <2>1 DEF OwnsTheBus, UnseenIsOwn, QuietRequestsWin, Idle
  <2> QED
    BY <1>1, <2>2 DEF QuietInv
<1>3. CASE ~Quiet
  BY <1>1, <1>3 DEF Publishes, QuietInv
<1> QED
  BY <1>2, <1>3

\* What the handlers' acks may do to the bus.
LEMMA AcksSettle ==
  ASSUME NEW m, AckOrLoseIt(m) \/ Bus!Nak
  PROVE  UNCHANGED stream /\ (settled' = settled \/ settled' = settled \union {m})
BY DEF AckOrLoseIt, Bus!Ack, Bus!Nak

\* A handler of deployment.requested: it acks only what it created itself or
\* updated.
LEMMA DispatchesKeepQuiet ==
  ASSUME QuietInv, Dispatch PROVE wanted # Unclear =>
           OwnsTheBus' /\ UnseenIsOwn' /\ QuietRequestsWin'
<1> SUFFICES ASSUME wanted # Unclear PROVE OwnsTheBus' /\ UnseenIsOwn' /\ QuietRequestsWin'
  OBVIOUS
<1> USE DEF QuietInv
<1>1. /\ dispatching # Idle /\ dispatching.msg = wanted /\ wanted \in Deploys
      /\ wanted \notin Stops /\ wanted \notin settled /\ stopping = Idle
  <2>1. dispatching # Idle
    BY DEF Dispatch, CreateCR, UpdateCR, DispatchFails, Idle
  <2>2. dispatching.msg = wanted /\ wanted \in Deploys /\ wanted \notin settled
    BY <2>1, DispatchTypes DEF OwnsTheBus
  <2>3. stopping = Idle
    BY <2>2, WantedKinds DEF TypeInv, TypeOK, OwnsTheBus
  <2> QED
    BY <2>1, <2>2, <2>3, WantedKinds
<1>2. /\ dispatching' = Idle /\ UNCHANGED <<cached, stopping, wanted>>
      /\ UNCHANGED stream /\ (settled' = settled \/ settled' = settled \union {wanted})
  BY <1>1, AcksSettle
  DEF Dispatch, CreateCR, UpdateCR, UpdateSettles, DispatchFails, Dispatched, copies
<1>3. OwnsTheBus'
  BY <1>1, <1>2 DEF OwnsTheBus
\* The object after the step: as it was, and then not settled unless it is
\* its own, or of this request.
<1>4. \/ UNCHANGED cr /\ (settled' = settled \/ (cr # Absent /\ cr.spec = wanted))
      \/ cr' # Absent /\ cr'.spec = wanted
  <2>1. ASSUME NEW d \in Deploys, cr # Absent, Rewrite([cr EXCEPT !.spec = d])
        PROVE  cr' # Absent /\ cr'.spec = d
    BY <2>1 DEF Rewrite, TypeInv, TypeOK, AgentDeployment, Absent
  <2>2. ASSUME CreatedCR(wanted) PROVE cr' # Absent /\ cr'.spec = wanted
    BY <2>2 DEF CreatedCR, NewCR, Absent
  <2>3. CASE CreateCR
    BY <1>1, <2>2, <2>3 DEF CreateCR, UnseenIsOwn
  <2>4. ASSUME cr # Absent, Rewrite([cr EXCEPT !.spec = dispatching.msg])
        PROVE  cr' # Absent /\ cr'.spec = wanted
    BY <1>1, <2>1, <2>4
  <2>5. CASE UpdateCR
    <3>1. CASE IsCurrent(dispatching.seen)
      BY <2>4, <2>5, <3>1 DEF UpdateCR, IsCurrent
    <3>2. CASE ~IsCurrent(dispatching.seen)
      BY <2>5, <3>2 DEF UpdateCR, UpdateSettles, Bus!Nak
    <3> QED
      BY <3>1, <3>2
  <2>6. CASE DispatchFails
    BY <1>1, <2>2, <2>4, <2>6 DEF DispatchFails, IsCurrent, Bus!Nak
  <2> QED
    BY <2>3, <2>5, <2>6 DEF Dispatch
<1>5. UnseenIsOwn'
  BY <1>1, <1>2, <1>4 DEF UnseenIsOwn, Idle
<1>6. QuietRequestsWin'
  BY <1>1, <1>2, <1>4 DEF QuietRequestsWin
<1> QED
  BY <1>3, <1>5, <1>6

\* The rest: deliveries, deletes, the informer, the reconciler, restarts.
LEMMA OthersKeepQuiet ==
  ASSUME QuietInv,
         \/ \E d \in Deploys : TakeRequested(d)
         \/ \E s \in Stops : TakeStopped(s)
         \/ DeleteCR \/ SyncCache \/ SyncDeployment \/ SyncService
         \/ Reconcile \/ ControllerRestarts \/ KubernetesStep \/ UNCHANGED vars
  PROVE  wanted # Unclear => OwnsTheBus' /\ UnseenIsOwn' /\ QuietRequestsWin'
<1> SUFFICES ASSUME wanted # Unclear PROVE OwnsTheBus' /\ UnseenIsOwn' /\ QuietRequestsWin'
  OBVIOUS
<1> USE DEF QuietInv
<1>1. UNCHANGED wanted
  BY DEF TakeRequested, TakeStopped, DeleteCR, SyncCache, SyncDeployment, SyncService,
         Reconcile, StartReconcile, ApplyDeployment, ApplyService, UpdateStatus, Reconciles,
         ControllerRestarts, KubernetesStep, Collect, RollOut, vars
<1>2. ASSUME NEW d \in Deploys, TakeRequested(d)
      PROVE  OwnsTheBus' /\ UnseenIsOwn' /\ QuietRequestsWin'
  <2>1. d \in stream \ settled /\ UNCHANGED <<stream, settled, cr, cached, stopping>>
    BY <1>2 DEF TakeRequested, Bus!Deliver, Bus!Deliverable, clusterVars, copies
  <2>2. d = wanted
    BY <2>1 DEF OwnsTheBus
  <2>3. /\ dispatching'.msg = d
        /\ dispatching'.stage = "create" => cached = Absent
    BY <1>2 DEF TakeRequested
  <2> QED
    BY <1>1, <2>1, <2>2, <2>3 DEF OwnsTheBus, UnseenIsOwn, QuietRequestsWin
<1>3. ASSUME NEW s \in Stops, TakeStopped(s)
      PROVE  OwnsTheBus' /\ UnseenIsOwn' /\ QuietRequestsWin'
  <2>1. /\ s \in stream \ settled /\ UNCHANGED <<stream, settled, cr, cached, dispatching>>
        /\ stopping'.msg = s
    BY <1>3 DEF TakeStopped, Bus!Deliver, Bus!Deliverable, clusterVars, copies
  <2> QED
    BY <1>1, <2>1 DEF OwnsTheBus, UnseenIsOwn, QuietRequestsWin
<1>4. ASSUME DeleteCR PROVE OwnsTheBus' /\ UnseenIsOwn' /\ QuietRequestsWin'
  <2>1. /\ stopping # Idle /\ stopping.msg = wanted /\ wanted \in Stops
        /\ wanted \notin Deploys /\ wanted \notin settled /\ dispatching = Idle
    <3>1. stopping # Idle
      BY <1>4 DEF DeleteCR, Idle
    <3>2. stopping.msg = wanted /\ wanted \in Stops /\ wanted \notin settled
      BY <3>1 DEF TypeInv, TypeOK, OwnsTheBus
    <3> QED
      BY <3>1, <3>2, WantedKinds, DispatchTypes DEF OwnsTheBus
  <2>2. /\ stopping' = Idle /\ UNCHANGED <<stream, dispatching>>
        /\ \/ settled' = settled
           \/ settled' = settled \union {wanted} /\ cr' = Absent
    BY <1>4, <2>1, AcksSettle DEF DeleteCR, Bus!Nak
  <2> QED
    BY <1>1, <2>1, <2>2 DEF OwnsTheBus, UnseenIsOwn, QuietRequestsWin
<1>5. ASSUME UNCHANGED <<stream, settled>>,
             dispatching' \in {dispatching, Idle}, stopping' \in {stopping, Idle},
             \/ UNCHANGED cr
             \/ cr # Absent /\ cr' # Absent /\ cr'.spec = cr.spec,
             cached' \in {cached, cr'}
      PROVE  OwnsTheBus' /\ UnseenIsOwn' /\ QuietRequestsWin'
  BY <1>1, <1>5 DEF OwnsTheBus, UnseenIsOwn, QuietRequestsWin, Idle
<1>6. ASSUME \/ SyncCache \/ SyncDeployment \/ SyncService
             \/ ControllerRestarts \/ KubernetesStep \/ UNCHANGED vars
      PROVE  OwnsTheBus' /\ UnseenIsOwn' /\ QuietRequestsWin'
  BY <1>5, <1>6 DEF SyncCache, SyncDeployment, SyncService, ControllerRestarts, KubernetesStep,
                    Collect, RollOut, vars, clusterVars, controllerVars, copies, busVars
<1>7. ASSUME Reconcile PROVE OwnsTheBus' /\ UnseenIsOwn' /\ QuietRequestsWin'
  <2>1. UNCHANGED <<stream, settled, dispatching, stopping, cached>>
    BY <1>7 DEF Reconcile, StartReconcile, ApplyDeployment, ApplyService, UpdateStatus,
                Reconciles, copies, busVars
  <2>2. CASE UpdateStatus
    <3>1. ASSUME NEW u, cr # Absent, Rewrite([cr EXCEPT !.url = u])
          PROVE  cr' # Absent /\ (UNCHANGED cr \/ cr'.spec = cr.spec)
      BY <3>1 DEF Rewrite, TypeInv, TypeOK, AgentDeployment, Absent
    <3>2. \/ UNCHANGED cr
          \/ cr # Absent /\ cr' # Absent /\ cr'.spec = cr.spec
      BY <2>2, <3>1 DEF UpdateStatus, WriteStatus, IsCurrent
    <3> QED
      BY <1>5, <2>1, <3>2
  <2>3. CASE ~UpdateStatus
    BY <1>5, <1>7, <2>1, <2>3
    DEF Reconcile, StartReconcile, ApplyDeployment, ApplyService, clusterVars
  <2> QED
    BY <2>2, <2>3
<1> QED
  BY <1>2, <1>3, <1>4, <1>6, <1>7

LEMMA QuietPreserved == QuietInv /\ [Next]_vars => QuietInv'
<1> SUFFICES ASSUME QuietInv, [Next]_vars PROVE QuietInv'
  OBVIOUS
<1>1. CASE ApiStep
  BY <1>1, RequestsKeepQuiet DEF ApiStep, Deploy, Undeploy
<1>2. CASE ~ApiStep
  <2>1. TypeInv'
    BY TypesPreserved DEF QuietInv
  <2>2. UNCHANGED wanted
    BY <1>2
    DEF Next, ControllerStep, Consume, Dispatch, CreateCR, UpdateCR, DispatchFails, Dispatched,
        TakeRequested, TakeStopped, DeleteCR, SyncCache, SyncDeployment, SyncService,
        Reconcile, StartReconcile, ApplyDeployment, ApplyService, UpdateStatus, Reconciles,
        ControllerRestarts, KubernetesStep, Collect, RollOut, vars
  <2>3. wanted # Unclear => OwnsTheBus' /\ UnseenIsOwn' /\ QuietRequestsWin'
    BY <1>2, DispatchesKeepQuiet, OthersKeepQuiet DEF Next, ControllerStep, Consume
  <2> QED
    BY <2>1, <2>2, <2>3 DEF QuietInv
<1> QED
  BY <1>1, <1>2

LEMMA QuietWins == QuietInv => QuietRequestsWin
BY WantedKinds DEF QuietInv, QuietRequestsWin

\* A deploy or an undeploy that is made while nothing else is going on has
\* the last word: once its message is acked, the custom resource has its spec
\* or is gone, until the next request, for every number of redeliveries.
THEOREM LastWordOfQuietRequests == Spec => []QuietRequestsWin
BY QuietInitially, QuietPreserved, QuietWins, PTL DEF Spec

-----------------------------------------------------------------------------
(* The gateway reads and never writes, so its steps leave the deployments  *)
(* below it alone.                                                         *)

LEMMA GatewayReadsOnly == [GatewayNext]_systemVars => [Next]_vars
BY DEF GatewayNext, GatewayStep, Lookup, Put, Expire, systemVars

GatewayInv == TypeInv /\ GatewayTypeOK

\* What a lookup reads is the port of a deployment that was asked for: the
\* port of a spec is never 0, so the default is applied only once.
LEMMA LookedUpPort ==
  ASSUME TypeInv, cr # Absent PROVE PortOrDefault(Port(cr.spec)) \in Ports
<1>1. cr.spec \in Deploys
  BY DEF TypeInv, TypeOK, AgentDeployment
<1>2. PortOrDefault(Port(cr.spec)) = Port(cr.spec)
  BY <1>1, PortTypes DEF PortOrDefault, NoUrl
<1> QED
  BY <1>1, <1>2, PortTypes

LEMMA GatewayPreserved == GatewayInv /\ [GatewayNext]_systemVars => GatewayInv'
<1> SUFFICES ASSUME GatewayInv, [GatewayNext]_systemVars PROVE GatewayInv'
  OBVIOUS
<1>1. TypeInv'
  BY GatewayReadsOnly, TypesPreserved DEF GatewayInv
<1>2. route' \in Ports \union {NoRoute} /\ fetched' \in SUBSET Ports
  <2> USE DEF GatewayInv, GatewayTypeOK
  <2>1. CASE UNCHANGED gatewayVars
    BY <2>1 DEF gatewayVars
  <2>2. CASE Lookup
    BY <2>2, LookedUpPort DEF Lookup
  <2>3. ASSUME NEW port \in Ports, Put(port)
        PROVE  route' \in Ports \union {NoRoute} /\ fetched' \in SUBSET Ports
    BY <2>3 DEF Put
  <2>4. CASE Expire
    BY <2>4 DEF Expire
  <2> QED
    BY <2>1, <2>2, <2>3, <2>4 DEF GatewayNext, GatewayStep, systemVars
<1> QED
  BY <1>1, <1>2 DEF GatewayInv, GatewayTypeOK, TypeInv

\* The gateway routes to no other port than that of a deployment somebody
\* asked for, through every stale lookup and expired entry.
THEOREM GatewayTypeCorrect == GatewaySpec => []GatewayTypeOK
<1>1. GatewayInit => GatewayInv
  BY TypesInitially DEF GatewayInit, GatewayInv, GatewayTypeOK, TypeInv
<1>2. GatewayInv => GatewayTypeOK
  BY DEF GatewayInv
<1> QED
  BY <1>1, <1>2, GatewayPreserved, PTL DEF GatewaySpec
=============================================================================
