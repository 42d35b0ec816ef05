---------------------------- MODULE Deployments ----------------------------
(***************************************************************************)
(* Long-running agents: the deploy and undeploy handlers of the api        *)
(* (internal/agents), the consumers of deployment.requested and            *)
(* deployment.stopped and the AgentDeployment reconciler (internal/runs),  *)
(* and the part of Kubernetes they rely on.                                *)
(*                                                                         *)
(* The agents of one name are modelled.  The table holds one of them at a  *)
(* time, and the custom resource, the Deployment and the Service are all   *)
(* called after the name, so that is where agents meet.  They come and go  *)
(* (AgentRemoval), which shows here in the port a deploy is made with.  A  *)
(* spec is told apart by the request it came from.                         *)
(***************************************************************************)
EXTENDS Integers, FiniteSets, FaultBudget

CONSTANTS Deploys,     \* POST /deploy requests, which are also the messages
          PortOf,      \* manifest.server.port of their agents, 0 if not set
          Stops,       \* DELETE /deploy requests
          MaxDeliver,
          MaxEvents    \* bound: requests made and faults, taken together

ASSUME PortAssumption == PortOf \in [Deploys -> 0..65535]
ASSUME RequestsAssumption == Deploys \cap Stops = {}
ASSUME DeployDeliverAssumption == MaxDeliver \in Nat \ {0}
ASSUME EventsAssumption == MaxEvents \in Nat

VARIABLES cr,         \* the AgentDeployment object at the api-server
          version,    \* the last resourceVersion it was given
          deployment, service,   \* the objects projected from it
          lagging,    \* the kinds whose informer has not seen the last event
          cached, deploymentCopy, serviceCopy,   \* the informers' copies
          dispatching, stopping, \* the two consumers' handlers
          reconciling, queued,   \* the reconciler and its work queue
          wanted,     \* the last request made while all was quiet
          stream, settled, tries

busVars == <<stream, settled, tries>>
clusterVars == <<cr, version, deployment, service, lagging>>
copies == <<cached, deploymentCopy, serviceCopy>>
controllerVars == <<copies, dispatching, stopping, reconciling, queued>>
vars == <<clusterVars, controllerVars, wanted, busVars, faults>>

\* Each message is owed to the one durable of its subject.
Bus == INSTANCE EventBus WITH Msg <- Deploys \union Stops

Absent == [kind |-> "absent"]
Idle == [stage |-> "idle"]
NoUrl == 0
Unclear == "unclear"
ASSUME UnclearAssumption == Unclear \notin Deploys \union Stops

\* portOrDefault.
PortOrDefault(p) == IF p = 0 THEN 8080 ELSE p
Port(d) == PortOrDefault(PortOf[d])

Ports == {Port(d) : d \in Deploys}
AgentDeployment == [kind: {"agentdeployment"}, uid: Nat, rv: Nat,
                    spec: Deploys, url: Ports \union {NoUrl}]
Owned == [kind: {"owned"}, spec: Deploys, owner: Nat]

TypeOK ==
  /\ FaultTypeOK
  /\ Bus!BusTypeOK
  /\ cr \in AgentDeployment \union {Absent}
  /\ cached \in AgentDeployment \union {Absent}
  /\ version \in Nat
  /\ deployment \in Owned \union {Absent}
  /\ service \in Owned \union {Absent}
  /\ lagging \in SUBSET {"deployment", "service"}
  /\ deploymentCopy \in Owned \union {Absent}
  /\ serviceCopy \in Owned \union {Absent}
  /\ dispatching \in {Idle}
       \union [stage: {"create"}, msg: Deploys]
       \union [stage: {"update"}, msg: Deploys, seen: AgentDeployment]
  /\ stopping \in {Idle} \union [stage: {"delete"}, msg: Stops]
  /\ reconciling \in {Idle}
       \union [stage: {"deployment", "service", "status"}, ad: AgentDeployment]
  /\ queued \in BOOLEAN
  /\ wanted \in Deploys \union Stops \union {Unclear}

Init ==
  /\ FaultInit
  /\ Bus!BusInit
  /\ cr = Absent /\ cached = Absent
  /\ version = 0
  /\ deployment = Absent /\ service = Absent
  /\ lagging = {}
  /\ deploymentCopy = Absent /\ serviceCopy = Absent
  /\ dispatching = Idle /\ stopping = Idle
  /\ reconciling = Idle /\ queued = FALSE
  /\ wanted = Unclear

-----------------------------------------------------------------------------
\* What comes from outside, a request or a fault, is bounded in its sum.
Room == Cardinality(stream) + faults < MaxEvents

Mishap(k) == Room /\ Fault(k)

-----------------------------------------------------------------------------
(* The api: deploy and undeploy.                                           *)

\* No message is owed, no handler works and the informer has caught up.
Quiet == stream = settled /\ dispatching = Idle /\ stopping = Idle /\ cached = cr

Publishes(q) ==
  /\ q \notin stream /\ Room
  /\ Bus!Publish(q)
  /\ wanted' = IF Quiet THEN q ELSE Unclear
  /\ UNCHANGED <<clusterVars, controllerVars, faults>>

\* deploy.  The agent, its mode and its image are inputs, the projection of
\* the secrets is RunApi's.  A request that fails, before its answer or without
\* one, has stored its message or has left nothing behind.
Deploy(d) == Publishes(d)

\* undeploy.  The message carries the name, whatever agent was read.
Undeploy(s) == Publishes(s)

-----------------------------------------------------------------------------
(* The consumers (deployment_consumer.go).  They read through the          *)
(* informer and write to the api-server, which refuses an update of        *)
(* anything but the current version.                                       *)

\* Mutant: no optimistic lock.
IsCurrentAlways(seen) == cr # Absent

IsCurrent(seen) == cr # Absent /\ cr.rv = seen.rv

NewCR(d) == [kind |-> "agentdeployment", uid |-> version + 1,
             rv |-> version + 1, spec |-> d, url |-> NoUrl]

\* An update that changes nothing gets no new version.
Rewrite(new) ==
  IF new = cr THEN UNCHANGED <<cr, version>>
  ELSE cr' = [new EXCEPT !.rv = version + 1] /\ version' = version + 1

\* The delivery, and Client.Get of the object.
TakeRequested(d) ==
  /\ dispatching = Idle
  /\ Bus!Deliver(d)
  /\ dispatching' = IF cached = Absent THEN [stage |-> "create", msg |-> d]
                    ELSE [stage |-> "update", msg |-> d, seen |-> cached]
  /\ UNCHANGED <<clusterVars, copies, stopping, reconciling, queued,
                 wanted, faults>>

\* handleRequested is done with the message.
Dispatched ==
  /\ dispatching' = Idle
  /\ UNCHANGED <<deployment, service, lagging, copies, stopping, reconciling,
                 queued, wanted>>

\* The handler returned nil; the ack may get lost.
AckOrLoseIt(m) == \/ Bus!Ack(m) /\ UNCHANGED faults
                  \/ Bus!Nak /\ Mishap("ack_lost")

CreatedCR(d) == cr' = NewCR(d) /\ version' = version + 1

\* Client.Create, which tolerates AlreadyExists: the spec of the message is
\* then dropped.
CreateCR ==
  /\ dispatching.stage = "create"
  /\ IF cr = Absent THEN CreatedCR(dispatching.msg)
     ELSE UNCHANGED <<cr, version>>
  /\ AckOrLoseIt(dispatching.msg)
  /\ Dispatched

\* Mutant: an update that fails is acked all the same.
UpdateSettlesAlways == AckOrLoseIt(dispatching.msg)

\* Client.Update returned: a conflict, or an object that is gone, is an error
\* and the message comes again.
UpdateSettles ==
  IF IsCurrent(dispatching.seen) THEN AckOrLoseIt(dispatching.msg)
  ELSE Bus!Nak /\ UNCHANGED faults

UpdateCR ==
  /\ dispatching.stage = "update"
  /\ IF IsCurrent(dispatching.seen)
       THEN Rewrite([cr EXCEPT !.spec = dispatching.msg])
       ELSE UNCHANGED <<cr, version>>
  /\ UpdateSettles
  /\ Dispatched

\* A write fails before it is applied, or its reply is lost: Nak.
DispatchFails ==
  /\ dispatching # Idle
  /\ Mishap("kube")
  /\ \/ UNCHANGED <<cr, version>>
     \/ dispatching.stage = "create" /\ cr = Absent /\ CreatedCR(dispatching.msg)
     \/ dispatching.stage = "update" /\ IsCurrent(dispatching.seen)
        /\ Rewrite([cr EXCEPT !.spec = dispatching.msg])
  /\ Bus!Nak
  /\ Dispatched

TakeStopped(s) ==
  /\ stopping = Idle
  /\ Bus!Deliver(s)
  /\ stopping' = [stage |-> "delete", msg |-> s]
  /\ UNCHANGED <<clusterVars, copies, dispatching, reconciling, queued,
                 wanted, faults>>

\* Client.Delete by name; NotFound is fine.
DeleteCR ==
  /\ stopping.stage = "delete"
  /\ \/ cr' = Absent /\ AckOrLoseIt(stopping.msg)
     \/ cr' \in {cr, Absent} /\ Mishap("kube") /\ Bus!Nak
  /\ stopping' = Idle
  /\ UNCHANGED <<version, deployment, service, lagging, copies, dispatching,
                 reconciling, queued, wanted>>

-----------------------------------------------------------------------------
(* The reconciler (deployment_controller.go).  The manager's client reads  *)
(* from informers, one for each kind of object.  What happens to an object *)
(* reaches its informer later, and queues the reconciler (For, Owns).      *)

SyncCache ==
  /\ cached # cr
  /\ cached' = cr
  /\ queued' = TRUE
  /\ UNCHANGED <<clusterVars, deploymentCopy, serviceCopy, dispatching,
                 stopping, reconciling, wanted, busVars, faults>>

\* Mutant: Owns(&appsv1.Deployment{}) is missing.
SyncUnowned ==
  /\ "deployment" \in lagging
  /\ lagging' = lagging \ {"deployment"}
  /\ deploymentCopy' = deployment
  /\ UNCHANGED <<cr, version, deployment, service, cached, serviceCopy,
                 dispatching, stopping, reconciling, queued, wanted, busVars, faults>>

SyncDeployment ==
  /\ "deployment" \in lagging
  /\ lagging' = lagging \ {"deployment"}
  /\ deploymentCopy' = deployment
  /\ queued' = TRUE
  /\ UNCHANGED <<cr, version, deployment, service, cached, serviceCopy,
                 dispatching, stopping, reconciling, wanted, busVars, faults>>

SyncService ==
  /\ "service" \in lagging
  /\ lagging' = lagging \ {"service"}
  /\ serviceCopy' = service
  /\ queued' = TRUE
  /\ UNCHANGED <<cr, version, deployment, service, cached, deploymentCopy,
                 dispatching, stopping, reconciling, wanted, busVars, faults>>

\* Reconcile reads the object; one that is gone needs nothing.
StartReconcile ==
  /\ reconciling = Idle /\ queued
  /\ queued' = FALSE
  /\ reconciling' = IF cached = Absent THEN Idle
                    ELSE [stage |-> "deployment", ad |-> cached]
  /\ UNCHANGED <<clusterVars, copies, dispatching, stopping, wanted,
                 busVars, faults>>

Continue(stage) == reconciling' = [reconciling EXCEPT !.stage = stage]

\* Mutant: the error of one of the writes is only logged.
ErrorIsLogged == reconciling' = Idle /\ UNCHANGED queued

\* An error makes controller-runtime try again.
Requeue == reconciling' = Idle /\ queued' = TRUE

Reconciles == UNCHANGED <<copies, dispatching, stopping, wanted, busVars>>

\* Is the object what the mutate function makes of it?
Matches(object, ad) ==
  object # Absent /\ object.spec = ad.spec /\ object.owner = ad.uid

\* The mutate function sets what the spec determines, and SetControllerReference
\* the owner: it refuses an object of another owner by kind and name only, so
\* one that belonged to a namesake is adopted.
Applied(ad) == [kind |-> "owned", spec |-> ad.spec, owner |-> ad.uid]

\* Create and Update work from the copy.  Create is refused when the object
\* exists, Update when it is another version than the copy, or gone.
Accepts(kind, copy, object) ==
  IF copy = Absent THEN object = Absent ELSE kind \notin lagging

\* CreateOrUpdate writes unless the copy is already as wanted.
WriteDeployment ==
  /\ ~Matches(deploymentCopy, reconciling.ad)
  /\ Accepts("deployment", deploymentCopy, deployment)
  /\ deployment' = Applied(reconciling.ad)
  /\ lagging' = lagging \union {"deployment"}

\* The probe of an agent with a health path is replaced without the defaults
\* the api-server fills in, so that an update is sent that changes nothing,
\* and may be refused, also when the copy is as wanted.
ApplyDeployment ==
  /\ reconciling.stage = "deployment"
  /\ \/ /\ \/ WriteDeployment
           \/ Matches(deploymentCopy, reconciling.ad) /\ UNCHANGED <<deployment, lagging>>
        /\ Continue("service")
        /\ UNCHANGED <<queued, faults>>
     \/ /\ ~Accepts("deployment", deploymentCopy, deployment)
        /\ Requeue
        /\ UNCHANGED <<deployment, lagging, faults>>
     \/ /\ Mishap("kube")
        /\ WriteDeployment \/ UNCHANGED <<deployment, lagging>>
        /\ Requeue
  /\ UNCHANGED <<cr, version, service>> /\ Reconciles

WriteService ==
  /\ ~Matches(serviceCopy, reconciling.ad)
  /\ Accepts("service", serviceCopy, service)
  /\ service' = Applied(reconciling.ad)
  /\ lagging' = lagging \union {"service"}

ApplyService ==
  /\ reconciling.stage = "service"
  /\ \/ /\ \/ WriteService
           \/ Matches(serviceCopy, reconciling.ad) /\ UNCHANGED <<service, lagging>>
        /\ Continue("status")
        /\ UNCHANGED <<queued, faults>>
     \/ /\ ~Matches(serviceCopy, reconciling.ad)
        /\ ~Accepts("service", serviceCopy, service)
        /\ Requeue
        /\ UNCHANGED <<service, lagging, faults>>
     \/ /\ Mishap("kube")
        /\ WriteService \/ UNCHANGED <<service, lagging>>
        /\ Requeue
  /\ UNCHANGED <<cr, version, deployment>> /\ Reconciles

\* Status().Update of the copy read at the start.
WriteStatus ==
  /\ IsCurrent(reconciling.ad)
  /\ Rewrite([cr EXCEPT !.url = Port(reconciling.ad.spec)])

UpdateStatus ==
  /\ reconciling.stage = "status"
  /\ \/ /\ WriteStatus
        /\ reconciling' = Idle
        /\ UNCHANGED <<queued, faults>>
     \/ /\ ~IsCurrent(reconciling.ad)
        /\ Requeue
        /\ UNCHANGED <<cr, version, faults>>
     \/ /\ Mishap("kube")
        /\ WriteStatus \/ UNCHANGED <<cr, version>>
        /\ Requeue
  /\ UNCHANGED <<deployment, service, lagging>> /\ Reconciles

\* Another controller takes over, or this one restarts: handlers and queue
\* are lost, the informers list everything again.  A leader that works on after
\* it was deposed is RunController's subject.
ControllerRestarts ==
  /\ Mishap("ctl_crash")
  /\ dispatching' = Idle /\ stopping' = Idle /\ reconciling' = Idle
  /\ cached' = cr /\ deploymentCopy' = deployment /\ serviceCopy' = service
  /\ lagging' = {}
  /\ queued' = TRUE
  /\ UNCHANGED <<cr, version, deployment, service, wanted, busVars>>

-----------------------------------------------------------------------------
(* Kubernetes.                                                             *)

\* The garbage collector removes what belongs to an owner that is gone.
LiveUids == IF cr = Absent THEN {} ELSE {cr.uid}
Orphan(object) == object # Absent /\ object.owner \notin LiveUids

Collect ==
  /\ \/ /\ Orphan(deployment) /\ deployment' = Absent
        /\ lagging' = lagging \union {"deployment"}
        /\ UNCHANGED service
     \/ /\ Orphan(service) /\ service' = Absent
        /\ lagging' = lagging \union {"service"}
        /\ UNCHANGED deployment
  /\ UNCHANGED <<cr, version, controllerVars, wanted, busVars, faults>>

\* Pods come and go, which shows in the Deployment's status and so in its
\* resourceVersion.  No fault, but bounded like one.
RollOut ==
  /\ deployment # Absent
  /\ Mishap("rollout")
  /\ lagging' = lagging \union {"deployment"}
  /\ UNCHANGED <<cr, version, deployment, service, controllerVars, wanted,
                 busVars>>

-----------------------------------------------------------------------------
ApiStep == (\E d \in Deploys : Deploy(d)) \/ (\E s \in Stops : Undeploy(s))

Dispatch == CreateCR \/ UpdateCR \/ DispatchFails
Reconcile == StartReconcile \/ ApplyDeployment \/ ApplyService \/ UpdateStatus

Consume ==
  \/ \E d \in Deploys : TakeRequested(d)
  \/ \E s \in Stops : TakeStopped(s)
  \/ Dispatch \/ DeleteCR

ControllerStep ==
  \/ Consume \/ Reconcile \/ ControllerRestarts
  \/ SyncCache \/ SyncDeployment \/ SyncService

KubernetesStep == Collect \/ RollOut

Next == ApiStep \/ ControllerStep \/ KubernetesStep

\* The consumers' goroutines and the broker, the watch of each kind, the
\* reconciler and the garbage collector make progress; users, api handlers and
\* pods need not.
Fairness ==
  /\ WF_vars(Consume)
  /\ WF_vars(SyncCache) /\ WF_vars(SyncDeployment) /\ WF_vars(SyncService)
  /\ WF_vars(Reconcile) /\ WF_vars(Collect)

Spec == Init /\ [][Next]_vars /\ Fairness

-----------------------------------------------------------------------------
(* Properties.                                                             *)

\* What the status says was computed from the spec the object has at that
\* moment, never from the copy a slow reconcile started with.
StatusIsOfTheSpec ==
  [][cr' # Absent /\ cr # Absent /\ cr'.uid = cr.uid /\ cr'.url # cr.url
       => cr'.url = Port(cr'.spec)]_vars

\* The Deployment and the Service are those of the custom resource, or gone
\* with it, and its URL has their port.
Settled ==
  IF cr = Absent THEN deployment = Absent /\ service = Absent
  ELSE Matches(deployment, cr) /\ Matches(service, cr) /\ cr.url = Port(cr.spec)

\* The reconciler never rests on work it has not done: when none runs and none
\* is queued, and the informers are up to date, the Deployment and the Service
\* of a custom resource that exists, and its URL, are as it asks for.  A
\* reconcile that found its copy as wanted may have left an object that was
\* not, and one that was refused, or failed, has done nothing: each has been
\* queued again.
IdleMeansSettled ==
  /\ reconciling = Idle /\ ~queued /\ cr # Absent
  /\ cached = cr /\ lagging = {}
  => Settled

\* In the end the cluster is settled, whatever failed, restarted, was read
\* from a stale copy or reordered on the way.
ClusterSettles == <>[]Settled

\* A request made while nothing else was going on has the last word: once its
\* message is settled, the custom resource has its spec, or is gone, through
\* conflicts, redeliveries and restarts, until somebody asks for more.
QuietRequestsWin ==
  /\ wanted \in Deploys /\ wanted \in settled => cr # Absent /\ cr.spec = wanted
  /\ wanted \in Stops /\ wanted \in settled => cr = Absent

=============================================================================
