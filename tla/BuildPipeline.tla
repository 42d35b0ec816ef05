--------------------------- MODULE BuildPipeline ---------------------------
(***************************************************************************)
(* Builds: internal/builds (the table and POST /builds), cmd/builder (the  *)
(* consumer of build.requested) and the janitor's failStuckBuilds.         *)
(*                                                                         *)
(* A builder runs the steps of a build as Kubernetes Jobs and polls them.  *)
(* Its handler lives on the context the event bus gives it, which ends 30  *)
(* seconds after the delivery whatever the step's own timeout (5 to 30     *)
(* minutes) says; every call made on a dead context fails.  AckWait is 30  *)
(* seconds too, and runs from the moment the broker sends the message, so  *)
(* a message may be delivered again while its handler still works.         *)
(***************************************************************************)
EXTENDS Integers, Sequences, FaultBudget

CONSTANTS Builds,         \* build ids, which are also the messages
          Agents,         \* agent ids
          AgentOf,        \* the agent each build is for
          Builders,       \* builder processes
          TrivyEnabled,   \* BUILDER_TRIVY_ENABLED
          CosignEnabled,  \* BUILDER_COSIGN_ENABLED
          MaxDeliver      \* deliveries before the durable gives up

ASSUME BuildAgentAssumption == AgentOf \in [Builds -> Agents]
ASSUME BuildTogglesAssumption ==
  TrivyEnabled \in BOOLEAN /\ CosignEnabled \in BOOLEAN
ASSUME BuildDeliverAssumption == MaxDeliver \in Nat \ {0}

VARIABLES agents,     \* the agents rows: "live" or "deleted"
          image,      \* agents.image: the build it came from, or NoImage
          builds,     \* builds.status
          requests,   \* how far POST /builds has come
          jobs,       \* the Jobs of each build in the build namespace
          worker,     \* what each builder process is doing
          announced,  \* the verdicts build.completed was published with
          stuck,      \* builds created longer than buildStuck ago
          stream, settled, tries   \* build.requested on the bus

busVars == <<stream, settled, tries>>
vars == <<agents, image, builds, requests, jobs, worker, announced, stuck,
          busVars, faults>>

Bus == INSTANCE EventBus WITH Msg <- Builds

Verdicts == {"succeeded", "failed", "blocked"}
Open == {"pending", "running"}
BuildStatus == {"absent", "deleted"} \union Open \union Verdicts
NoImage == "none"
ASSUME BuildImageAssumption == NoImage \notin Builds

\* The steps of the pipeline that are switched on, in their order.
Plan == <<"build">> \o (IF TrivyEnabled THEN <<"scan">> ELSE <<>>)
                    \o (IF CosignEnabled THEN <<"sign">> ELSE <<>>)
Steps == {"build", "scan", "sign"}

\* What an error of the step, of whatever cause, makes of the build.
VerdictOf(step) == IF step = "scan" THEN "blocked" ELSE "failed"

Idle == [stage |-> "idle"]
Working == [stage: {"begin", "resolve", "ack"}, build: Builds, live: BOOLEAN]
           \union [stage: {"create", "poll"}, build: Builds, live: BOOLEAN,
                   step: DOMAIN Plan]
           \union [stage: {"complete", "publish"}, build: Builds,
                   live: BOOLEAN, verdict: Verdicts]

TypeOK ==
  /\ FaultTypeOK
  /\ Bus!BusTypeOK
  /\ agents \in [Agents -> {"live", "deleted"}]
  /\ image \in [Agents -> Builds \union {NoImage}]
  /\ builds \in [Builds -> BuildStatus]
  /\ requests \in [Builds -> {"none", "inserted", "accepted", "failed"}]
  /\ jobs \in [Builds ->
                [Steps -> {"absent", "active", "succeeded", "failed"}]]
  /\ worker \in [Builders -> {Idle} \union Working]
  /\ announced \in [Builds -> SUBSET Verdicts]
  /\ stuck \in SUBSET Builds

Init ==
  /\ FaultInit
  /\ Bus!BusInit
  /\ agents = [a \in Agents |-> "live"]
  /\ image = [a \in Agents |-> NoImage]
  /\ builds = [b \in Builds |-> "absent"]
  /\ requests = [b \in Builds |-> "none"]
  /\ jobs = [b \in Builds |-> [s \in Steps |-> "absent"]]
  /\ worker = [w \in Builders |-> Idle]
  /\ announced = [b \in Builds |-> {}]
  /\ stuck = {}

-----------------------------------------------------------------------------
(* The builds table.                                                       *)

\* Mutant: the WHERE clause on pending dropped.
RunningAnyBuild(st) == IF st \in {"absent", "deleted"} THEN st ELSE "running"

\* Repo.MarkRunning.
RunningBuild(st) == IF st = "pending" THEN "running" ELSE st

\* Mutant: the WHERE clause on terminal statuses dropped.
CompletedAnyBuild(st, verdict) ==
  IF st \in {"absent", "deleted"} THEN st ELSE verdict

\* The row after the first statement of Repo.MarkCompleted.
CompletedBuild(st, verdict) == IF st \in Open THEN verdict ELSE st

\* Mutant: the agent's image written before the row is known to be open.
CompletedImageFirst(b, verdict) ==
  IF verdict = "succeeded"
    THEN [image EXCEPT ![AgentOf[b]] = b] ELSE image

\* agents.image after the same transaction: the second statement runs only
\* when the first one changed the row.
CompletedImage(b, verdict) ==
  IF builds[b] \in Open /\ verdict = "succeeded"
    THEN [image EXCEPT ![AgentOf[b]] = b] ELSE image

MarkCompleted(b, verdict) ==
  /\ builds' = [builds EXCEPT ![b] = CompletedBuild(@, verdict)]
  /\ image' = CompletedImage(b, verdict)

-----------------------------------------------------------------------------
(* POST /v1/agents/{agentId}/builds.                                       *)

\* The agent was found and Repo.Create inserted the row; the foreign key
\* refuses an agent that has gone in between.
Create(b) ==
  /\ requests[b] = "none"
  /\ agents[AgentOf[b]] = "live"
  /\ requests' = [requests EXCEPT ![b] = "inserted"]
  /\ builds' = [builds EXCEPT ![b] = "pending"]
  /\ UNCHANGED <<agents, image, jobs, worker, announced, stuck, busVars, faults>>

\* build.requested is stored, and the caller is answered 202.
Accept(b) ==
  /\ requests[b] = "inserted"
  /\ requests' = [requests EXCEPT ![b] = "accepted"]
  /\ Bus!Publish(b)
  /\ UNCHANGED <<agents, image, builds, jobs, worker, announced, stuck, faults>>

\* Publish failed or its reply was lost (502), or the process died: the row
\* stays, and the message may be stored or not.
AcceptFails(b) ==
  /\ requests[b] = "inserted"
  /\ Fault("publish")
  /\ requests' = [requests EXCEPT ![b] = "failed"]
  /\ Bus!Publish(b) \/ UNCHANGED busVars
  /\ UNCHANGED <<agents, image, builds, jobs, worker, announced, stuck>>

\* agents.Repo.Delete cascades to the builds rows.
DeleteAgent(a) ==
  /\ agents[a] = "live"
  /\ agents' = [agents EXCEPT ![a] = "deleted"]
  /\ image' = [image EXCEPT ![a] = NoImage]
  /\ builds' = [b \in Builds |->
                  IF AgentOf[b] = a /\ builds[b] # "absent"
                    THEN "deleted" ELSE builds[b]]
  /\ UNCHANGED <<requests, jobs, worker, announced, stuck, busVars, faults>>

-----------------------------------------------------------------------------
(* The builder: one handler at a time in each process.                     *)

At(w, stages) == worker[w].stage \in stages
StepOf(w) == Plan[worker[w].step]
JobOf(w) == jobs[worker[w].build][StepOf(w)]

Goes(w, stage) ==
  worker' = [worker EXCEPT ![w] =
    [stage |-> stage, build |-> @.build, live |-> @.live]]

GoesToStep(w, stage, i) ==
  worker' = [worker EXCEPT ![w] =
    [stage |-> stage, build |-> @.build, live |-> @.live, step |-> i]]

Decides(w, verdict) ==
  worker' = [worker EXCEPT ![w] =
    [stage |-> "complete", build |-> @.build, live |-> @.live,
     verdict |-> verdict]]

Take(w, b) ==
  /\ At(w, {"idle"})
  /\ Bus!Deliver(b)
  /\ worker' = [worker EXCEPT ![w] =
       [stage |-> "begin", build |-> b, live |-> TRUE]]
  /\ UNCHANGED <<agents, image, builds, requests, jobs, announced, stuck, faults>>

Polling(w) == At(w, {"poll"}) /\ JobOf(w) = "active"

\* Thirty seconds have passed since the delivery.  Anywhere but in the wait
\* for a Job it takes a call that hangs.
ContextEnds(w) ==
  /\ ~At(w, {"idle"})
  /\ worker[w].live
  /\ \/ Polling(w) /\ UNCHANGED faults
     \/ ~Polling(w) /\ Fault("slow")
  /\ worker' = [worker EXCEPT ![w].live = FALSE]
  /\ UNCHANGED <<agents, image, builds, requests, jobs, announced, stuck,
                 busVars>>

\* MarkRunning; its error is logged.
Begin(w) ==
  /\ At(w, {"begin"})
  /\ \/ /\ worker[w].live
        /\ builds' = [builds EXCEPT ![worker[w].build] = RunningBuild(@)]
        /\ UNCHANGED faults
     \/ ~worker[w].live /\ UNCHANGED <<builds, faults>>
     \/ worker[w].live /\ Fault("db") /\ UNCHANGED builds
  /\ Goes(w, "resolve")
  /\ UNCHANGED <<agents, image, requests, jobs, announced, stuck, busVars>>

\* agents.Get; any error of it fails the build.
Resolve(w) ==
  /\ At(w, {"resolve"})
  /\ LET found == worker[w].live /\ agents[AgentOf[worker[w].build]] = "live"
     IN \/ found /\ GoesToStep(w, "create", 1) /\ UNCHANGED faults
        \/ ~found /\ Decides(w, "failed") /\ UNCHANGED faults
        \/ found /\ Fault("db") /\ Decides(w, "failed")
  /\ UNCHANGED <<agents, image, builds, requests, jobs, announced, stuck, busVars>>

\* runJob's Create, which tolerates AlreadyExists: a redelivered message
\* finds the Jobs of the earlier delivery, and what became of them.
CreateJob(w) ==
  /\ At(w, {"create"})
  /\ LET created == [jobs EXCEPT ![worker[w].build][StepOf(w)] =
                       IF @ = "absent" THEN "active" ELSE @]
     IN \/ /\ worker[w].live
           /\ jobs' = created
           /\ GoesToStep(w, "poll", worker[w].step)
           /\ UNCHANGED faults
        \/ /\ ~worker[w].live
           /\ Decides(w, VerdictOf(StepOf(w)))
           /\ UNCHANGED <<jobs, faults>>
        \/ /\ worker[w].live
           /\ Fault("kube")
           /\ jobs' \in {jobs, created}   \* refused, or the reply was lost
           /\ Decides(w, VerdictOf(StepOf(w)))
  /\ UNCHANGED <<agents, image, builds, requests, announced, stuck, busVars>>

\* The Job of the step has succeeded: the next step, or the end.
StepSucceeds(w) ==
  IF worker[w].step < Len(Plan)
    THEN GoesToStep(w, "create", worker[w].step + 1)
    ELSE Decides(w, "succeeded")

\* Mutant: a Job that has ended is taken for a success.
StepEndsWell(w) == StepSucceeds(w)

\* What a poll makes of a Job that has ended.
StepEnds(w) ==
  IF JobOf(w) = "succeeded" THEN StepSucceeds(w)
  ELSE Decides(w, VerdictOf(StepOf(w)))

\* The rounds of runJob's loop that end it; an active Job is polled again.
PollJob(w) ==
  /\ At(w, {"poll"})
  /\ \/ worker[w].live /\ JobOf(w) # "active" /\ StepEnds(w) /\ UNCHANGED faults
     \/ ~worker[w].live /\ Decides(w, VerdictOf(StepOf(w))) /\ UNCHANGED faults
     \/ worker[w].live /\ Fault("kube") /\ Decides(w, VerdictOf(StepOf(w)))
  /\ UNCHANGED <<agents, image, builds, requests, jobs, announced, stuck, busVars>>

\* complete, first half: MarkCompleted, whose error is logged.
Complete(w) ==
  /\ At(w, {"complete"})
  /\ \/ /\ worker[w].live
        /\ MarkCompleted(worker[w].build, worker[w].verdict)
        /\ UNCHANGED faults
     \/ ~worker[w].live /\ UNCHANGED <<builds, image, faults>>
     \/ worker[w].live /\ Fault("db") /\ UNCHANGED <<builds, image>>
  /\ worker' = [worker EXCEPT ![w].stage = "publish"]
  /\ UNCHANGED <<agents, requests, jobs, announced, stuck, busVars>>

\* complete, second half: build.completed, whatever MarkCompleted returned;
\* handle drops the error.
PublishCompleted(w) ==
  /\ At(w, {"publish"})
  /\ \/ /\ worker[w].live
        /\ announced' = [announced EXCEPT ![worker[w].build] =
                           @ \union {worker[w].verdict}]
        /\ UNCHANGED faults
     \/ ~worker[w].live /\ UNCHANGED <<announced, faults>>
     \/ worker[w].live /\ Fault("publish") /\ UNCHANGED announced
  /\ Goes(w, "ack")
  /\ UNCHANGED <<agents, image, builds, requests, jobs, stuck, busVars>>

\* handle always returns nil; the ack itself may be lost.
Acknowledge(w) ==
  /\ At(w, {"ack"})
  /\ \/ Bus!Ack(worker[w].build) /\ UNCHANGED faults
     \/ Fault("ack_lost") /\ Bus!Nak
  /\ worker' = [worker EXCEPT ![w] = Idle]
  /\ UNCHANGED <<agents, image, builds, requests, jobs, announced, stuck>>

BuilderCrashes(w) ==
  /\ ~At(w, {"idle"})
  /\ Fault("builder_crash")
  /\ worker' = [worker EXCEPT ![w] = Idle]
  /\ UNCHANGED <<agents, image, builds, requests, jobs, announced, stuck, busVars>>

-----------------------------------------------------------------------------
(* Kubernetes and the janitor.                                             *)

\* The only pod of the Job ends; with a backoffLimit of 0 nothing retries it.
JobEnds(b, s) ==
  /\ jobs[b][s] = "active"
  /\ \E end \in {"succeeded", "failed"} : jobs' = [jobs EXCEPT ![b][s] = end]
  /\ UNCHANGED <<agents, image, builds, requests, worker, announced, stuck,
                 busVars, faults>>

\* No builder will touch the build again by itself.
Abandoned(b) ==
  /\ requests[b] # "inserted"
  /\ ~Bus!Deliverable(b)
  /\ b \notin {worker[w].build : w \in {v \in Builders : ~At(v, {"idle"})}}

\* buildStuck (6 hours) has passed since the row was created.  That a message
\* is still being handled then takes an outage of the builders.
BecomesStuck(b) ==
  /\ builds[b] \in Open /\ b \notin stuck
  /\ \/ Abandoned(b) /\ UNCHANGED faults
     \/ ~Abandoned(b) /\ Fault("outage")
  /\ stuck' = stuck \union {b}
  /\ UNCHANGED <<agents, image, builds, requests, jobs, worker, announced, busVars>>

\* Mutant: only running builds are looked for.
FailsRunning(b) == b \in stuck /\ builds[b] = "running"

\* The WHERE clause of the janitor's UPDATE.
FailedByJanitor(b) == b \in stuck /\ builds[b] \in Open

FailStuckBuilds ==
  /\ \E b \in Builds : FailedByJanitor(b)
  /\ builds' = [b \in Builds |->
                  IF FailedByJanitor(b) THEN "failed" ELSE builds[b]]
  /\ UNCHANGED <<agents, image, requests, jobs, worker, announced, stuck,
                 busVars, faults>>

-----------------------------------------------------------------------------
Handle(w) == \/ Begin(w) \/ Resolve(w) \/ CreateJob(w) \/ PollJob(w)
             \/ Complete(w) \/ PublishCompleted(w) \/ Acknowledge(w)

Next ==
  \/ \E b \in Builds :
       \/ Create(b) \/ Accept(b) \/ AcceptFails(b) \/ BecomesStuck(b)
       \/ \E s \in Steps : JobEnds(b, s)
       \/ \E w \in Builders : Take(w, b)
  \/ \E w \in Builders : ContextEnds(w) \/ Handle(w) \/ BuilderCrashes(w)
  \/ \E a \in Agents : DeleteAgent(a)
  \/ FailStuckBuilds

\* Handlers and the broker make progress, pods end, time passes and the
\* janitor ticks; contexts need not end and nothing fails by itself.
Fairness ==
  /\ \A b \in Builds :
       /\ WF_vars(Accept(b))
       /\ WF_vars(\E w \in Builders : Take(w, b))
       /\ WF_vars(BecomesStuck(b))
       /\ \A s \in Steps : WF_vars(JobEnds(b, s))
  /\ \A w \in Builders : WF_vars(Handle(w))
  /\ WF_vars(FailStuckBuilds)

Spec == Init /\ [][Next]_vars /\ Fairness

-----------------------------------------------------------------------------
(* Properties.                                                             *)

\* A build is recorded or announced as succeeded, or becomes the agent's
\* image, only when every step that is switched on has succeeded for it: no
\* redelivery, dead context, failed call or second builder lets an image
\* through that was not pushed, scanned and signed (docs/PLAN.md:113).
SuccessIsEarned ==
  \A b \in Builds :
    (\/ builds[b] = "succeeded"
     \/ "succeeded" \in announced[b]
     \/ image[AgentOf[b]] = b)
    => \A i \in DOMAIN Plan : jobs[b][Plan[i]] = "succeeded"

\* The image an agent points to comes from a build the table shows as
\* succeeded: the row and the pointer are written by one transaction, and a
\* verdict the janitor or another delivery wrote first is not undone by half.
ImageIsRecorded ==
  \A a \in Agents :
    image[a] # NoImage => AgentOf[image[a]] = a /\ builds[image[a]] = "succeeded"

\* A verdict is final: what a late builder, a second delivery or the janitor
\* writes after it changes nothing, and only deleting the agent removes it.
VerdictsStand ==
  [][\A b \in Builds :
       builds[b] \in Verdicts => builds'[b] \in {builds[b], "deleted"}]_vars

\* The builds as their owner sees them implement BuildLifecycle: two builders
\* on one build, redeliveries, dead contexts, lost writes and the janitor
\* amount to one verdict, given once and together with the image, after every
\* step has passed, and to nothing once the agent is deleted.
AllPassed == {b \in Builds : \A i \in DOMAIN Plan : jobs[b][Plan[i]] = "succeeded"}
Gone == {a \in Agents : agents[a] = "deleted"}
Lifecycle == INSTANCE BuildLifecycle WITH
  status <- builds, passed <- AllPassed, gone <- Gone
ImplementsLifecycle == Lifecycle!Spec

\* Every build ends, also when its message was never stored, its deliveries
\* ran out, or its builder recorded nothing: in the end the janitor fails it.
BuildsEnd ==
  \A b \in Builds :
    builds[b] \in Open ~> builds[b] \in Verdicts \union {"deleted"}

\* A build whose Jobs all end well succeeds (cmd/builder/main.go:13-14 and
\* 213-215: runJob polls until the Job is done or the step's timeout, which
\* is counted in minutes).
HealthyBuildsSucceed ==
  \A b \in Builds :
    requests[b] = "accepted"
    ~> \/ builds[b] \in {"succeeded", "deleted"}
       \/ \E s \in Steps : jobs[b][s] = "failed"
=============================================================================
