# AiLab control plane: a TLA+ model

AiLab is a control plane for agents: an HTTP api with a Postgres store, a
JetStream bus, a Kubernetes controller, a builder, a cron scheduler, a gateway,
a billing shipper and a janitor. This directory models its protocols, checks
them with TLC on small instances, and proves the most important results for
every instance with TLAPS. Definitions are translated from the code under
`src/`; `PROJECT.json` maps each to its lines.

    tlc -workers 2 -config RunPipelineControllers.cfg MCRunPipeline
    tlapm RunPipelineTables.tla

## 1. The system

| Component | Code | State | Operations |
|---|---|---|---|
| event bus | `internal/eventbus` | stream `ailab`, one durable per subject | Publish, Subscribe (explicit ack, AckWait 30 s, MaxDeliver 10), PublishRaw, SubscribeRaw |
| run API | `internal/runs/handlers.go`, `repo.go` | `runs` rows | trigger, get, list |
| triggers, cron | `internal/triggers`, `cmd/triggers` | `triggers` rows, the scheduler's registered entries | create, webhook, refresh, fire |
| dispatch, reconciler | `internal/runs/dispatch_consumer.go`, `controller.go`, `cmd/controller` | AgentRun, Job, informer caches, the lease | handle, Reconcile, publishOnTransition |
| status consumer | `internal/runs/status_consumer.go`, `internal/usage` | `runs`, `usage_events` | handleStarted, handleCompleted |
| event stream | `internal/runs/events_pubsub.go`, `events_handler.go` | the Hub's subscribers, each with a 32-event buffer | Subscribe, Broadcast, streamEvents |
| agents | `internal/agents`, `pkg/manifest` | `agents` rows | create, get, list, delete |
| builds | `internal/builds`, `cmd/builder` | `builds` rows, `agents.image`, build Jobs | create, handle, runJob, complete |
| deployments, gateway | `internal/agents/deploy_handlers.go`, `internal/runs/deployment_*.go`, `cmd/gateway` | AgentDeployment, Deployment, Service, route cache | deploy, undeploy, handleRequested, handleStopped, Reconcile, resolve |
| usage shipping | `internal/billing`, `cmd/billing` | `usage_shipper_state` | tick |
| janitor | `cmd/janitor` | none of its own | gcJobs, gcOrphanSecrets, failStuckBuilds, gcUsageEvents, exportAudit |
| secrets | `internal/secrets` | `secrets` rows, projected Secrets | upsert, delete, resolve, project |
| audit | `internal/audit` | `audit_events`, export checkpoint | Log, Run |
| tenants | `internal/tenants` | `tenants` rows | webhook upsert and delete |

How they interact. The api, the webhook receiver and the cron scheduler insert a
`pending` row and publish `run.requested`. The elected controller turns the
message into an AgentRun, its reconciler turns the AgentRun into a Job and
publishes `run.started` and `run.completed` as the Job's counters move. Every
api replica competes for those messages: it updates the row, meters the run and
broadcasts the event on plain NATS to the replicas' SSE clients. The janitor
deletes old Jobs and the Secrets of runs that no longer exist; deleting an agent
cascades to its rows while all of this is in flight. Builds and deployments
repeat the pattern on their own subjects: the builder runs the steps of a build
as Jobs and polls them, and the controller turns deploy requests into custom
resources that a second reconciler projects onto a Deployment and a Service,
which the gateway routes to. The shipper, the exporter and the cron scheduler
share nothing with the rest but tables: each follows one table with a
checkpoint, or a copy, of its own.

What is hard. No transaction spans Postgres, the bus and Kubernetes, so every
handler is a sequence of steps that can stop anywhere; delivery is at least once
and unordered; the reconciler works from caches; leadership moves while the old
leader still runs; several replicas handle messages of one run at the same time.
What makes each component correct:

- **runs**: a row only moves forward and ends with the verdict of its
  execution; a run executes at most once; accepted runs end.
- **metering**: a run is metered at most once per kind, and its end only when
  it ended; what is metered is shipped.
- **bus consumers**: an acked message has taken effect.
- **events**: a client never hears of a transition before it can read it, and
  never waits for one that has already happened.
- **secrets**: what a pod mounts exists until the pod can no longer start.
- **builds**: an image is recorded only after every step; a verdict is final;
  every build ends.
- **deployments**: the cluster ends as the custom resource says, which ends as
  the last request says; routes catch up.
- **usage, audit**: every row is copied before it is pruned.
- **tenants, cron**: the row follows the organization, the scheduler the table.

## 2. Modules

| Module | Models |
|---|---|
| `EventBus` | the contract of one stream and its durables (the broker is external) |
| `FaultBudget` | which faults an instance injects and how many |
| `RunTypes` | runs, execution numbers and outcomes, shared by the modules below |
| `RunStore` | `agents`, `runs` and `usage_events`; one operator per SQL statement |
| `RunEvents` | the `run.*` payloads, and the bus that carries them |
| `RunCluster` | AgentRun, Job and Secret objects; the Job controller and kubelet (external); the janitor's two collectors |
| `RunApi` | the three ways to start a run, step by step; agent deletion |
| `RunController` | dispatch consumer, reconciler, informers, lease, replicas dying and restarting |
| `RunStatusConsumer` | the two status handlers on several workers |
| `RunPipeline` | their composition, its properties and fairness |
| `RunLifecycle` | the abstract specification: what the owner of a run is promised |
| `RunStream` | the Hub of every replica, the SSE handler and the watching client, composed with `RunStatusConsumer` |
| `BuildLifecycle` | the abstract specification: what the owner of a build is promised |
| `BuildPipeline` | the builds table, POST /builds, the builders, their Jobs, the janitor's failStuckBuilds |
| `Deployments` | deploy and undeploy, both consumers, the AgentDeployment reconciler, the objects it owns |
| `AgentRemoval` | `Deployments` with the agent's row, which may be deleted |
| `Gateway` | `Deployments` with the gateway's cache on top |
| `Outbox` | the abstract specification: what is promised of a table that is copied to a destination |
| `AppendLog` | a table with serial ids and a checkpoint, shared by the next two |
| `UsageShipping` | `usage_events`, the shippers, Orb, the janitor's gcUsageEvents, a tenant's deletion |
| `AuditExport` | `audit_events` and the exporter the janitor runs |
| `Tenants` | the tenant's row and the WorkOS webhook |
| `CronScheduler` | an agent, its cron triggers, the scheduler's refresh and the entries it fires |
| `Registry` | `Tenants`, `AuditExport` and `CronScheduler` composed over one database |
| `MC...` | values for TLC, one module for each specification |
| `RunStatusProofs` | what the status handlers preserve, in either composition |
| `RunPipelineProofs` | theorems about `RunPipeline`: types, completions |
| `RunPipelineTables` | theorems about `RunPipeline`: the tables, the refinement, start times, Secrets, executions |
| `RunStreamProofs` | theorems about `RunStream` |
| `BuildPipelineProofs` | theorems about `BuildPipeline` |
| `DeploymentProofs` | theorems about `Deployments`, and `Gateway`'s types |
| `UsageShippingProofs` | theorems about `UsageShipping` |
| `RegistryProofs` | theorems about `Registry` |

`RunPipeline` composes `RunApi`, `RunController` and `RunStatusConsumer` over one
store, one bus and one cluster. `RunStream` reuses `RunStatusConsumer`, store and
bus, and replaces the api and the controller by what they may publish: a
run.started, and at most one run.completed, which is what `CompletionsAreTrue`
shows of them.

Each process has a step counter where the code can stop between two effects:
`stage[r]` for the request that creates run `r`, `ctl[c]` for the reconcile
replica `c` is in, `disp[c]` for the request it is dispatching, `work[w]` for
the message an api worker holds. Each step is one SQL statement, one Kubernetes
call or one publish.

Correspondence of the less obvious parts:

- **AgentRun** is `[phase, ver, started]`: `ver` is the resourceVersion, which
  makes Status().Update an optimistic write (`Current`); `started` is
  status.startedAt, named by the execution it was read from, because that is all
  the properties tell apart about a time. `new` is the empty phase.
- **Job** is `[state, exec]`. The name is fixed per run (`jobNameFor`), so a
  second Job is possible only after the first is deleted; `exec` counts them.
- **Reconcile** is one read step (from `cache[c]`) that sets up a task, then one
  step per write. A reconcile that would rewrite the same phase is left out: the
  api server does not bump the version of an unchanged object and
  publishOnTransition is silent.
- **run.started carries a start time**, and the reconciler keeps the one it has
  already written: `ToPublish`, `StartOf`.
- **Deleted rows** stay in the model with status `deleted`, so that properties
  can speak of them; `RowExists` is what SQL sees.
- **The janitor's 24-hour TTL** is longer than any running controller takes to
  record a finished Job, so `CollectJob` waits for the caches and the AgentRun
  unless an `outage` of every replica is injected.
- **A fault is an action** of the component it hits, enabled by `FaultKinds` and
  the budget `MaxFaults`. An UPDATE that commits and reports an error is the
  behaviour "Handle, then WorkerCrash"; a slow handler whose message is
  redelivered while it runs is "slow".
- **A stream** (`streams[v]`) reads the row and subscribes in two steps, as
  streamEvents does, and tests the status it read, not the current one. Its
  channel is `buf`, a full channel drops the event (`Offered`), and the router's
  30-second timeout (`TimeOut`) may come at any moment while it is open.
- **Plain NATS** is the set `inflight` of (replica, event) pairs: each is
  delivered at most once, in any order, or missed. A replica that dies takes its
  handlers, streams and inbox with it (`ReplicaCrash`), which is why `RunStream`
  leaves out the single-handler crash of `RunStatusConsumer`.
- **What a client knows** (`told[v]`) is the last of its snapshot, a frame, or
  the 404 of a stream of a run that is gone. A console that opens a stream again
  (`Reconnects`) does so only while it believes the run live.

- **A builder** (`worker[w]`) carries in `live` whether its handler's context
  still runs. The context is the event bus's: 30 seconds from the delivery
  (`nats.go:90`), so it ends for free while a Job is polled and needs the fault
  "slow" elsewhere. On a dead context every later call fails: no Job is created,
  no verdict is written or published, and the message is acked all the same.
  Step timeouts (5 to 30 minutes) are longer than the context and never decide.
- **A build's Jobs** are named by its id, so a redelivered message finds those
  of the delivery before, whatever became of them (`CreateJob`).
- **A deploy or undeploy request** is its publish: what comes before it only
  reads (the agent, its mode and image) or projects a Secret that is overwritten
  by name, and a request that fails has either stored its message or has not.
- **An AgentDeployment** is told apart by `uid` and `rv` (resourceVersion). The
  consumer and the reconciler read the informer's copy (`cached`) and write to
  the api-server, which refuses a stale `rv` (`IsCurrent`). `spec` is the request
  it came from; `url` is the port the status was computed with. The last write of
  a handler and its ack are one step, a lost ack is the other outcome of it.
- **The Deployment and the Service** have informers of their own, and their
  copies (`deploymentCopy`, `serviceCopy`) lag behind: an event reaches its
  informer in a later step, which is also when it queues the reconciler
  (`SyncDeployment`, `SyncService`). CreateOrUpdate decides from the copy. It
  writes nothing when the copy is already as wanted, whatever the object is
  (`Matches`); when it writes, Create is refused if there is an object and
  Update if it is another version than the copy (`Accepts`). Only that
  comparison needs their resourceVersions, so the model keeps, in `lagging`, the
  kinds whose copy is of an older version. A rollout, which changes the
  Deployment's status, makes it lag too (`RollOut`).
- **SetControllerReference** refuses an owner of another kind or name, not of
  another uid: an AgentDeployment created again under a name adopts the objects
  of the one before (`Applied`), unless the garbage collector takes them first.
- **The gateway** (`route`, `fetched`): lookups that miss are concurrent, so
  several may have read an object and not yet put it (`MaxLookups` bounds the
  addresses so held); each put starts the
  entry's time-to-live, and a put may come after a newer one.
- **A serial id** is drawn before its row commits (`Draw`, `Commit`), which is
  all the two logs need of Postgres. `overtaken` records the rows that were
  still uncommitted when a batch with a higher id was read: the code has no
  defence against that, and the properties say that nothing else is lost.
- **The webhook**: an event is due until it is answered 204; the history of the
  organization at WorkOS is a constant of the instance. `tenant` is the event
  that wrote the row, which stands for its slug and name. `disordered` records
  that an event was applied after a later one; nothing in the payload the handler
  reads would tell.
- **The audit row of a tenant's own deletion** is refused by the foreign key, as
  the tenant is gone by then, and the error is dropped (`EndLog`).
- **The scheduler** reads the table and updates its entries in two steps
  (`ListAllCron`, `ApplyRefresh`). An expression that the library does not parse
  is accepted by the api and never gets an entry (`Valid`).

Where the model allows more than the code does (safe for the properties, which
are checked over more behaviours): a deposed leader that is idle keeps its cache
instead of exiting; the broker may redeliver in any order.
Where it allows less, without a property noticing: a deposed leader dispatches no
more requests, which it does in the code until its process ends (what it would do
is what the new leader does with the same message); and the stream is a set, so a
message published again is the same message. The last matters for two events.
run.completed is published once, which is a property (`CompletionsPublishedOnce`)
and a theorem; run.started is published again only by a run that executes again
after an outage, with the same start time (`StartTimesAgree`), and is then one
more redelivery of it, of which `consumers` has others.
Simplifications: Broadcast always reaches NATS (a lost broadcast is harmless to
the properties here); the namespace and quota upserts of the dispatch consumer
have no effect a run depends on; a manual trigger is of an agent whose manifest
names secrets; Agents.Get and Runs.Create are one step, since the foreign key
refuses the row of an agent deleted in between; `fire` starts and asks for the
agent in one step, for the same reason; an UPDATE of the webhook that fails on a
slug already taken is left out (WorkOS sends the event again); the janitor and
its exporter are one process, as the chart deploys them. Of deployments:
an informer that catches up sees the newest version at once; the garbage
collector judges an object and deletes it in one step; ReadyReplicas, which the
status copies, is left out, and the rollouts that change it are bounded like
faults; two specs are told apart by their requests, also when they are equal; one
controller acts, and a leader that works on after it was deposed is left to
`RunController`, which has it. One usage destination is modelled, the only one
the migrations create, so the janitor's minimum over destinations is the one
checkpoint.

## 3. Runs

The instances of the run pipeline have one run and one agent: the pipeline shares nothing between
two runs but the replicas' attention, and the proofs cover any number. Two
executions (`MaxExecs`) are one more than is right. `MaxDeliver` is 10 in the
code; 2 is enough for a redelivery and 3 for one that fails again. Two faults
are enough for every pair of failures that must meet to break something (a crash
and the outage that follows it, a moved lease and a lost reply). The two safety
runs divide the faults: `controllers` has two replicas, and those faults that
make replicas disagree, but delivers a message once; `consumers` has two workers,
redelivery, and the faults around the tables. Together they leave out failing
statements and lost acks, which `live` has; every safety property of either run
is proved for all kinds of faults, and for all of them at once. The
streams have one client, since clients share nothing but the Hub's lock, two
replicas of which one handles the events and either serves the client, and a
channel of one event instead of 32: one is enough to be full when the second
event of the run arrives.

| Run | Instance | Shows |
|---|---|---|
| `controllers` | 2 controllers, 1 worker, cron source, 1 delivery, 2 faults of {publish, kube_reply, ctl_crash, leader}; 0.69 M states | `TypeOK`, `ExecutesOnce`, `CompletionsAreTrue`, `CompletionsPublishedOnce`, `ImplementsLifecycle` |
| `consumers` | 1 controller, 2 workers, manual source, agent deleted at any time, 2 deliveries, 2 faults of {kube, meter, ctl_crash, outage, slow}; 0.91 M states | `SettledIsApplied`, `MeteredOnce`, `AnnouncedIsDurable`, `SecretOutlivesRow`, `StartTimesAgree` |
| `live` | 1 controller, 1 worker, webhook source, 3 deliveries, 2 faults of {db, kube, api_crash, ack_lost}; 81 k states, with fairness | `SettledIsMetered`, `AcceptedRunsEnd` |
| `lost` | 1 controller, 1 worker, 1 fault of {publish, ctl_crash} | `TerminalIsPublished` is violated |
| `stream` | 1 client that reconnects, 2 replicas, 1 worker, 1 fault of {db, nats, api_crash}, 2 deliveries; 0.2 M states, with fairness | `TypeOK`, `NewsIsTrue`, `TheEndIsLast`, `ViewersLearnTheEnd` |
| `page` | the same client without reconnecting, no faults | `ViewersLearnTheEnd` is violated |
| `builds` | 1 build with all three steps, 2 builders, 2 deliveries, 3 faults of {db, slow, kube, publish, ack_lost, builder_crash, outage}; 0.15 M states, with fairness | `TypeOK`, `SuccessIsEarned`, `ImageIsRecorded`, `VerdictsStand`, `ImplementsLifecycle`, `BuildsEnd` |
| `slow` | 1 build of one step, 1 builder, no faults | `HealthyBuildsSucceed` is violated |
| `deployments` | any 3 of 2 deploys with different ports, 1 stop and 1 fault of {kube, ack_lost, ctl_crash, rollout}; 2 deliveries, 1 lookup of the gateway in flight; 0.46 M states, with fairness | `GatewayTypeOK`, `QuietRequestsWin`, `IdleMeansSettled`, `StatusIsOfTheSpec`, `ClusterSettles`, `RoutesCatchUp` |
| `orphan` | 1 agent, 1 deploy, no faults | `DeletedAgentsAreStopped` is violated |
| `shipping` | 2 shippers, 3 rows of a tenant that may be deleted, batches of 2, 2 faults of {orb, ship_crash}; 0.23 M states, with fairness and deadlock check | `TypeOK`, `PassedIsBilled`, `PrunedIsBilled`, `ImplementsOutbox`, `RecordedIsBilled` |
| `registry` | an organization created, renamed and deleted, 2 cron triggers of which 1 parses, 2 audit ids, batches of 1, 1 fault of {webhook, audit, sched_crash, s3, janitor_crash}; 0.24 M states, with fairness | `TypeOK`, `TenantFollowsWorkOS`, `ImplementsOutbox`, `AuditIsExported`, `SchedulerFollowsTable`, `RunsAreTriggered` |

Why the later bounds are enough. A build shares nothing with another but the
agent's image, which `ImageIsRecorded` ties to its own build; two builders and
two deliveries are what it takes for two handlers of one message, and three
faults let both fail and the janitor come. Two deploys and a stop make every
pair of requests that can be reordered, and the agent recreated under one name;
`version` needs no bound, since requests and faults are finite. `deployments`
delivers every request twice, which is what it takes to deploy, deploy again and
have the first request come back while the copies are still of its own objects:
the shortest way to a Deployment that is wrong and looks right. `MaxEvents` = 3
lets any three of the requests and the fault happen, in any order, so that two
requests meet a fault and three requests meet each other; all four at once are
left to the theorems, which cover the safety properties. `MaxLookups` = 1 lets the
gateway put back an address that is out of date; a late put that replaces a newer
one takes two lookups in flight, and leaves the cache as a late put alone does. Three rows and
batches of two make a batch that the limit cuts off and a row overtaken inside
and outside it; two audit rows and batches of one do the same for the exporter,
which is alone. Three webhook events are each kind once, and one repeated
delivery is enough to undo a later one.

Controllers and workers are interchangeable, and the two safety runs use that
symmetry; the liveness run does not. Deadlock is not checked where users may
stop asking for anything: a run, a build or a deployment that has ended leaves
nothing to do. The shippers' tickers never stop, so `shipping` checks it.

What the properties say:

- `ImplementsLifecycle`: the row and the AgentRun's verdict, as seen through a
  refinement mapping, behave as `RunLifecycle` says: a row goes forward only,
  and ends with the one verdict.
- `ExecutesOnce`: no interleaving of redelivered requests, stale caches,
  leader changes and crashes makes a second Job. It needs the assumption that
  no outage of every controller outlasts the janitor's TTL: with "outage" a
  Job that succeeded unseen is collected, and the run executes again.
- `CompletionsAreTrue`: a run.completed reports an execution that ended that
  way, agrees with the AgentRun and is the only one of its run.
- `CompletionsPublishedOnce`: a replica that publishes a run.completed is the
  only one at it and the first, so that not even an identical one is published
  again.
- `SettledIsApplied`, `AnnouncedIsDurable`: acks and broadcasts follow effects.
- `MeteredOnce`: at most one usage row per kind, the end only after the end.
- `SecretOutlivesRow`: projection, publication, agent deletion and the janitor
  never leave a run that has its row and its AgentRun without its Secret. A run
  whose row went with its agent may still start, and find its Secret collected.
- `StartTimesAgree`: row and AgentRun show one start time, even when a run is
  executed twice.
- `SettledIsMetered`: no message is acked before all it meters is in place,
  through redeliveries and handlers that died between two inserts. It holds
  where no insert fails: the handler drops that error, so with "meter" a run may
  be applied and never metered.
- `AcceptedRunsEnd`: a run answered 202 ends and is metered.
- `NewsIsTrue`: what a client has been told is in the table by then.
- `TheEndIsLast`: a client told of the end hears nothing else, although
  run.started has its own durable and may be broadcast after run.completed.
- `ViewersLearnTheEnd`: a client that keeps watching learns of the end, although
  broadcasts are missed, dropped, or sent between the read and the subscription.

- `SuccessIsEarned`: no redelivery, dead context, failed call or second builder
  lets an image through that was not pushed, scanned and signed.
- `ImageIsRecorded`: the agent's image is that of a build the table shows as
  succeeded, whoever wrote the verdict first.
- `VerdictsStand`: late builders, second deliveries and the janitor do not
  change a verdict. `BuildsEnd`: every open row is closed in the end.
- `ImplementsLifecycle` (of `BuildPipeline`): builds and images, as seen through
  a refinement mapping, behave as `BuildLifecycle` says: one verdict each,
  success in one step with the agent's image and only after every step has
  passed, and neither row nor image for an agent that is deleted.
- `StatusIsOfTheSpec`: the URL is never computed from a copy that is older than
  the spec it is written next to.
- `ClusterSettles`: Deployment, Service and URL end as the custom resource says.
  `IdleMeansSettled` is its safety part: whenever no reconcile runs or is queued
  and every informer has caught up, those of a custom resource that exists are as
  it says. A failed write, a refused one, one left out because of a stale copy,
  or a changed object that did not queue a reconcile would be lost work, and
  break it.
- `QuietRequestsWin`: a deploy or undeploy made while nothing else was under way
  has the last word as soon as its message is settled, and keeps it until the
  next request. Requests made close together have no order: each subject has its
  own durable.
- `RoutesCatchUp`: the gateway stops using an address that is gone.
- `PassedIsBilled`, `PrunedIsBilled`, `RecordedIsBilled`: nothing but an
  overtaken row is lost, and every other row is billed in the end. That no row
  is billed twice is no property of the protocol but of the idempotency key,
  which depends on the row alone (`Key`).
- `AuditIsExported`: every audit row that is kept and not overtaken is exported
  in the end. How often is not visible to it, since `exported` is a set: a crash
  between the upload and the checkpoint uploads a window again, under a new
  object key.
- `ImplementsOutbox`, of both: the table, the checkpoint and the destination,
  under a refinement mapping, behave as `Outbox` says. Only rows that show are
  copied; the mark only moves forward; and it passes a row that is not copied
  only when the row is gone or was given up before it showed because a later row
  showed. A row that commits behind the mark is therefore an overtaken one. The
  mapping (`Shown`) does not tell an id that is not drawn from one whose insert
  has not committed, since no reader can; several shippers, what each has in
  hand, lost answers and restarts are stutters of it. Two consequences of it are
  not run, since the run would ask the same question twice, but have theorems of
  their own: `CheckpointNeverRegresses` and `PassedIsExported`.
- `TenantFollowsWorkOS`: the row ends as the organization does, unless an event
  was applied after a later one.
- `SchedulerFollowsTable`: a refresh that read a table that has changed since is
  made good by a later one. `RunsAreTriggered`: no entry that outlives its row
  starts a run.

**First finding.** `TerminalIsPublished` is the claim of `controller.go:50-51`, that a
terminal phase means run.completed "has already been published". Run `lost`
refutes it: the phase is written first (104), a failing publish is only logged
(168-170), a crash in between does the same, and the early return (52-54) keeps
every later reconcile from publishing. The row stays pending or running, and the
run's end is never billed. `live` therefore does not inject "publish",
"kube_reply" or "ctl_crash".

**Second finding.** The router puts every request, SSE included, under a 30-second
timeout (`cmd/api/main.go:132`), and the handler's loop ends in silence when the
request's context does. The console opens one streaming fetch per page
and does not open another (`web/app/runs/[id]/page.tsx:25-26` promises live updates until the run
ends). Run `page` shows a client that never learns of the end without any fault
at all. The same instance has a second way there, shorter than any timeout: an
event broadcast between the read of the row and the subscription, which the
status test after subscribing does not see because it tests the earlier read.
Both heal by reconnecting, which is what `stream` checks.

**Third finding.** `HealthyBuildsSucceed` is what `cmd/builder/main.go:213-214` says
of runJob, that it polls until the Job is done or the step's timeout, with
timeouts counted in minutes. The context it polls on ends 30 seconds after the
delivery (`eventbus/nats.go:90`). Run `slow` shows a Job that outlasts it, with no
fault: runJob returns the context's error, `complete` cannot write or publish on
the same context, and the message is acked. The image may have been pushed; the
row stays running for six hours and is then failed by the janitor. `BuildsEnd`
holds because of the janitor only.

**Fourth finding.** `pkg/events/events.go:105-106` says that agent deletion publishes
deployment.stopped. `Handlers.delete` publishes nothing, and undeploy needs the
row that is gone. Run `orphan` shows the deployment that stays.

Smaller divergences met on the way, without a run: `events.go:87` calls a failed
signature "blocked", the builder records it as failed; `builds/repo.go:2-5`
calls the builder the only writer of a build's terminal state, the janitor is
another; build.completed is published also when MarkCompleted failed, so the
event may say succeeded where the row says running or failed.

**Fairness of the other specifications.** `BuildPipeline`: the stages of a
handler, the broker's deliveries, the end of pods, time (six hours) and the
janitor's ticks; contexts need not end. `Deployments`: the consumers
with the broker that delivers to them, the watch of each of the three kinds, the
reconciler and the garbage collector. Weak fairness suffices, since requests and
deliveries are finite: a consumer busy with one message comes to the other.
`Gateway` adds that a time-to-live ends; lookups need not.
`UsageShipping`: transactions end and tickers tick. `Registry`: WorkOS repeats
what is not answered 204, the scheduler's and the janitor's tickers tick. Users,
faults and new events are never forced.

**Fairness of `RunStream`**: each client follows its stream and opens new ones.
Nothing is asked of NATS, the Hub or the workers. Weak fairness suffices since a
client's work stays enabled until it is done, and a stream ends at its timeout
at the latest.

**Fairness of `RunPipeline`** (`Fairness`), one conjunct per goroutine: the
dispatch consumer, the reconcile worker and the informers of each replica, each
api worker, restart of a dead replica, election when the leader is down, and the
cluster. The code justifies them: JetStream redelivers whatever is not acked,
handler contexts end after 30 s, controller-runtime requeues errors and resyncs
informers, the Deployments restart their pods, and a Job with a runnable pod
ends (an assumption about the agent, not about the platform: nothing in the code
times a run out). Requests, deletions, faults and the janitor are never forced.

## 4. Proofs

Proved by TLAPS for every set of runs, agents, replicas and workers, every bound
and every set of faults:

- `TypeCorrect`: `Spec => []TypeOK` (`RunPipelineProofs`). `TypeOK` is not
  inductive: an event names an execution in `1..MaxExecs`, so existing Jobs,
  cached copies of them and tasks about to publish must carry one
  (`JobsNumbered`, `CopiesNumbered`, `TasksNumbered`), and only stored messages
  are settled, so handlers hold stored ones (`HeldIsStored`). `TypeInv` adds
  these four; one lemma per process shows that its steps keep them.
- `CompletionsHold`: `Spec => []CompletionsAreTrue` (`RunPipelineProofs`). The
  argument: a cached copy and the task made of it are at most as new as the
  AgentRun (`CopiesLag`, `TasksLag`); a task whose version is current was made of
  a live phase; so a terminal phase is written once, over a live one, by one
  replica, which is then the only one ever to publish that run's completion
  (`PublishersOwn`); and every outcome a Job, a copy or a task holds is one that
  happened (`OutcomesHappened`). `CompletionInv` is their conjunction.
  `WriteKeepsCompletions` is the heart: the one step that decides a run.
- `CompletionsSentOnce`: `Spec => []CompletionsPublishedOnce`
  (`RunPipelineProofs`), which `PublishersOwn` above contains.

- `ImplementsRunLifecycle`, `SettledMessagesApplied`, `AnnouncementsDurable`,
  `RunsMeteredOnce` (`RunPipelineTables`): `Spec => ImplementsLifecycle`, and
  `SettledIsApplied`, `AnnouncedIsDurable` and `MeteredOnce` as invariants. Two
  strengthenings carry them. `OriginInv` is the order of creation: a request in
  progress, an AgentRun, a handled run.requested and an event about to be
  published all imply a row that was inserted, and rows and AgentRuns are never
  removed. `ReflectInv` says that every message past its UPDATE (held by a
  handler, announced or settled) is reflected by its row, which lasts because
  rows only advance (`RowsAdvance`) and because the completions of a run agree
  (`OneVerdict`, from `CompletionsAreTrue`). Metering adds that only a
  run.completed reaches the `seconds` step. For the refinement, a terminal status
  write is `Decide`, since it overwrites a live phase of a run that has a row;
  MarkStarted is `Begin` or a stutter; MarkCompleted is `Finish` with the
  AgentRun's verdict or a stutter; an agent's deletion is one `Discard`.
- `StartTimesHold` (`RunPipelineTables`): `StartTimesAgree`. A start time, once
  written to an AgentRun, is never moved (`StampsKept`): only a current task
  writes, and it keeps the time of the object it was made of. So what was made
  of a start time, a task that publishes it (`StartsPublished`), an event
  (`StartsStored`) or the row, agrees with the AgentRun for good. It takes that a
  running AgentRun has a time and an absent one has none (`StartInv`).
- `SecretsOutliveRows`: `SecretOutlivesRow`. A manual run that is at its publish,
  has its message stored or has its AgentRun, and has a row, has its Secret
  (`SecretInv`): the projection comes before the publish, and the janitor deletes
  after the row. The second strengthening, `OriginInv` above, is what makes an
  AgentRun imply a publish.
- `RunsExecuteOnce`: `ExecutesOnce`, assuming `"outage" \notin FaultKinds`. A
  second Job needs the first to be collected, and a collected Job is over
  (`CollectedIsOver`): its AgentRun is terminal, no cache holds a live copy of it,
  and no replica is about to create a Job for it. A replica that is down forgets
  its cache (`DownForgets`), so it lists the AgentRun anew. The assumption is not
  for the proof's sake: with "outage" TLC finds a second execution.
- `ReliableCompletionsPublished`: `TerminalIsPublished`, which run `lost` refutes,
  assuming that the faults "publish", "kube_reply" and "ctl_crash" are left out
  (`Reliable`). A terminal AgentRun has its completion in the stream or with the
  replica that is about to publish it (`CompletionOwed`). With run `lost` this
  says which faults lose a completion: those three, and no moving lease, lost
  ack or stale cache.
- `SettledMessagesMetered`: `SettledIsMetered`, assuming `"meter" \notin
  FaultKinds`. A handler at a step has in place every usage row due before it
  (`HandledMetered`), whichever handler inserted it, and that lasts: a usage row
  is never removed, and a run whose row is gone stays gone (`MeteredStays`, from
  `RowsAdvance`). It is the safety part of `AcceptedRunsEnd` and, with the
  assumption, says that the dropped insert errors alone lose a bill.
- `StreamTypeCorrect`, `NewsHold`, `EndIsLast` (`RunStreamProofs`): `TypeOK`,
  `NewsIsTrue` and `TheEndIsLast` of `RunStream`. What is in flight, in a channel
  or told is reflected by its row; a channel is read only by a stream whose
  client has not been told of the end. The lemmas about the handlers are those
  of `RunStatusProofs`, shared with `RunPipeline`.

- `BuildTypeCorrect`, `SuccessEarned`, `ImageRecorded`, `VerdictsAreFinal`
  (`BuildPipelineProofs`): `TypeOK`, `SuccessIsEarned`, `ImageIsRecorded` and
  `VerdictsStand`. A verdict is made in a worker long before it is written, so
  `EarnedInv` follows the worker: it stands at a step only when the steps before
  it have succeeded (`WorkersAreHonest`), and a Job that has succeeded stays so
  (`JobsStay`). `RecordInv` needs only that a build never requested has no row,
  so that no row is inserted over a verdict; the image moves in the transaction
  that closes an open row.
- `ImplementsBuildLifecycle` (`BuildPipelineProofs`): `Spec => ImplementsLifecycle`,
  from `EarnedInv` and `RecordInv` together. A build has passed when all its Jobs
  have succeeded, which only the end of a Job brings about and nothing undoes
  (`JobsLetPass`). MarkRunning is `Begin` or a stutter; MarkCompleted is `Succeed`
  or `Refuse` when the row is open and a stutter when it is not, and may be
  `Succeed` because the worker that writes it is honest; the janitor's UPDATE is
  one `Expire`, an agent's deletion one `Discard`.
- `DeploymentsTypeCorrect`, `StatusFresh` (`DeploymentProofs`): `TypeOK` and
  `StatusIsOfTheSpec` of `Deployments`. Whatever the informer, a dispatch or a
  reconcile has read is the object as it is or has an older version
  (`ReadingsLag`), since versions are never handed out twice, not even to an
  object created later under the same name. A write that the api-server takes was
  thus computed from the object it changes.
- `RestedReconcilerHasSettled` (`DeploymentProofs`): `IdleMeansSettled`. A copy
  whose informer has caught up is the object (`CopiesLag`). The Deployment is
  done for a reading of the custom resource when it matches it or is lagging, in
  which case its event is still to come and will queue the reconciler
  (`DeploymentDone`, `ServiceDone`). While no reconcile is queued, what the
  current one has written so far, or all of it when none runs, is done for the
  informer's copy (`Progress`): an apply step leaves the object done, because it
  writes it, or because the copy it found as wanted is the object or is lagging
  (`ApplyingIsDone`), and whatever else touches an object, the garbage collector
  included, leaves it lagging (`KubernetesLeavesDone`). `ReadingsLag` is needed
  for the one write that a reconcile makes to the custom resource: the status
  update either changes nothing or gives it a version the informer has not seen,
  so that the informer has not caught up.
- `LastWordOfQuietRequests` (`DeploymentProofs`): `QuietRequestsWin`. From a
  request made in quiet to the next one, its message is the only one that is owed
  or handled (`OwnsTheBus`), so an object that its handler did not see was made by
  an earlier delivery of it (`UnseenIsOwn`): that is why a Create that meets
  AlreadyExists may be acked. `Quiet` must include that the informer has caught
  up, or the invariant, and the property, fail.
- `GatewayTypeCorrect` (`DeploymentProofs`): `GatewayTypeOK` of `GatewaySpec`,
  whose own steps leave the deployments alone (`GatewayReadsOnly`).
- `ShippingTypeCorrect`, `PassedBilled`, `PrunedBilled`, `CheckpointAdvances`
  (`UsageShippingProofs`): `TypeOK`, `PassedIsBilled`, `PrunedIsBilled` and
  `CheckpointNeverRegresses`. An id is covered
  when the sequence has handed it out and its row is gone, billed, overtaken or in the batch at hand; `ShippersCover` carries that
  from the checkpoint a shipper read to the one it writes. Two facts carry the
  step that reads a batch: ids are handed out in their order (`NoGaps`), and a
  batch leaves out nothing that shows below its last row (`BatchIsPrefix`).
- `ShippingImplementsOutbox` (`UsageShippingProofs`) and `ExportImplementsOutbox`
  (`RegistryProofs`): `ImplementsOutbox` of the two logs, step by step. Each adds
  one conjunct to the invariant above, `HandledHasShown`: what a shipper or the
  exporter has in hand, and what the destination has, has shown. It makes a copy
  a copy of shown rows, and a commit at or below the checkpoint, which is
  covered but not billed or exported, the commit of an overtaken row.
- `RegistryTypeCorrect`, `PassedExported`, `TriggeredRuns`,
  `TenantIsTheLastEvent` (`RegistryProofs`). `TypeOK` says that a batch has at
  most `BatchSize` rows, a fact about cardinalities (`BatchIsBounded`).
  `PassedIsExported` goes like `PassedIsBilled` (`Accounted`, `PassAccounts`),
  but rows may be erased in the middle of a pass, when the tenant goes, and an
  upload may have been stored although it failed. `RunsAreTriggered` rests on
  `CopiesHaveRows`: only the agent's deletion takes a trigger's row, and until
  then every copy the scheduler has, in an entry, a refresh or a firing, is of a
  trigger that has its row. `TenantIsTheLastEvent` is the safety part of
  `TenantFollowsWorkOS`: once the last event is applied, and none after a later
  one, the row is what the organization is, however often events are repeated.

The assumptions are those of the modules that declare the constants:
`ExecsAssumption`, `MaxDeliverAssumption`, `FaultsAssumption`,
`AgentOfAssumption`, `SourceAssumption`, `ReplicaOfAssumption`,
`WatchedAssumption`, `ReconnectsAssumption`, `BufferAssumption`;
`BuildAgentAssumption`, `BuildTogglesAssumption`, `BuildDeliverAssumption`,
`BuildImageAssumption` (no build is called as the absent image is);
`PortAssumption`, `RequestsAssumption`, `DeployDeliverAssumption`,
`EventsAssumption`, `LookupsAssumption`,
`UnclearAssumption` (no request is called as the mark of an unclear one is);
`MaxIdAssumption`, `TenantOfAssumption`, `BatchSizeAssumption`;
`HistoryAssumption`, `AuditIdsAssumption`, `ExportBatchAssumption`,
`ValidAssumption`. Only `RunsExecuteOnce`, `SettledMessagesMetered` and
`ReliableCompletionsPublished` assume anything of `FaultKinds`, and they say so in their statements.

Every safety property that a passing run checks, as an invariant, an action
property or a refinement, is thus proved for every instance. What is only
model-checked is liveness, since fairness and ENABLED are out of the prover's
reach: `AcceptedRunsEnd`, `ViewersLearnTheEnd`, `BuildsEnd`, `ClusterSettles`,
`RoutesCatchUp`, `RecordedIsBilled`, `TenantFollowsWorkOS`, `AuditIsExported` and
`SchedulerFollowsTable`.

## 5. Plan

What is left: the secrets table and its projection per agent, and the retention
of the stream, if the code comes to depend on either.

Two liveness properties have no safety part worth stating. The scheduler
refreshes on a ticker and has no state in which it rests, so nothing relates its
entries to the table at a moment except what `RunsAreTriggered` says of a firing.
The gateway's cache is stale by design until an entry expires.

Not modelled, and why: run logs (read-only proxying), quotas (idempotent upserts
of constants), authentication (a pure check before the handlers), cryptography,
telemetry and configuration (no protocol), the CLI, SDKs, web console beyond the
run page, and charts (clients and packaging). Two replicas of the trigger
scheduler would fire each tick twice: nothing in the code elects one, and the
chart runs one, so the model has one.
