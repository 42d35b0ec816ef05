------------------------ MODULE BuildPipelineProofs -------------------------
(***************************************************************************)
(* BuildPipeline is type correct, never lets an image through that has not *)
(* earned it, never changes a verdict, and implements BuildLifecycle: for  *)
(* every set of builds, agents, builders and faults, whatever the steps.   *)
(***************************************************************************)
EXTENDS BuildPipeline, TLAPS

-----------------------------------------------------------------------------
(* The plan and the moves of a worker.                                     *)

LEMMA PlanIsSequence ==
  /\ Len(Plan) \in Nat \ {0}
  /\ DOMAIN Plan = 1..Len(Plan)
  /\ \A i \in DOMAIN Plan : Plan[i] \in Steps
<1> DEFINE scan == IF TrivyEnabled THEN <<"scan">> ELSE <<>>
           sign == IF CosignEnabled THEN <<"sign">> ELSE <<>>
<1>1. <<"build">> \in Seq(Steps) /\ Len(<<"build">>) = 1
  BY DEF Steps
<1>2. scan \in Seq(Steps) /\ sign \in Seq(Steps)
  <2>1. <<"scan">> \in Seq(Steps) /\ <<"sign">> \in Seq(Steps) /\ <<>> \in Seq(Steps)
    BY DEF Steps
  <2> QED
    BY <2>1
<1>3. Len(scan) \in Nat /\ Len(sign) \in Nat
  BY <1>2
<1> HIDE DEF scan, sign
<1>4. /\ <<"build">> \o scan \in Seq(Steps)
      /\ Len(<<"build">> \o scan) = 1 + Len(scan)
  BY <1>1, <1>2
<1>5. /\ (<<"build">> \o scan) \o sign \in Seq(Steps)
      /\ Len((<<"build">> \o scan) \o sign) = 1 + Len(scan) + Len(sign)
  BY <1>2, <1>4
<1>6. Plan = (<<"build">> \o scan) \o sign
  BY DEF Plan, scan, sign
<1> QED
  BY <1>3, <1>5, <1>6

\* A worker that holds a message holds one that the stream has: the settled
\* messages stay among the stored ones only because of it.
HeldIsStored ==
  \A w \in Builders : worker[w] # Idle => worker[w].build \in stream

TypeInv == TypeOK /\ HeldIsStored

LEMMA WorkingIsBusy ==
  ASSUME TypeOK, NEW w \in Builders, worker[w].stage # "idle"
  PROVE  /\ worker[w] # Idle
         /\ worker[w] \in Working
         /\ worker[w].build \in Builds
         /\ worker[w].live \in BOOLEAN
         /\ worker[w].stage \in {"create", "poll"} => worker[w].step \in DOMAIN Plan
         /\ worker[w].stage \in {"complete", "publish"} => worker[w].verdict \in Verdicts
<1>1. worker[w] \in {Idle} \union Working
  BY DEF TypeOK
<1>2. worker[w] # Idle
  BY DEF Idle
<1>3. worker[w] \in Working
  BY <1>1, <1>2
<1> QED
  BY <1>2, <1>3 DEF Working

LEMMA FaultTypes ==
  ASSUME FaultTypeOK, NEW k, Fault(k) PROVE FaultTypeOK'
BY FaultsAssumption DEF FaultTypeOK, Fault

\* What a busy worker writes of itself keeps the type and the message.
LEMMA MovesAreTyped ==
  ASSUME TypeInv, NEW w \in Builders, worker[w].stage # "idle", UNCHANGED stream,
         \/ \E s \in {"begin", "resolve", "ack"} : Goes(w, s)
         \/ \E s \in {"create", "poll"}, i \in DOMAIN Plan : GoesToStep(w, s, i)
         \/ \E v \in Verdicts : Decides(w, v)
         \/ worker' = [worker EXCEPT ![w] = Idle]
  PROVE  /\ worker' \in [Builders -> {Idle} \union Working]
         /\ HeldIsStored'
<1> DEFINE busy == worker[w]
<1>1. busy.build \in Builds /\ busy.live \in BOOLEAN /\ busy.build \in stream
  BY WorkingIsBusy DEF TypeInv, HeldIsStored
<1>2. ASSUME NEW x \in {Idle} \union Working, worker' = [worker EXCEPT ![w] = x],
             x # Idle => x.build = busy.build
      PROVE  worker' \in [Builders -> {Idle} \union Working] /\ HeldIsStored'
  BY <1>1, <1>2 DEF TypeInv, TypeOK, HeldIsStored
<1>3. ASSUME NEW s \in {"begin", "resolve", "ack"}, Goes(w, s)
      PROVE  worker' \in [Builders -> {Idle} \union Working] /\ HeldIsStored'
  <2> DEFINE x == [stage |-> s, build |-> busy.build, live |-> busy.live]
  <2>1. x \in Working /\ x.build = busy.build
    BY <1>1 DEF Working
  <2>2. worker' = [worker EXCEPT ![w] = x]
    BY <1>3 DEF Goes
  <2> QED
    BY <1>2, <2>1, <2>2
<1>4. ASSUME NEW s \in {"create", "poll"}, NEW i \in DOMAIN Plan, GoesToStep(w, s, i)
      PROVE  worker' \in [Builders -> {Idle} \union Working] /\ HeldIsStored'
  <2> DEFINE x == [stage |-> s, build |-> busy.build, live |-> busy.live, step |-> i]
  <2>1. x \in Working /\ x.build = busy.build
    BY <1>1 DEF Working
  <2>2. worker' = [worker EXCEPT ![w] = x]
    BY <1>4 DEF GoesToStep
  <2> QED
    BY <1>2, <2>1, <2>2
<1>5. ASSUME NEW v \in Verdicts, Decides(w, v)
      PROVE  worker' \in [Builders -> {Idle} \union Working] /\ HeldIsStored'
  <2> DEFINE x == [stage |-> "complete", build |-> busy.build, live |-> busy.live,
                   verdict |-> v]
  <2>1. x \in Working /\ x.build = busy.build
    BY <1>1 DEF Working
  <2>2. worker' = [worker EXCEPT ![w] = x]
    BY <1>5 DEF Decides
  <2> QED
    BY <1>2, <2>1, <2>2
<1> QED
  BY <1>2, <1>3, <1>4, <1>5

-----------------------------------------------------------------------------
(* Types.                                                                  *)

LEMMA PublishTypes ==
  ASSUME Bus!BusTypeOK, HeldIsStored, NEW b \in Builds, Bus!Publish(b), UNCHANGED worker
  PROVE  Bus!BusTypeOK' /\ HeldIsStored'
BY DEF Bus!BusTypeOK, Bus!Publish, HeldIsStored

\* The API, the janitor and the cluster keep their tables typed and leave the
\* workers and the settled messages alone.
LEMMA WorldTypes ==
  ASSUME TypeInv,
         \/ \E b \in Builds : \/ Create(b) \/ Accept(b) \/ AcceptFails(b)
                              \/ BecomesStuck(b)
                              \/ \E s \in Steps : JobEnds(b, s)
         \/ \E a \in Agents : DeleteAgent(a)
         \/ FailStuckBuilds
  PROVE  TypeInv'
<1> USE DEF TypeInv, TypeOK
<1>1. ASSUME UNCHANGED busVars, UNCHANGED worker PROVE Bus!BusTypeOK' /\ HeldIsStored'
  BY <1>1 DEF Bus!BusTypeOK, HeldIsStored, busVars
<1>2. ASSUME UNCHANGED faults PROVE FaultTypeOK'
  BY <1>2 DEF FaultTypeOK
<1>3. ASSUME NEW b \in Builds, Create(b) PROVE TypeInv'
  BY <1>1, <1>2, <1>3 DEF Create, BuildStatus, Open
<1>4. ASSUME NEW b \in Builds, Accept(b) PROVE TypeInv'
  BY <1>2, <1>4, PublishTypes DEF Accept
<1>5. ASSUME NEW b \in Builds, AcceptFails(b) PROVE TypeInv'
  BY <1>1, <1>5, PublishTypes, FaultTypes DEF AcceptFails
<1>6. ASSUME NEW b \in Builds, BecomesStuck(b) PROVE TypeInv'
  BY <1>1, <1>2, <1>6, FaultTypes DEF BecomesStuck
<1>7. ASSUME NEW b \in Builds, NEW s \in Steps, JobEnds(b, s) PROVE TypeInv'
  BY <1>1, <1>2, <1>7 DEF JobEnds
<1>8. ASSUME NEW a \in Agents, DeleteAgent(a) PROVE TypeInv'
  BY <1>1, <1>2, <1>8 DEF DeleteAgent, BuildStatus
<1>9. ASSUME FailStuckBuilds PROVE TypeInv'
  BY <1>1, <1>2, <1>9 DEF FailStuckBuilds, BuildStatus, Verdicts
<1> QED
  BY <1>3, <1>4, <1>5, <1>6, <1>7, <1>8, <1>9

\* A builder handles the build of the message it took.
LEMMA BuilderTypes ==
  ASSUME TypeInv, NEW w \in Builders,
         \/ \E b \in Builds : Take(w, b)
         \/ ContextEnds(w) \/ Handle(w) \/ BuilderCrashes(w)
  PROVE  TypeInv'
<1> USE DEF TypeInv, TypeOK
<1> DEFINE busy == worker[w]
<1>1. ASSUME UNCHANGED busVars PROVE Bus!BusTypeOK' /\ UNCHANGED stream
  BY <1>1 DEF Bus!BusTypeOK, busVars
<1>2. ASSUME UNCHANGED faults PROVE FaultTypeOK'
  BY <1>2 DEF FaultTypeOK
<1>3. Plan # <<>> /\ 1 \in DOMAIN Plan
  BY PlanIsSequence
<1>4. ASSUME NEW b \in Builds, Take(w, b) PROVE TypeInv'
  <2> DEFINE x == [stage |-> "begin", build |-> b, live |-> TRUE]
  <2>1. x \in Working /\ b \in stream
    BY <1>4 DEF Working, Take, Bus!Deliver, Bus!Deliverable
  <2>2. worker' = [worker EXCEPT ![w] = x] /\ UNCHANGED stream
    BY <1>4 DEF Take, Bus!Deliver
  <2>3. worker' \in [Builders -> {Idle} \union Working] /\ HeldIsStored'
    BY <2>1, <2>2 DEF HeldIsStored
  <2>4. Bus!BusTypeOK'
    BY <1>4, BuildDeliverAssumption
    DEF Take, Bus!BusTypeOK, Bus!Deliver, Bus!Deliverable
  <2> QED
    BY <1>2, <1>4, <2>3, <2>4 DEF Take
<1>5. ASSUME ContextEnds(w) PROVE TypeInv'
  <2>1. busy \in Working /\ busy # Idle
    BY <1>5, WorkingIsBusy DEF ContextEnds, At
  <2> DEFINE x == [busy EXCEPT !.live = FALSE]
  <2>2. x \in Working /\ x.build = busy.build
    BY <2>1 DEF Working
  <2>3. worker' = [worker EXCEPT ![w] = x] /\ UNCHANGED stream
    BY <1>5 DEF ContextEnds, busVars
  <2>4. worker' \in [Builders -> {Idle} \union Working] /\ HeldIsStored'
    BY <2>1, <2>2, <2>3 DEF HeldIsStored
  <2> QED
    BY <1>1, <1>2, <1>5, <2>4, FaultTypes DEF ContextEnds
<1>6. ASSUME Begin(w) PROVE TypeInv'
  BY <1>1, <1>2, <1>6, WorkingIsBusy, MovesAreTyped, FaultTypes
  DEF Begin, At, RunningBuild, BuildStatus, Open
<1>7. ASSUME Resolve(w) PROVE TypeInv'
  BY <1>1, <1>2, <1>3, <1>7, WorkingIsBusy, MovesAreTyped, FaultTypes
  DEF Resolve, At, Verdicts
<1>8. \A s : VerdictOf(s) \in Verdicts
  BY DEF VerdictOf, Verdicts
<1>9. ASSUME CreateJob(w) PROVE TypeInv'
  <2>1. busy.build \in Builds /\ busy.step \in DOMAIN Plan /\ StepOf(w) \in Steps
    BY <1>9, WorkingIsBusy, PlanIsSequence DEF CreateJob, At, StepOf
  <2>2. jobs' \in [Builds -> [Steps -> {"absent", "active", "succeeded", "failed"}]]
    <3> DEFINE j == jobs[busy.build][StepOf(w)]
               v == IF j = "absent" THEN "active" ELSE j
    <3>1. v \in {"absent", "active", "succeeded", "failed"}
      BY <2>1
    <3>2. jobs' \in {jobs, [jobs EXCEPT ![busy.build][StepOf(w)] = v]}
      <4> DEFINE created == [jobs EXCEPT ![busy.build][StepOf(w)] =
                               IF @ = "absent" THEN "active" ELSE @]
      <4>1. jobs' \in {jobs, created}
        BY <1>9, Zenon DEF CreateJob
      <4>2. created = [jobs EXCEPT ![busy.build][StepOf(w)] = v]
        BY <2>1
      <4> QED
        BY <4>1, <4>2
    <3> HIDE DEF v
    <3>3. ASSUME NEW b \in Builds
          PROVE  [jobs[b] EXCEPT ![StepOf(w)] = v]
                   \in [Steps -> {"absent", "active", "succeeded", "failed"}]
      BY <3>1
    <3>4. CASE jobs' = [jobs EXCEPT ![busy.build][StepOf(w)] = v]
      BY <2>1, <3>3, <3>4
    <3> QED
      BY <3>2, <3>4
  <2>3. worker' \in [Builders -> {Idle} \union Working] /\ HeldIsStored'
    BY <1>1, <1>8, <1>9, <2>1, MovesAreTyped DEF CreateJob, At
  <2> QED
    BY <1>1, <1>2, <1>9, <2>2, <2>3, FaultTypes DEF CreateJob
<1>10. ASSUME PollJob(w) PROVE TypeInv'
  <2>1. busy.step \in DOMAIN Plan
    BY <1>10, WorkingIsBusy DEF PollJob, At
  <2>2. busy.step < Len(Plan) => busy.step + 1 \in DOMAIN Plan
    BY <2>1, PlanIsSequence
  <2>3. worker' \in [Builders -> {Idle} \union Working] /\ HeldIsStored'
    <3>1. \/ \E i \in DOMAIN Plan : GoesToStep(w, "create", i)
          \/ \E v \in Verdicts : Decides(w, v)
      BY <1>8, <1>10, <2>2 DEF PollJob, StepEnds, StepSucceeds, Verdicts
    <3> QED
      BY <1>1, <1>10, <3>1, MovesAreTyped DEF PollJob, At
  <2> QED
    BY <1>1, <1>2, <1>10, <2>3, FaultTypes DEF PollJob
<1>11. ASSUME Complete(w) PROVE TypeInv'
  <2>1. busy \in Working /\ busy # Idle /\ busy.build \in Builds /\ busy.verdict \in Verdicts
    BY <1>11, WorkingIsBusy DEF Complete, At
  <2> DEFINE x == [busy EXCEPT !.stage = "publish"]
  <2>2. x \in Working /\ x.build = busy.build
    BY <1>11, <2>1 DEF Working, Complete, At
  <2>3. worker' = [worker EXCEPT ![w] = x] /\ UNCHANGED stream
    BY <1>11 DEF Complete, busVars
  <2>4. worker' \in [Builders -> {Idle} \union Working] /\ HeldIsStored'
    BY <2>1, <2>2, <2>3 DEF HeldIsStored
  <2>5. /\ builds' \in [Builds -> BuildStatus]
        /\ image' \in [Agents -> Builds \union {NoImage}]
    BY <1>11, <2>1, BuildAgentAssumption
    DEF Complete, MarkCompleted, CompletedBuild, CompletedImage, BuildStatus
  <2> QED
    BY <1>1, <1>2, <1>11, <2>4, <2>5, FaultTypes DEF Complete
<1>12. ASSUME PublishCompleted(w) PROVE TypeInv'
  <2>1. busy.build \in Builds /\ busy.verdict \in Verdicts
    BY <1>12, WorkingIsBusy DEF PublishCompleted, At
  <2>2. announced' \in [Builds -> SUBSET Verdicts]
    BY <1>12, <2>1 DEF PublishCompleted
  <2>3. worker' \in [Builders -> {Idle} \union Working] /\ HeldIsStored'
    BY <1>1, <1>12, MovesAreTyped DEF PublishCompleted, At
  <2> QED
    BY <1>1, <1>2, <1>12, <2>2, <2>3, FaultTypes DEF PublishCompleted
<1>13. ASSUME Acknowledge(w) PROVE TypeInv'
  <2>1. busy.build \in Builds /\ busy.build \in stream
    BY <1>13, WorkingIsBusy DEF Acknowledge, At, HeldIsStored
  <2>2. Bus!BusTypeOK' /\ UNCHANGED stream
    BY <1>13, <2>1 DEF Acknowledge, Bus!Ack, Bus!Nak, Bus!BusTypeOK
  <2>3. worker' \in [Builders -> {Idle} \union Working] /\ HeldIsStored'
    BY <1>13, <2>2, MovesAreTyped DEF Acknowledge, At
  <2> QED
    BY <1>2, <1>13, <2>2, <2>3, FaultTypes DEF Acknowledge
<1>14. ASSUME BuilderCrashes(w) PROVE TypeInv'
  BY <1>1, <1>14, MovesAreTyped, FaultTypes DEF BuilderCrashes, At
<1> QED
  BY <1>4, <1>5, <1>6, <1>7, <1>9, <1>10, <1>11, <1>12, <1>13, <1>14 DEF Handle

LEMMA TypesInitially == Init => TypeInv
BY FaultsAssumption, BuildDeliverAssumption
DEF Init, FaultInit, Bus!BusInit, TypeInv, TypeOK, FaultTypeOK, Bus!BusTypeOK,
    HeldIsStored, BuildStatus

LEMMA TypesPreserved == TypeInv /\ [Next]_vars => TypeInv'
<1>1. ASSUME TypeInv, Next PROVE TypeInv'
  BY <1>1, WorldTypes, BuilderTypes DEF Next
<1>2. ASSUME TypeInv, UNCHANGED vars PROVE TypeInv'
  BY <1>2
  DEF vars, busVars, TypeInv, TypeOK, FaultTypeOK, Bus!BusTypeOK, HeldIsStored
<1> QED
  BY <1>1, <1>2

\* BuildPipeline is well typed: whatever the faults, a durable makes at most
\* MaxDeliver attempts at a build, and an ack settles a message it stored.
THEOREM BuildTypeCorrect == Spec => []TypeOK
<1>1. TypeInv => TypeOK
  BY DEF TypeInv
<1> QED
  BY <1>1, TypesInitially, TypesPreserved, PTL DEF Spec

-----------------------------------------------------------------------------
(* Earned success.  A verdict is made in the worker, long before it is     *)
(* written, so the argument follows the worker: it stands at a step only   *)
(* when the steps before it have succeeded, and holds a verdict of success *)
(* only when all have.  A Job that has succeeded stays so.                 *)

Passed(js, b, n) == \A i \in DOMAIN Plan : i < n => js[b][Plan[i]] = "succeeded"
Earned(js, b) == \A i \in DOMAIN Plan : js[b][Plan[i]] = "succeeded"

WorkersAreHonest ==
  \A w \in Builders :
    /\ worker[w].stage \in {"create", "poll"} 
         => Passed(jobs, worker[w].build, worker[w].step)
    /\ worker[w].stage \in {"complete", "publish"} /\ worker[w].verdict = "succeeded"
         => Earned(jobs, worker[w].build)

EarnedInv == TypeInv /\ SuccessIsEarned /\ WorkersAreHonest

\* A Job that has succeeded is never taken back, created again or failed.
LEMMA JobsStay ==
  ASSUME TypeInv, [Next]_vars, NEW b \in Builds, NEW s \in Steps, jobs[b][s] = "succeeded"
  PROVE  jobs'[b][s] = "succeeded"
<1> USE DEF TypeInv, TypeOK
<1>1. ASSUME NEW c \in Builds, NEW t \in Steps, JobEnds(c, t) PROVE jobs'[b][s] = "succeeded"
  BY <1>1 DEF JobEnds
<1>2. ASSUME NEW w \in Builders, CreateJob(w) PROVE jobs'[b][s] = "succeeded"
  <2>1. worker[w].build \in Builds /\ StepOf(w) \in Steps
    BY <1>2, WorkingIsBusy, PlanIsSequence DEF CreateJob, At, StepOf
  <2> QED
    BY <1>2, <2>1 DEF CreateJob
<1> QED
  BY <1>1, <1>2
  DEF Next, vars, Create, Accept, AcceptFails, BecomesStuck, DeleteAgent, FailStuckBuilds,
      Take, ContextEnds, BuilderCrashes, Handle, Begin, Resolve, PollJob, Complete,
      PublishCompleted, Acknowledge

LEMMA EarnedStays ==
  ASSUME TypeInv, [Next]_vars, NEW b \in Builds
  PROVE  /\ Earned(jobs, b) => Earned(jobs', b)
         /\ \A n \in Nat : Passed(jobs, b, n) => Passed(jobs', b, n)
BY JobsStay, PlanIsSequence DEF Earned, Passed

\* Steps of one worker leave the others where they are.
LEMMA OthersStay ==
  ASSUME EarnedInv, [Next]_vars, NEW w \in Builders, NEW x,
         worker' = [worker EXCEPT ![w] = x],
         x.stage \in {"create", "poll"} => Passed(jobs', x.build, x.step),
         x.stage \in {"complete", "publish"} /\ x.verdict = "succeeded"
           => Earned(jobs', x.build)
  PROVE  WorkersAreHonest'
<1> DEFINE Honest(v) ==
      /\ worker'[v].stage \in {"create", "poll"}
           => Passed(jobs', worker'[v].build, worker'[v].step)
      /\ worker'[v].stage \in {"complete", "publish"} /\ worker'[v].verdict = "succeeded"
           => Earned(jobs', worker'[v].build)
<1> SUFFICES ASSUME NEW v \in Builders PROVE Honest(v)
  BY DEF WorkersAreHonest, Passed, Earned
<1>1. CASE v = w
  <2>1. worker'[v] = x
    BY <1>1 DEF EarnedInv, TypeInv, TypeOK
  <2> QED
    BY <2>1
<1>2. CASE v # w
  <2>1. worker'[v] = worker[v]
    BY <1>2 DEF EarnedInv, TypeInv, TypeOK
  <2>2. worker[v].stage \in {"create", "poll", "complete", "publish"}
          => worker[v].build \in Builds
    BY WorkingIsBusy DEF EarnedInv, TypeInv
  <2>3. worker[v].stage \in {"create", "poll"} => worker[v].step \in Nat
    BY WorkingIsBusy, PlanIsSequence DEF EarnedInv, TypeInv
  <2> QED
    BY <2>1, <2>2, <2>3, EarnedStays DEF EarnedInv, WorkersAreHonest
<1> QED
  BY <1>1, <1>2

LEMMA EarnedInitially == Init => EarnedInv
BY TypesInitially, BuildImageAssumption, BuildAgentAssumption
DEF Init, EarnedInv, SuccessIsEarned, WorkersAreHonest, Idle

\* What the three records say of a success was there before, or is what an
\* honest worker wrote.
LEMMA SuccessStaysEarned ==
  ASSUME EarnedInv, [Next]_vars,
         \A b \in Builds :
           (\/ builds'[b] = "succeeded"
            \/ "succeeded" \in announced'[b]
            \/ image'[AgentOf[b]] = b)
           => \/ builds[b] = "succeeded"
              \/ "succeeded" \in announced[b]
              \/ image[AgentOf[b]] = b
              \/ Earned(jobs, b)
  PROVE  SuccessIsEarned'
BY EarnedStays DEF EarnedInv, SuccessIsEarned, Earned

LEMMA WorldEarned ==
  ASSUME EarnedInv, [Next]_vars,
         \/ \E b \in Builds : \/ Create(b) \/ Accept(b) \/ AcceptFails(b)
                              \/ BecomesStuck(b)
                              \/ \E s \in Steps : JobEnds(b, s)
         \/ \E a \in Agents : DeleteAgent(a)
         \/ FailStuckBuilds
         \/ UNCHANGED vars
  PROVE  SuccessIsEarned' /\ WorkersAreHonest'
<1> USE DEF EarnedInv
<1>1. UNCHANGED worker
  BY DEF Create, Accept, AcceptFails, BecomesStuck, JobEnds, DeleteAgent, FailStuckBuilds, vars
<1>2. WorkersAreHonest'
  <2>1. ASSUME NEW w \in Builders, worker[w].stage # "idle"
        PROVE  /\ worker[w].build \in Builds
               /\ worker[w].stage \in {"create", "poll"} => worker[w].step \in Nat
    BY <2>1, WorkingIsBusy, PlanIsSequence DEF TypeInv
  <2> QED
    BY <1>1, <2>1, EarnedStays DEF WorkersAreHonest
<1>3. UNCHANGED announced
  BY DEF Create, Accept, AcceptFails, BecomesStuck, JobEnds, DeleteAgent, FailStuckBuilds, vars
<1>4. ASSUME NEW b \in Builds, builds'[b] = "succeeded" PROVE builds[b] = "succeeded"
  BY <1>4
  DEF TypeInv, TypeOK, Create, Accept, AcceptFails, BecomesStuck, JobEnds, DeleteAgent,
      FailStuckBuilds, vars
<1>5. ASSUME NEW b \in Builds, image'[AgentOf[b]] = b PROVE image[AgentOf[b]] = b
  BY <1>5, BuildImageAssumption, BuildAgentAssumption
  DEF TypeInv, TypeOK, Create, Accept, AcceptFails, BecomesStuck, JobEnds, DeleteAgent,
      FailStuckBuilds, vars
<1> QED
  BY <1>2, <1>3, <1>4, <1>5, SuccessStaysEarned

LEMMA BuilderEarned ==
  ASSUME EarnedInv, [Next]_vars, NEW w \in Builders,
         \/ \E b \in Builds : Take(w, b)
         \/ ContextEnds(w) \/ Handle(w) \/ BuilderCrashes(w)
  PROVE  SuccessIsEarned' /\ WorkersAreHonest'
<1> DEFINE busy == worker[w]
<1>1. TypeInv /\ TypeOK /\ SuccessIsEarned /\ WorkersAreHonest
  BY DEF EarnedInv, TypeInv
<1>2. ASSUME UNCHANGED <<builds, announced, image>> PROVE SuccessIsEarned'
  BY <1>2, SuccessStaysEarned
<1>3. ASSUME worker' = [worker EXCEPT ![w] = Idle] PROVE WorkersAreHonest'
  BY <1>3, OthersStay DEF Idle
<1>4. ASSUME NEW s \in {"begin", "resolve", "ack"}, Goes(w, s) PROVE WorkersAreHonest'
  <2> DEFINE x == [stage |-> s, build |-> busy.build, live |-> busy.live]
  <2>1. worker' = [worker EXCEPT ![w] = x]
    BY <1>1, <1>4 DEF Goes, TypeOK
  <2> QED
    BY <2>1, OthersStay
<1>5. ASSUME NEW s \in {"create", "poll"}, NEW i \in DOMAIN Plan, GoesToStep(w, s, i),
             Passed(jobs', busy.build, i)
      PROVE  WorkersAreHonest'
  <2> DEFINE x == [stage |-> s, build |-> busy.build, live |-> busy.live, step |-> i]
  <2>1. worker' = [worker EXCEPT ![w] = x]
    BY <1>1, <1>5 DEF GoesToStep, TypeOK
  <2> QED
    BY <1>5, <2>1, OthersStay
<1>6. ASSUME NEW v \in Verdicts, Decides(w, v), v = "succeeded" => Earned(jobs', busy.build)
      PROVE  WorkersAreHonest'
  <2> DEFINE x == [stage |-> "complete", build |-> busy.build, live |-> busy.live,
                   verdict |-> v]
  <2>1. worker' = [worker EXCEPT ![w] = x]
    BY <1>1, <1>6 DEF Decides, TypeOK
  <2> QED
    BY <1>6, <2>1, OthersStay
<1>7. \A s : VerdictOf(s) \in Verdicts /\ VerdictOf(s) # "succeeded"
  BY DEF VerdictOf, Verdicts
<1>8. "failed" \in Verdicts /\ "failed" # "succeeded"
  BY DEF Verdicts
<1>9. ASSUME NEW b \in Builds, Take(w, b) PROVE SuccessIsEarned' /\ WorkersAreHonest'
  <2> DEFINE x == [stage |-> "begin", build |-> b, live |-> TRUE]
  <2>1. worker' = [worker EXCEPT ![w] = x]
    BY <1>9 DEF Take
  <2> QED
    BY <1>2, <1>9, <2>1, OthersStay DEF Take
<1>10. ASSUME ContextEnds(w) PROVE SuccessIsEarned' /\ WorkersAreHonest'
  <2> DEFINE x == [busy EXCEPT !.live = FALSE]
  <2>1. worker' = [worker EXCEPT ![w] = x] /\ UNCHANGED jobs
    BY <1>10 DEF ContextEnds
  <2>2. busy \in Working
    BY <1>1, <1>10, WorkingIsBusy DEF ContextEnds, At
  <2>3. /\ x.stage = busy.stage /\ x.build = busy.build
        /\ busy.stage \in {"create", "poll"} => x.step = busy.step
        /\ busy.stage \in {"complete", "publish"} => x.verdict = busy.verdict
    BY <2>2 DEF Working
  <2>4. WorkersAreHonest'
    BY <1>1, <2>1, <2>3, OthersStay DEF WorkersAreHonest
  <2> QED
    BY <1>2, <1>10, <2>4 DEF ContextEnds
<1>11. ASSUME Begin(w) PROVE SuccessIsEarned' /\ WorkersAreHonest'
  <2>1. busy.build \in Builds
    BY <1>1, <1>11, WorkingIsBusy DEF Begin, At
  <2>2. \A b \in Builds : builds'[b] = "succeeded" => builds[b] = "succeeded"
    BY <1>1, <1>11, <2>1 DEF Begin, RunningBuild, TypeOK
  <2> QED
    BY <1>4, <1>11, <2>2, SuccessStaysEarned DEF Begin
<1>12. ASSUME Resolve(w) PROVE SuccessIsEarned' /\ WorkersAreHonest'
  <2>1. 1 \in DOMAIN Plan /\ Passed(jobs', busy.build, 1)
    BY PlanIsSequence DEF Passed
  <2> QED
    BY <1>2, <1>5, <1>6, <1>8, <1>12, <2>1 DEF Resolve
<1>13. ASSUME CreateJob(w) PROVE SuccessIsEarned' /\ WorkersAreHonest'
  <2>1. busy.build \in Builds /\ busy.step \in DOMAIN Plan /\ busy.step \in Nat
    BY <1>1, <1>13, WorkingIsBusy, PlanIsSequence DEF CreateJob, At
  <2>2. Passed(jobs', busy.build, busy.step)
    BY <1>1, <1>13, <2>1, EarnedStays DEF WorkersAreHonest, CreateJob, At
  <2> QED
    BY <1>2, <1>5, <1>6, <1>7, <1>13, <2>1, <2>2 DEF CreateJob
<1>14. ASSUME PollJob(w) PROVE SuccessIsEarned' /\ WorkersAreHonest'
  <2>1. busy.build \in Builds /\ busy.step \in DOMAIN Plan /\ busy.step \in Nat
    BY <1>1, <1>14, WorkingIsBusy, PlanIsSequence DEF PollJob, At
  <2>2. Passed(jobs, busy.build, busy.step) /\ UNCHANGED jobs
    BY <1>1, <1>14, <2>1 DEF WorkersAreHonest, PollJob, At
  <2>3. CASE JobOf(w) = "succeeded" /\ StepSucceeds(w)
    <3>1. \A i \in DOMAIN Plan : i <= busy.step => jobs[busy.build][Plan[i]] = "succeeded"
      BY <2>1, <2>2, <2>3, PlanIsSequence DEF Passed, JobOf, StepOf
    <3>2. CASE busy.step < Len(Plan)
      <4>1. busy.step + 1 \in DOMAIN Plan /\ Passed(jobs', busy.build, busy.step + 1)
        BY <2>1, <2>2, <3>1, <3>2, PlanIsSequence DEF Passed
      <4> QED
        BY <1>2, <1>5, <1>14, <2>3, <3>2, <4>1 DEF PollJob, StepSucceeds
    <3>3. CASE ~(busy.step < Len(Plan))
      <4>1. Earned(jobs', busy.build)
        BY <2>1, <2>2, <3>1, <3>3, PlanIsSequence DEF Earned
      <4>2. "succeeded" \in Verdicts
        BY DEF Verdicts
      <4> QED
        BY <1>2, <1>6, <1>14, <2>3, <3>3, <4>1, <4>2 DEF PollJob, StepSucceeds
    <3> QED
      BY <3>2, <3>3
  <2>4. CASE Decides(w, VerdictOf(StepOf(w)))
    BY <1>2, <1>6, <1>7, <1>14, <2>4 DEF PollJob
  <2> QED
    BY <1>14, <2>3, <2>4 DEF PollJob, StepEnds
<1>15. ASSUME Complete(w) PROVE SuccessIsEarned' /\ WorkersAreHonest'
  <2> DEFINE x == [busy EXCEPT !.stage = "publish"]
  <2>1. /\ busy \in Working /\ busy.stage = "complete"
        /\ busy.build \in Builds /\ busy.verdict \in Verdicts
    BY <1>1, <1>15, WorkingIsBusy DEF Complete, At
  <2>2. worker' = [worker EXCEPT ![w] = x] /\ UNCHANGED jobs
    BY <1>15 DEF Complete
  <2>3. x.stage = "publish" /\ x.build = busy.build /\ x.verdict = busy.verdict
    BY <2>1 DEF Working
  <2>4. busy.verdict = "succeeded" => Earned(jobs, busy.build)
    BY <1>1, <2>1 DEF WorkersAreHonest
  <2>5. WorkersAreHonest'
    BY <2>2, <2>3, <2>4, OthersStay
  <2>6. ASSUME NEW b \in Builds, builds'[b] = "succeeded"
        PROVE  builds[b] = "succeeded" \/ Earned(jobs, b)
    BY <1>1, <1>15, <2>1, <2>4, <2>6 DEF Complete, MarkCompleted, CompletedBuild, TypeOK
  <2>7. ASSUME NEW b \in Builds, image'[AgentOf[b]] = b
        PROVE  image[AgentOf[b]] = b \/ Earned(jobs, b)
    BY <1>1, <1>15, <2>1, <2>4, <2>7, BuildAgentAssumption
    DEF Complete, MarkCompleted, CompletedImage, TypeOK
  <2> QED
    BY <1>15, <2>5, <2>6, <2>7, SuccessStaysEarned DEF Complete
<1>16. ASSUME PublishCompleted(w) PROVE SuccessIsEarned' /\ WorkersAreHonest'
  <2>1. busy.build \in Builds /\ busy.stage = "publish"
    BY <1>1, <1>16, WorkingIsBusy DEF PublishCompleted, At
  <2>2. busy.verdict = "succeeded" => Earned(jobs, busy.build)
    BY <1>1, <2>1 DEF WorkersAreHonest
  <2>3. ASSUME NEW b \in Builds, "succeeded" \in announced'[b]
        PROVE  "succeeded" \in announced[b] \/ Earned(jobs, b)
    BY <1>1, <1>16, <2>1, <2>2, <2>3 DEF PublishCompleted, TypeOK
  <2> QED
    BY <1>4, <1>16, <2>3, SuccessStaysEarned DEF PublishCompleted
<1>17. ASSUME Acknowledge(w) \/ BuilderCrashes(w)
       PROVE  SuccessIsEarned' /\ WorkersAreHonest'
  BY <1>2, <1>3, <1>17 DEF Acknowledge, BuilderCrashes
<1> QED
  BY <1>9, <1>10, <1>11, <1>12, <1>13, <1>14, <1>15, <1>16, <1>17 DEF Handle

LEMMA EarnedPreserved == EarnedInv /\ [Next]_vars => EarnedInv'
<1> SUFFICES ASSUME EarnedInv, [Next]_vars PROVE EarnedInv'
  OBVIOUS
<1>1. TypeInv'
  BY TypesPreserved DEF EarnedInv
<1>2. SuccessIsEarned' /\ WorkersAreHonest'
  BY WorldEarned, BuilderEarned DEF Next
<1> QED
  BY <1>1, <1>2 DEF EarnedInv

\* No redelivery, dead context, failed call, crash or second builder lets an
\* image through that was not pushed, scanned and signed: for any number of
\* builders and deliveries, and whichever steps are switched on.
THEOREM SuccessEarned == Spec => []SuccessIsEarned
<1>1. EarnedInv => SuccessIsEarned
  BY DEF EarnedInv
<1> QED
  BY <1>1, EarnedInitially, EarnedPreserved, PTL DEF Spec

-----------------------------------------------------------------------------
(* Verdicts.  The row is the only judge: the pointer to the image is moved *)
(* by the transaction that closes an open row, and a row is inserted once, *)
(* so no verdict is overwritten by a new row of the same id.               *)

\* A build that has not been requested has no row.
RowsAreRequested == \A b \in Builds : requests[b] = "none" => builds[b] = "absent"

RecordInv == TypeInv /\ RowsAreRequested /\ ImageIsRecorded

LEMMA RecordInitially == Init => RecordInv
BY TypesInitially DEF Init, RecordInv, RowsAreRequested, ImageIsRecorded

\* Begin and Complete are the only steps of a builder that touch the tables.
LEMMA BuilderWrites ==
  ASSUME TypeInv, NEW w \in Builders,
         \/ \E b \in Builds : Take(w, b)
         \/ ContextEnds(w) \/ Handle(w) \/ BuilderCrashes(w)
  PROVE  /\ UNCHANGED <<agents, requests>>
         /\ \/ UNCHANGED <<builds, image>>
            \/ \E b \in Builds :
                 /\ builds' = [builds EXCEPT ![b] = RunningBuild(@)]
                 /\ UNCHANGED image
            \/ \E b \in Builds, v \in Verdicts : MarkCompleted(b, v)
<1>1. ASSUME Begin(w) \/ Complete(w) PROVE worker[w].build \in Builds
  BY <1>1, WorkingIsBusy DEF TypeInv, Begin, Complete, At
<1>2. ASSUME Complete(w) PROVE worker[w].verdict \in Verdicts
  BY <1>2, WorkingIsBusy DEF TypeInv, Complete, At
<1> QED
  BY <1>1, <1>2
  DEF Take, ContextEnds, BuilderCrashes, Handle, Begin, Resolve, CreateJob, PollJob,
      Complete, PublishCompleted, Acknowledge

\* Every writer finds the row open or leaves its verdict alone, and the image
\* follows the row.
LEMMA RecordStep ==
  ASSUME RecordInv, [Next]_vars
  PROVE  /\ RowsAreRequested' /\ ImageIsRecorded'
         /\ \A b \in Builds :
              builds[b] \in Verdicts => builds'[b] \in {builds[b], "deleted"}
<1> DEFINE Stand == \A b \in Builds :
                      builds[b] \in Verdicts => builds'[b] \in {builds[b], "deleted"}
           Kept == RowsAreRequested' /\ ImageIsRecorded' /\ Stand
<1> USE DEF RecordInv, TypeInv, TypeOK
<1>1. ASSUME UNCHANGED <<builds, image>>,
             \A b \in Builds : requests'[b] = "none" => requests[b] = "none"
      PROVE  Kept
  BY <1>1 DEF RowsAreRequested, ImageIsRecorded
<1>2. ASSUME NEW b \in Builds, Create(b) PROVE Kept
  BY <1>2, BuildAgentAssumption DEF Create, RowsAreRequested, ImageIsRecorded, Verdicts
<1>3. ASSUME NEW b \in Builds, Accept(b) \/ AcceptFails(b) PROVE Kept
  BY <1>1, <1>3 DEF Accept, AcceptFails
<1>4. ASSUME NEW b \in Builds, BecomesStuck(b) \/ \E s \in Steps : JobEnds(b, s)
      PROVE  Kept
  BY <1>1, <1>4 DEF BecomesStuck, JobEnds
<1>5. ASSUME NEW a \in Agents, DeleteAgent(a) PROVE Kept
  BY <1>5, BuildAgentAssumption
  DEF DeleteAgent, RowsAreRequested, ImageIsRecorded
<1>6. ASSUME FailStuckBuilds PROVE Kept
  <2>1. \A b \in Builds : FailedByJanitor(b) => builds[b] \in Open
    BY DEF FailedByJanitor
  <2>2. ASSUME NEW b \in Builds
        PROVE  \/ builds'[b] = builds[b]
               \/ builds[b] \in Open /\ builds'[b] = "failed"
    BY <1>6, <2>1 DEF FailStuckBuilds
  <2>3. UNCHANGED <<requests, image>>
    BY <1>6 DEF FailStuckBuilds
  <2>4. RowsAreRequested' /\ Stand
    BY <2>2, <2>3 DEF RowsAreRequested, Open, Verdicts
  <2>5. ImageIsRecorded'
    BY <2>2, <2>3 DEF ImageIsRecorded, Open
  <2> QED
    BY <2>4, <2>5
<1>7. ASSUME NEW w \in Builders,
             \/ \E b \in Builds : Take(w, b)
             \/ ContextEnds(w) \/ Handle(w) \/ BuilderCrashes(w)
      PROVE  Kept
  <2>1. UNCHANGED requests
    BY <1>7, BuilderWrites
  <2>2. CASE UNCHANGED <<builds, image>>
    BY <1>1, <2>1, <2>2
  <2>3. ASSUME NEW b \in Builds, builds' = [builds EXCEPT ![b] = RunningBuild(@)],
               UNCHANGED image
        PROVE  Kept
    BY <2>1, <2>3 DEF RunningBuild, RowsAreRequested, ImageIsRecorded, Verdicts
  <2>4. ASSUME NEW b \in Builds, NEW v \in Verdicts, MarkCompleted(b, v) PROVE Kept
    BY <2>1, <2>4, BuildAgentAssumption
    DEF MarkCompleted, CompletedBuild, CompletedImage, RowsAreRequested, ImageIsRecorded,
        Open, Verdicts
  <2> QED
    BY <1>7, <2>2, <2>3, <2>4, BuilderWrites
<1>8. ASSUME UNCHANGED vars PROVE Kept
  BY <1>1, <1>8 DEF vars
<1> QED
  BY <1>2, <1>3, <1>4, <1>5, <1>6, <1>7, <1>8 DEF Next

LEMMA RecordPreserved == RecordInv /\ [Next]_vars => RecordInv'
BY TypesPreserved, RecordStep DEF RecordInv

\* The image an agent points to is that of a build the table shows as
\* succeeded, whatever the janitor and other deliveries wrote meanwhile.
THEOREM ImageRecorded == Spec => []ImageIsRecorded
<1>1. RecordInv => ImageIsRecorded
  BY DEF RecordInv
<1> QED
  BY <1>1, RecordInitially, RecordPreserved, PTL DEF Spec

\* A verdict, once in the table, is changed by no late builder, second
\* delivery or janitor; only deleting the agent removes it.
THEOREM VerdictsAreFinal == Spec => VerdictsStand
<1>1. RecordInv /\ [Next]_vars
        => [\A b \in Builds :
              builds[b] \in Verdicts => builds'[b] \in {builds[b], "deleted"}]_vars
  BY RecordStep
<1> QED
  BY <1>1, RecordInitially, RecordPreserved, PTL DEF Spec, VerdictsStand
-----------------------------------------------------------------------------
(* The refinement.  A write of a builder or of the janitor is one step of  *)
(* BuildLifecycle or none, and an honest worker's success is allowed       *)
(* there; only the end of a Job makes a build pass.                        *)

LifecycleStep == [Lifecycle!Next]_<<builds, image, AllPassed, Gone>>

LEMMA LifecycleInitially == Init => Lifecycle!Init
<1> SUFFICES ASSUME Init PROVE Lifecycle!Init
  OBVIOUS
<1>1. AllPassed = {}
  <2>1. ASSUME NEW b \in Builds PROVE jobs[b][Plan[1]] # "succeeded" /\ 1 \in DOMAIN Plan
    BY PlanIsSequence DEF Init
  <2> QED
    BY <2>1 DEF AllPassed
<1>2. Gone = {}
  BY DEF Init, Gone
<1> QED
  BY <1>1, <1>2 DEF Init, Lifecycle!Init

\* A step that leaves the tables alone and lets at most one build pass.
LEMMA PassesOnly ==
  ASSUME UNCHANGED <<builds, image, agents>>,
         AllPassed' = AllPassed \/ \E b \in Builds : AllPassed' = AllPassed \union {b}
  PROVE  LifecycleStep
<1>1. Gone' = Gone
  BY DEF Gone
<1>2. ASSUME NEW b \in Builds, AllPassed' = AllPassed \union {b} PROVE Lifecycle!Pass(b)
  BY <1>1, <1>2 DEF Lifecycle!Pass
<1> QED
  BY <1>1, <1>2 DEF LifecycleStep, Lifecycle!Next

\* A Job that begins makes no build pass, one that ends at most its own.
LEMMA JobsLetPass ==
  ASSUME TypeInv, [Next]_vars
  PROVE  /\ \A w \in Builders : CreateJob(w) => AllPassed' = AllPassed
         /\ \A b \in Builds, s \in Steps : JobEnds(b, s) =>
              AllPassed' = AllPassed \/ AllPassed' = AllPassed \union {b}
<1>1. ASSUME NEW w \in Builders, CreateJob(w) PROVE AllPassed' = AllPassed
  <2>1. ASSUME NEW b \in Builds, NEW s \in Steps
        PROVE  jobs'[b][s] = "succeeded" <=> jobs[b][s] = "succeeded"
    <3>1. worker[w].build \in Builds /\ StepOf(w) \in Steps
      BY <1>1, WorkingIsBusy, PlanIsSequence DEF TypeInv, CreateJob, At, StepOf
    <3> QED
      BY <1>1, <3>1 DEF CreateJob, TypeInv, TypeOK
  <2> QED
    BY <2>1, PlanIsSequence DEF AllPassed
<1>2. ASSUME NEW b \in Builds, NEW s \in Steps, JobEnds(b, s)
      PROVE  AllPassed' = AllPassed \/ AllPassed' = AllPassed \union {b}
  <2>1. ASSUME NEW c \in Builds \ {b} PROVE c \in AllPassed' <=> c \in AllPassed
    <3>1. jobs'[c] = jobs[c]
      BY <1>2 DEF JobEnds, TypeInv, TypeOK
    <3> QED
      BY <3>1 DEF AllPassed
  <2>2. b \in AllPassed => b \in AllPassed'
    BY EarnedStays DEF AllPassed, Earned
  <2>3. AllPassed \subseteq Builds /\ AllPassed' \subseteq Builds
    BY DEF AllPassed
  <2> QED
    BY <2>1, <2>2, <2>3
<1> QED
  BY <1>1, <1>2

LEMMA WorldLifecycle ==
  ASSUME TypeInv, RowsAreRequested, [Next]_vars,
         \/ \E b \in Builds : \/ Create(b) \/ Accept(b) \/ AcceptFails(b)
                              \/ BecomesStuck(b)
                              \/ \E s \in Steps : JobEnds(b, s)
         \/ \E a \in Agents : DeleteAgent(a)
         \/ FailStuckBuilds
         \/ UNCHANGED vars
  PROVE  LifecycleStep
<1> USE DEF TypeInv, TypeOK
<1>1. ASSUME UNCHANGED jobs PROVE AllPassed' = AllPassed
  BY <1>1 DEF AllPassed
<1>2. ASSUME UNCHANGED agents PROVE Gone' = Gone
  BY <1>2 DEF Gone
<1>3. ASSUME NEW b \in Builds, Create(b) PROVE LifecycleStep
  <2>1. builds[b] = "absent" /\ AgentOf[b] \notin Gone
    BY <1>3 DEF Create, RowsAreRequested, Gone
  <2>2. Lifecycle!Submit(b)
    BY <1>1, <1>2, <1>3, <2>1 DEF Create, Lifecycle!Submit
  <2> QED
    BY <2>2 DEF LifecycleStep, Lifecycle!Next
<1>4. ASSUME NEW b \in Builds, Accept(b) \/ AcceptFails(b) \/ BecomesStuck(b)
      PROVE  LifecycleStep
  BY <1>1, <1>4, PassesOnly DEF Accept, AcceptFails, BecomesStuck
<1>5. ASSUME NEW b \in Builds, NEW s \in Steps, JobEnds(b, s) PROVE LifecycleStep
  BY <1>5, JobsLetPass, PassesOnly DEF JobEnds
<1>6. ASSUME NEW a \in Agents, DeleteAgent(a) PROVE LifecycleStep
  <2>1. Gone' = Gone \union {a}
    BY <1>6 DEF DeleteAgent, Gone
  <2>2. Lifecycle!Discard(a)
    BY <1>1, <1>6, <2>1 DEF DeleteAgent, Lifecycle!Discard
  <2> QED
    BY <2>2 DEF LifecycleStep, Lifecycle!Next
<1>7. ASSUME FailStuckBuilds PROVE LifecycleStep
  <2> DEFINE S == {b \in Builds : FailedByJanitor(b)}
  <2>1. \A b \in S : builds[b] \in Lifecycle!Open
    BY DEF FailedByJanitor, Open, Lifecycle!Open
  <2>2. builds' = [b \in Builds |-> IF b \in S THEN "failed" ELSE builds[b]]
    BY <1>7 DEF FailStuckBuilds
  <2>3. UNCHANGED <<image, AllPassed, Gone>>
    BY <1>1, <1>2, <1>7 DEF FailStuckBuilds
  <2>4. Lifecycle!Expire(S)
    BY <2>1, <2>2, <2>3 DEF Lifecycle!Expire
  <2>5. S \in SUBSET Builds
    OBVIOUS
  <2> QED
    BY <2>4, <2>5 DEF LifecycleStep, Lifecycle!Next
<1>8. ASSUME UNCHANGED vars PROVE LifecycleStep
  BY <1>1, <1>8, PassesOnly DEF vars
<1> QED
  BY <1>3, <1>4, <1>5, <1>6, <1>7, <1>8

LEMMA BuilderLifecycle ==
  ASSUME EarnedInv, [Next]_vars, NEW w \in Builders,
         \/ \E b \in Builds : Take(w, b)
         \/ ContextEnds(w) \/ Handle(w) \/ BuilderCrashes(w)
  PROVE  LifecycleStep
<1>1. TypeInv /\ TypeOK /\ WorkersAreHonest
  BY DEF EarnedInv, TypeInv
<1>2. UNCHANGED agents /\ Gone' = Gone
  BY <1>1, BuilderWrites DEF Gone
<1>3. ASSUME UNCHANGED jobs PROVE AllPassed' = AllPassed
  BY <1>3 DEF AllPassed
<1>4. CASE CreateJob(w)
  BY <1>1, <1>2, <1>4, JobsLetPass, PassesOnly DEF CreateJob
<1>5. CASE Begin(w)
  <2>1. worker[w].build \in Builds
    BY <1>1, <1>5, WorkingIsBusy DEF Begin, At
  <2>2. PICK b \in Builds : b = worker[w].build
    BY <2>1
  <2>3. UNCHANGED <<image, AllPassed, Gone>>
    BY <1>2, <1>3, <1>5 DEF Begin
  <2>4. CASE builds[b] = "pending" /\ builds' = [builds EXCEPT ![b] = RunningBuild(@)]
    <3>1. Lifecycle!Begin(b)
      BY <1>1, <2>3, <2>4 DEF RunningBuild, Lifecycle!Begin, TypeOK
    <3> QED
      BY <3>1 DEF LifecycleStep, Lifecycle!Next
  <2>5. CASE builds[b] # "pending" /\ builds' = [builds EXCEPT ![b] = RunningBuild(@)]
    <3>1. UNCHANGED builds
      BY <1>1, <2>5 DEF RunningBuild, TypeOK
    <3> QED
      BY <2>3, <3>1 DEF LifecycleStep
  <2>6. CASE UNCHANGED builds
    BY <2>3, <2>6 DEF LifecycleStep
  <2> QED
    BY <1>5, <2>2, <2>4, <2>5, <2>6 DEF Begin
<1>6. CASE Complete(w)
  <2>1. worker[w].build \in Builds /\ worker[w].verdict \in Verdicts /\ worker[w].stage = "complete"
    BY <1>1, <1>6, WorkingIsBusy DEF Complete, At
  <2>2. PICK b \in Builds, v \in Verdicts : b = worker[w].build /\ v = worker[w].verdict
    BY <2>1
  <2>3. v = "succeeded" => b \in AllPassed
    BY <1>1, <2>1, <2>2 DEF WorkersAreHonest, Earned, AllPassed
  <2>4. UNCHANGED <<AllPassed, Gone>>
    BY <1>2, <1>3, <1>6 DEF Complete
  <2>5. CASE MarkCompleted(b, v) /\ builds[b] \in Open
    <3>1. builds[b] \in Lifecycle!Open /\ builds' = [builds EXCEPT ![b] = v]
      BY <1>1, <2>5 DEF MarkCompleted, CompletedBuild, Open, Lifecycle!Open, TypeOK
    <3>2. CASE v = "succeeded"
      <4>1. image' = [image EXCEPT ![AgentOf[b]] = b]
        BY <2>5, <3>2 DEF MarkCompleted, CompletedImage
      <4>2. Lifecycle!Succeed(b)
        BY <2>3, <2>4, <3>1, <3>2, <4>1 DEF Lifecycle!Succeed
      <4> QED
        BY <4>2 DEF LifecycleStep, Lifecycle!Next
    <3>3. CASE v # "succeeded"
      <4>1. UNCHANGED image
        BY <2>5, <3>3 DEF MarkCompleted, CompletedImage
      <4>2. Lifecycle!Refuse(b, v)
        BY <2>4, <3>1, <4>1 DEF Lifecycle!Refuse
      <4>3. v \in Lifecycle!Verdicts \ {"succeeded"}
        BY <3>3 DEF Verdicts, Lifecycle!Verdicts
      <4> QED
        BY <4>2, <4>3 DEF LifecycleStep, Lifecycle!Next
    <3> QED
      BY <3>2, <3>3
  <2>6. CASE MarkCompleted(b, v) /\ builds[b] \notin Open
    <3>1. UNCHANGED <<builds, image>>
      BY <1>1, <2>6 DEF MarkCompleted, CompletedBuild, CompletedImage, TypeOK
    <3> QED
      BY <2>4, <3>1 DEF LifecycleStep
  <2>7. CASE UNCHANGED <<builds, image>>
    BY <2>4, <2>7 DEF LifecycleStep
  <2> QED
    BY <1>6, <2>2, <2>5, <2>6, <2>7 DEF Complete
<1>7. CASE ~(CreateJob(w) \/ Begin(w) \/ Complete(w))
  <2>1. UNCHANGED <<builds, image, jobs>>
    BY <1>7
    DEF Take, ContextEnds, BuilderCrashes, Handle, Resolve, PollJob, PublishCompleted,
        Acknowledge
  <2> QED
    BY <1>2, <1>3, <2>1 DEF LifecycleStep
<1> QED
  BY <1>4, <1>5, <1>6, <1>7

\* BuildPipeline implements BuildLifecycle: through redeliveries, dead
\* contexts, several builders on one build and the janitor, a build gets one
\* verdict, succeeds together with its agent's image and only after every
\* step has passed, and a deleted agent gets neither back.
THEOREM ImplementsBuildLifecycle == Spec => ImplementsLifecycle
<1>1. EarnedInv /\ RecordInv /\ [Next]_vars => LifecycleStep
  BY WorldLifecycle, BuilderLifecycle DEF Next, EarnedInv, RecordInv
<1> QED
  BY <1>1, LifecycleInitially, EarnedInitially, EarnedPreserved, RecordInitially,
     RecordPreserved, PTL
  DEF Spec, ImplementsLifecycle, Lifecycle!Spec, LifecycleStep
=============================================================================
