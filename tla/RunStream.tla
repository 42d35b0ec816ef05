------------------------------ MODULE RunStream ------------------------------
(***************************************************************************)
(* Live updates of a run: the Hub of every api replica                     *)
(* (runs/events_pubsub.go), the SSE handler (runs/events_handler.go) and   *)
(* the client that watches a run.  It is composed with the status          *)
(* consumers, whose broadcasts it carries; what the controller publishes   *)
(* is reduced to what RunPipeline shows of it: a run.started, and at most  *)
(* one run.completed, in either order or one without the other.            *)
(*                                                                         *)
(* Plain NATS delivers a broadcast to each replica at most once, in any    *)
(* order, and keeps nothing.  A stream reads the row, and only then        *)
(* subscribes; it is cut by the router's 30-second timeout, which is       *)
(* modelled as something that may happen at any moment.                    *)
(***************************************************************************)
EXTENDS RunStatusConsumer, Sequences

CONSTANTS Replicas,     \* api processes
          ReplicaOf,    \* the process each worker runs in
          Viewers,      \* clients
          Watched,      \* the run each client watches
          Reconnects,   \* whether clients open a new stream when one is cut
          BufferSize    \* capacity of a subscription's channel (32 in the code)

ASSUME ReplicaOfAssumption == ReplicaOf \in [Workers -> Replicas]
ASSUME WatchedAssumption == Watched \in [Viewers -> Runs]
ASSUME ReconnectsAssumption == Reconnects \in BOOLEAN
ASSUME BufferAssumption == BufferSize \in Nat \ {0}

VARIABLES inflight,   \* broadcasts on their way to a replica
          streams,    \* the SSE handler serving each client
          told        \* the last each client heard of its run

streamVars == <<inflight, streams, told>>

Live == {"pending", "running"}
News == {"nothing", "gone"} \union Live \union Outcomes

Unopened == [pc |-> "unopened"]
Cut == [pc |-> "cut"]
Left == [pc |-> "left"]
Read(h, st) == [pc |-> "read", at |-> h, seen |-> st]
Open(h) == [pc |-> "open", at |-> h, buf |-> <<>>]

\* A channel of at most BufferSize events.
Buffer == {s \in Seq(StatusMsg) : Len(s) <= BufferSize}

StreamState ==
  {Unopened, Cut, Left}
    \union [pc: {"read"}, at: Replicas, seen: Live \union Outcomes]
    \union [pc: {"open"}, at: Replicas, buf: Buffer]

StreamInit ==
  /\ inflight = {}
  /\ streams = [v \in Viewers |-> Unopened]
  /\ told = [v \in Viewers |-> "nothing"]

StreamTypeOK ==
  /\ inflight \in SUBSET (Replicas \X StatusMsg)
  /\ streams \in [Viewers -> StreamState]
  /\ told \in [Viewers -> News]

SetStream(v, s) == streams' = [streams EXCEPT ![v] = s]
Tell(v, n) == told' = [told EXCEPT ![v] = n]
Serving(v) == streams[v].pc \in {"read", "open"}

-----------------------------------------------------------------------------
\* What the controller publishes of a run that has a row.
PublishStarted(r) ==
  /\ rows[r].status # "absent"
  /\ Started(r, 1) \notin stream
  /\ Bus!Publish(Started(r, 1))

PublishCompleted(r, st) ==
  /\ rows[r].status # "absent"
  /\ \A x \in Outcomes : Completed(r, 1, x) \notin stream
  /\ Bus!Publish(Completed(r, 1, st))

Controller ==
  /\ \E r \in Runs :
       PublishStarted(r) \/ \E st \in Outcomes : PublishCompleted(r, st)
  /\ UNCHANGED <<storeVars, statusVars, streamVars, faults>>

\* The api inserts the row; the agent's owner deletes it with its agent.
Owner ==
  /\ (\E r \in Runs : CreateRow(r)) \/ (\E a \in Agents : DeleteAgent(a))
  /\ UNCHANGED <<busVars, statusVars, streamVars, faults>>

-----------------------------------------------------------------------------
\* A worker's broadcast goes to every replica; no other step of a handler
\* touches the Hub.
Consume(w) ==
  \/ /\ \/ \E m \in StatusMsg : Handle(w, m) \/ HandleFails(w, m)
        \/ Meter(w) \/ Acknowledge(w)
     /\ UNCHANGED streamVars
  \/ /\ Broadcast(w)
     /\ inflight' = inflight \union (Replicas \X {work[w].msg})
     /\ UNCHANGED <<streams, told>>

\* Plain NATS: a replica that is reconnecting misses the broadcast.
Miss(h, m) ==
  /\ <<h, m>> \in inflight
  /\ Fault("nats")
  /\ inflight' = inflight \ {<<h, m>>}
  /\ UNCHANGED <<storeVars, busVars, statusVars, streams, told>>

\* Mutant: a channel without a limit.
OfferedAlways(buf, m) == Append(buf, m)

\* select { case s.ch <- ev: default: }
Offered(buf, m) == IF Len(buf) < BufferSize THEN Append(buf, m) ELSE buf

Subscribed(v, h, r) ==
  streams[v].pc = "open" /\ streams[v].at = h /\ Watched[v] = r

\* Hub.deliverFromBus: under the lock, every local subscriber of the run.
DeliverLocal(h, m) ==
  /\ <<h, m>> \in inflight
  /\ inflight' = inflight \ {<<h, m>>}
  /\ streams' = [v \in Viewers |->
                   IF Subscribed(v, h, m.run)
                     THEN [streams[v] EXCEPT !.buf = Offered(@, m)]
                     ELSE streams[v]]
  /\ UNCHANGED <<storeVars, busVars, statusVars, faults, told>>

\* An api process dies: its handlers, its streams and its inbox with it.
ReplicaCrash(h) ==
  /\ Fault("api_crash")
  /\ work' = [w \in Workers |-> IF ReplicaOf[w] = h THEN Free ELSE work[w]]
  /\ inflight' = {x \in inflight : x[1] # h}
  /\ streams' = [v \in Viewers |->
                   IF Serving(v) /\ streams[v].at = h THEN Cut ELSE streams[v]]
  /\ UNCHANGED <<storeVars, busVars, announced, told>>

-----------------------------------------------------------------------------
\* The client's snapshot, GET /v1/runs/{id}.
Snapshot(v) ==
  /\ streams[v] = Unopened /\ told[v] = "nothing"
  /\ rows[Watched[v]].status # "absent"
  /\ Tell(v, IF RowExists(Watched[v]) THEN rows[Watched[v]].status ELSE "gone")
  /\ UNCHANGED streams

\* A client opens a stream of a run it believes live.
MayOpen(v) ==
  /\ told[v] \in Live
  /\ streams[v] = Unopened \/ (Reconnects /\ streams[v] = Cut)

\* streamEvents reads the row: 404 if it is gone.
ReadRow(v, h) ==
  /\ MayOpen(v)
  /\ \/ /\ RowExists(Watched[v])
        /\ SetStream(v, Read(h, rows[Watched[v]].status))
        /\ UNCHANGED told
     \/ /\ ~RowExists(Watched[v])
        /\ Tell(v, "gone")
        /\ SetStream(v, Cut)

\* Mutant: the answer of the read is not looked at again.
SubscribeOnly(v) ==
  /\ streams[v].pc = "read"
  /\ SetStream(v, Open(streams[v].at))
  /\ UNCHANGED told

\* Hub.Subscribe, then the test of the status read before it: a run that had
\* ended by then is answered with a synthetic completed event.
Subscribe(v) ==
  /\ streams[v].pc = "read"
  /\ \/ /\ streams[v].seen \in Outcomes
        /\ Tell(v, streams[v].seen)
        /\ SetStream(v, Cut)
     \/ /\ streams[v].seen \in Live
        /\ SetStream(v, Open(streams[v].at))
        /\ UNCHANGED told

\* What a frame says of its run.  On a started event the console keeps the
\* status it shows, pending or running: live in either case, which is all that
\* ViewersLearnTheEnd asks; NewsIsTrue is about what the event itself says.
Heard(m) == IF m.subject = "run.started" THEN "running" ELSE m.status

\* Mutant: the stream goes on after a completed event.
AfterFrameForever(s) == [s EXCEPT !.buf = Tail(@)]

\* The handler returns after a completed event.
AfterFrame(s) ==
  IF Head(s.buf).subject = "run.completed" THEN Cut
  ELSE [s EXCEPT !.buf = Tail(@)]

\* One event from the channel becomes one frame.
Forward(v) ==
  /\ streams[v].pc = "open" /\ streams[v].buf # <<>>
  /\ Tell(v, Heard(Head(streams[v].buf)))
  /\ SetStream(v, AfterFrame(streams[v]))

\* middleware.Timeout: the request's context ends, and the loop returns
\* without a word, even with an event in the channel.
TimeOut(v) == streams[v].pc = "open" /\ SetStream(v, Cut) /\ UNCHANGED told

\* Runs.Get fails: 500.
ReadFails(v) == MayOpen(v) /\ Fault("db") /\ SetStream(v, Cut) /\ UNCHANGED told

\* The user navigates away.
Leave(v) == streams[v] # Left /\ SetStream(v, Left) /\ UNCHANGED told

\* What the client and the handler that serves it do of their own accord.
Follow(v) ==
  /\ \/ Subscribe(v) \/ Forward(v) \/ TimeOut(v)
     \/ \E h \in Replicas : ReadRow(v, h)
  /\ UNCHANGED <<storeVars, busVars, statusVars, inflight, faults>>

Client(v) ==
  \/ Follow(v)
  \/ /\ Snapshot(v) \/ Leave(v)
     /\ UNCHANGED <<storeVars, busVars, statusVars, inflight, faults>>
  \/ ReadFails(v) /\ UNCHANGED <<storeVars, busVars, statusVars, inflight>>

-----------------------------------------------------------------------------
vars == <<storeVars, busVars, statusVars, streamVars, faults>>

Init == StoreInit /\ Bus!BusInit /\ StatusInit /\ StreamInit /\ FaultInit

Next ==
  \/ Owner \/ Controller
  \/ \E w \in Workers : Consume(w)
  \/ \E h \in Replicas :
       \/ ReplicaCrash(h)
       \/ \E m \in StatusMsg : DeliverLocal(h, m) \/ Miss(h, m)
  \/ \E v \in Viewers : Client(v)

Spec == Init /\ [][Next]_vars

TypeOK ==
  StoreTypeOK /\ Bus!BusTypeOK /\ StatusTypeOK /\ StreamTypeOK /\ FaultTypeOK

\* What a client has been told is in the table by then: a broadcast follows
\* the UPDATE, and an event that is late, repeated or out of order never
\* tells of a transition the row does not have.
NewsIsTrue ==
  \A v \in Viewers :
    /\ told[v] = "running" => rows[Watched[v]].status \notin {"absent", "pending"}
    /\ told[v] \in Outcomes => rows[Watched[v]].status \in {told[v], "deleted"}

\* A client told of the end of its run never hears anything else: a
\* run.started that is redelivered, or handled late, is broadcast after the
\* end, and no stream may pass it on then.
TheEndIsLast ==
  [][\A v \in Viewers : told[v] \in Outcomes => told'[v] = told[v]]_vars

\* Clients follow their streams and open new ones, and no stream outlives the
\* timeout.  Nothing is asked of the Hub: a broadcast may never arrive.
Fairness == \A v \in Viewers : WF_vars(Follow(v))

FairSpec == Spec /\ Fairness

\* A client that keeps watching a run is told of its end once the row has it,
\* although broadcasts are missed, dropped by a full channel, or sent between
\* the read of the row and the subscription.
ViewersLearnTheEnd ==
  \A v \in Viewers :
    (told[v] \in Live /\ rows[Watched[v]].status \in Outcomes)
      ~> (told[v] \in Outcomes \union {"gone"} \/ streams[v] = Left)
=============================================================================
