--------------------------- MODULE RunStreamProofs ----------------------------
(***************************************************************************)
(* RunStream is type correct, and what a client is told is true, for every *)
(* set of runs, replicas, workers and clients, every buffer, every bound   *)
(* and every set of faults, whether or not clients reconnect.              *)
(***************************************************************************)
EXTENDS RunStream, RunStatusProofs

-----------------------------------------------------------------------------
(* Types: those of the handlers, and of the Hub and its clients.           *)

StreamTypeInv == StatusInv /\ StreamTypeOK

LEMMA SetStreamTypes ==
  ASSUME StreamTypeOK, NEW v \in Viewers, NEW s \in StreamState, SetStream(v, s),
         NEW n \in News, told' = told \/ Tell(v, n), inflight' = inflight
  PROVE  StreamTypeOK'
BY DEF StreamTypeOK, SetStream, Tell

LEMMA ChannelTypes ==
  ASSUME NEW buf \in Buffer, NEW m \in StatusMsg
  PROVE  /\ Offered(buf, m) \in Buffer
         /\ buf # <<>> => Head(buf) \in StatusMsg /\ Tail(buf) \in Buffer
BY BufferAssumption DEF Buffer, Offered

LEMMA EmptyChannel == <<>> \in Buffer
BY BufferAssumption DEF Buffer

LEMMA StatesOfStreams ==
  ASSUME NEW s \in StreamState
  PROVE  /\ s.pc = "read" => s.at \in Replicas /\ s.seen \in Live \union Outcomes
         /\ s.pc = "open" => s \in [pc: {"open"}, at: Replicas, buf: Buffer]
BY DEF StreamState, Unopened, Cut, Left

\* A step of a client or of the handler that serves it.
LEMMA ClientTypes ==
  ASSUME StreamTypeInv, NEW v \in Viewers, Client(v) PROVE StreamTypeInv'
<1> USE DEF StreamTypeInv
<1>1. UNCHANGED <<storeVars, busVars, statusVars>> /\ inflight' = inflight
  BY DEF Client, Follow
<1>2. FaultTypeOK'
  BY FaultTypes DEF Client, Follow, ReadFails, StatusInv, FaultTypeOK
<1>3. StatusInv'
  BY <1>1, <1>2 DEF StatusInv, storeVars, busVars, statusVars, StoreTypeOK, Bus!BusTypeOK,
                    StatusTypeOK, HandlersHoldStored
<1>4. streams[v] \in StreamState /\ told[v] \in News
  BY DEF StreamTypeOK
<1>5. Unopened \in StreamState /\ Cut \in StreamState /\ Left \in StreamState
  BY DEF StreamState
<1>6. Watched[v] \in Runs /\ rows[Watched[v]].status \in RowStatus
  BY WatchedAssumption DEF StatusInv, StoreTypeOK, Row
<1>7. CASE Snapshot(v)
  <2>1. \E n \in News : Tell(v, n)
    BY <1>6, <1>7 DEF Snapshot, RowExists, News, Live, RowStatus
  <2> QED
    BY <1>1, <1>3, <1>7, <2>1 DEF Snapshot, StreamTypeOK, Tell
<1>8. ASSUME NEW h \in Replicas, ReadRow(v, h) PROVE StreamTypeInv'
  <2>1. CASE RowExists(Watched[v])
    <3>1. rows[Watched[v]].status \in Live \union Outcomes
      BY <1>6, <2>1 DEF RowExists, RowStatus, Live
    <3>2. Read(h, rows[Watched[v]].status) \in StreamState
      BY <3>1 DEF Read, StreamState
    <3> QED
      BY <1>1, <1>3, <1>4, <1>8, <2>1, <3>2, SetStreamTypes DEF ReadRow
  <2>2. CASE ~RowExists(Watched[v])
    BY <1>1, <1>3, <1>5, <1>8, <2>2, SetStreamTypes DEF ReadRow, News
  <2> QED
    BY <2>1, <2>2
<1>9. CASE Subscribe(v)
  <2>1. streams[v].at \in Replicas /\ streams[v].seen \in News
    BY <1>4, <1>9, StatesOfStreams DEF Subscribe, News
  <2>2. Open(streams[v].at) \in StreamState
    BY <2>1, EmptyChannel DEF Open, StreamState
  <2> QED
    BY <1>1, <1>3, <1>5, <1>9, <2>1, <2>2, SetStreamTypes DEF Subscribe
<1>10. CASE Forward(v)
  <2>1. streams[v] \in [pc: {"open"}, at: Replicas, buf: Buffer]
    BY <1>4, <1>10, StatesOfStreams DEF Forward
  <2>2. Head(streams[v].buf) \in StatusMsg /\ Tail(streams[v].buf) \in Buffer
    BY <1>10, <2>1, ChannelTypes DEF Forward, Buffer
  <2>3. Heard(Head(streams[v].buf)) \in News
    BY <2>2, MessageFacts DEF Heard, News, Live
  <2>4. AfterFrame(streams[v]) \in StreamState
    BY <1>5, <2>1, <2>2 DEF AfterFrame, StreamState
  <2> QED
    BY <1>1, <1>3, <1>10, <2>3, <2>4, SetStreamTypes DEF Forward
<1>11. CASE TimeOut(v) \/ ReadFails(v) \/ Leave(v)
  BY <1>1, <1>3, <1>4, <1>5, <1>11, SetStreamTypes DEF TimeOut, ReadFails, Leave
<1> QED
  BY <1>7, <1>8, <1>9, <1>10, <1>11 DEF Client, Follow

\* A step of a handler, and the broadcast it may be.
LEMMA ConsumeIsStatusNext ==
  ASSUME NEW w \in Workers, Consume(w) PROVE StatusNext
BY DEF Consume, StatusNext, WorkerStep, HandlerWork

LEMMA ConsumeTypes ==
  ASSUME StreamTypeInv, NEW w \in Workers, Consume(w) PROVE StreamTypeInv'
<1>1. StatusInv'
  BY ConsumeIsStatusNext, WorkersKeepTypes DEF StreamTypeInv
<1>2. CASE UNCHANGED streamVars
  BY <1>1, <1>2 DEF streamVars, StreamTypeInv, StreamTypeOK
<1>3. CASE Broadcast(w) /\ inflight' = inflight \union (Replicas \X {work[w].msg})
                       /\ UNCHANGED <<streams, told>>
  <2>1. work[w].msg \in StatusMsg
    BY <1>3 DEF StreamTypeInv, StatusInv, StatusTypeOK, Broadcast, Free, Handling
  <2> QED
    BY <1>1, <1>3, <2>1 DEF StreamTypeInv, StreamTypeOK
<1> QED
  BY <1>2, <1>3 DEF Consume

\* The Hub's own steps, and the crash of a replica.
LEMMA HubTypes ==
  ASSUME StreamTypeInv, NEW h \in Replicas,
         ReplicaCrash(h) \/ \E m \in StatusMsg : DeliverLocal(h, m) \/ Miss(h, m)
  PROVE  StreamTypeInv'
<1> USE DEF StreamTypeInv
<1>1. ASSUME NEW m \in StatusMsg, DeliverLocal(h, m) PROVE StreamTypeInv'
  <2>1. StatusInv'
    BY <1>1 DEF DeliverLocal, StatusInv, storeVars, busVars, statusVars, StoreTypeOK,
                Bus!BusTypeOK, StatusTypeOK, FaultTypeOK, HandlersHoldStored
  <2>2. ASSUME NEW v \in Viewers, Subscribed(v, h, m.run)
        PROVE  [streams[v] EXCEPT !.buf = Offered(@, m)] \in StreamState
    <3>1. streams[v] \in [pc: {"open"}, at: Replicas, buf: Buffer]
      BY <2>2, StatesOfStreams DEF Subscribed, StreamTypeOK
    <3> QED
      BY <3>1, ChannelTypes DEF StreamState
  <2> QED
    BY <1>1, <2>1, <2>2 DEF DeliverLocal, StreamTypeOK
<1>2. ASSUME NEW m \in StatusMsg, Miss(h, m) PROVE StreamTypeInv'
  <2>1. FaultTypeOK'
    BY <1>2, FaultTypes DEF Miss, StatusInv
  <2> QED
    BY <1>2, <2>1 DEF Miss, StatusInv, storeVars, busVars, statusVars, StoreTypeOK,
                Bus!BusTypeOK, StatusTypeOK, HandlersHoldStored, StreamTypeOK
<1>3. CASE ReplicaCrash(h)
  <2>1. FaultTypeOK'
    BY <1>3, FaultTypes DEF ReplicaCrash, StatusInv
  <2>2. StatusTypeOK' /\ HandlersHoldStored'
    BY <1>3 DEF ReplicaCrash, StatusInv, StatusTypeOK, HandlersHoldStored, busVars
  <2>3. StoreTypeOK' /\ Bus!BusTypeOK'
    BY <1>3 DEF ReplicaCrash, StatusInv, storeVars, busVars, StoreTypeOK, Bus!BusTypeOK
  <2>4. StreamTypeOK'
    <3>1. inflight' \subseteq inflight /\ told' = told /\ Cut \in StreamState
      BY <1>3 DEF ReplicaCrash, StreamState
    <3>2. \A v \in Viewers : streams'[v] \in StreamState
      BY <1>3, <3>1 DEF ReplicaCrash, StreamTypeOK
    <3>3. streams' \in [Viewers -> StreamState]
      BY <1>3, <3>2 DEF ReplicaCrash
    <3>4. inflight' \in SUBSET (Replicas \X StatusMsg) /\ told' \in [Viewers -> News]
      BY <3>1 DEF StreamTypeOK
    <3> QED
      BY <3>3, <3>4 DEF StreamTypeOK
  <2> QED
    BY <2>1, <2>2, <2>3, <2>4 DEF StatusInv
<1> QED
  BY <1>1, <1>2, <1>3

\* The controller's messages and the owner's rows.
LEMMA EnvironmentTypes ==
  ASSUME StreamTypeInv, Controller \/ Owner PROVE StreamTypeInv'
<1> USE DEF StreamTypeInv, StatusInv
<1>1. StatusTypeOK' /\ StreamTypeOK' /\ FaultTypeOK'
  BY DEF Controller, Owner, statusVars, streamVars, StatusTypeOK, StreamTypeOK, FaultTypeOK
<1>2. CASE Controller
  <2>1. StoreTypeOK'
    BY <1>2 DEF Controller, storeVars, StoreTypeOK
  <2>2. PICK m \in RunMsg : Bus!Publish(m)
    <3>1. 1 \in Execs
      BY ExecsAssumption DEF Execs
    <3>2. PICK r \in Runs : PublishStarted(r) \/ \E st \in Outcomes : PublishCompleted(r, st)
      BY <1>2 DEF Controller
    <3>3. CASE PublishStarted(r)
      <4>1. Started(r, 1) \in RunMsg /\ Bus!Publish(Started(r, 1))
        BY <3>1, <3>3, TransitionTypes DEF PublishStarted, Outcomes
      <4> QED
        BY <4>1
    <3>4. ASSUME NEW st \in Outcomes, PublishCompleted(r, st)
          PROVE  \E m \in RunMsg : Bus!Publish(m)
      <4>1. Completed(r, 1, st) \in RunMsg /\ Bus!Publish(Completed(r, 1, st))
        BY <3>1, <3>4, TransitionTypes DEF PublishCompleted
      <4> QED
        BY <4>1
    <3> QED
      BY <3>2, <3>3, <3>4
  <2>3. Bus!BusTypeOK' /\ stream \subseteq stream'
    BY <2>2, PublishTypes
  <2> QED
    BY <1>1, <1>2, <2>1, <2>3 DEF Controller, statusVars, HandlersHoldStored
<1>3. CASE Owner
  <2>1. StoreTypeOK'
    BY <1>3, CreateRowTypes, DeleteAgentTypes DEF Owner
  <2> QED
    BY <1>1, <1>3, <2>1 DEF Owner, busVars, statusVars, Bus!BusTypeOK, HandlersHoldStored
<1> QED
  BY <1>2, <1>3

LEMMA StreamTypesInitially == Init => StreamTypeInv
BY MaxDeliverAssumption, FaultsAssumption
DEF Init, StoreInit, Bus!BusInit, StatusInit, StreamInit, FaultInit, StreamTypeInv, StatusInv,
    StoreTypeOK, Bus!BusTypeOK, StatusTypeOK, FaultTypeOK, StreamTypeOK, HandlersHoldStored,
    Row, RowStatus, Kinds, Free, StreamState, News

LEMMA StreamTypesPreserved == StreamTypeInv /\ [Next]_vars => StreamTypeInv'
<1> SUFFICES ASSUME StreamTypeInv, [Next]_vars PROVE StreamTypeInv'
  OBVIOUS
<1>1. CASE UNCHANGED vars
  BY <1>1 DEF vars, storeVars, busVars, statusVars, streamVars, StreamTypeInv, StatusInv,
    StoreTypeOK, Bus!BusTypeOK, StatusTypeOK, FaultTypeOK, StreamTypeOK, HandlersHoldStored
<1> QED
  BY <1>1, ClientTypes, ConsumeTypes, HubTypes, EnvironmentTypes DEF Next

\* Every variable keeps its type: in particular no channel ever holds more
\* than its capacity (RunStream's TypeOK).
THEOREM StreamTypeCorrect == Spec => []TypeOK
<1>1. StreamTypeInv => TypeOK
  BY DEF StreamTypeInv, StatusInv, TypeOK
<1> QED
  BY <1>1, StreamTypesInitially, StreamTypesPreserved, PTL DEF Spec

-----------------------------------------------------------------------------
(* Truth.  What is on its way to a client -- the answer of a read, an event *)
(* in flight or in a channel -- is as true as what the client was told, and *)
(* advancing rows keep it true.                                            *)

TrueIn(table, r, n) ==
  /\ n = "running" => table[r].status \notin {"absent", "pending"}
  /\ n \in Outcomes => table[r].status \in {n, "deleted"}

StreamTrueIn(table, r, s) ==
  /\ s.pc = "read" => TrueIn(table, r, s.seen)
  /\ s.pc = "open" =>
       \A i \in 1..Len(s.buf) : s.buf[i].run = r /\ ReflectedIn(table, s.buf[i])

FlightTrue == \A x \in inflight : Reflected(x[2])

StreamsTrue == \A v \in Viewers : StreamTrueIn(rows, Watched[v], streams[v])

\* This controller publishes a run's completion once, for its only execution.
FirstExecution ==
  \A m \in stream \intersect RunCompleted : m = Completed(m.run, 1, m.status)

NewsInv == ReflectInv /\ FirstExecution /\ FlightTrue /\ StreamsTrue /\ NewsIsTrue

LEMMA NewsStayTrue ==
  ASSUME RowsAdvance, NEW r \in Runs, NEW n, TrueIn(rows, r, n) PROVE TrueIn(rows', r, n)
BY DEF RowsAdvance, TrueIn

LEMMA StreamsStayTrue ==
  ASSUME RowsAdvance, NEW r \in Runs, NEW s \in StreamState, StreamTrueIn(rows, r, s)
  PROVE  StreamTrueIn(rows', r, s)
<1>1. s.pc = "read" => TrueIn(rows', r, s.seen)
  BY NewsStayTrue DEF StreamTrueIn
<1>2. ASSUME s.pc = "open", NEW i \in 1..Len(s.buf)
      PROVE  s.buf[i].run = r /\ ReflectedIn(rows', s.buf[i])
  <2>1. s.buf[i] \in StatusMsg
    BY <1>2, StatesOfStreams DEF Buffer
  <2>2. s.buf[i].run = r /\ Reflected(s.buf[i])
    BY <1>2 DEF StreamTrueIn, Reflected
  <2> QED
    BY <2>1, <2>2, ReflectedStays
<1> QED
  BY <1>1, <1>2 DEF StreamTrueIn

\* A step keeps all this when the rows advance, the handlers' part is kept,
\* and whatever it puts in flight, in a stream or before a client is true.
LEMMA TruthStays ==
  ASSUME StreamTypeInv, NewsInv, RowsAdvance, ReflectInv', FirstExecution',
         \A x \in inflight' : x \in inflight \/ ReflectedIn(rows', x[2]),
         \A v \in Viewers :
           /\ streams'[v] = streams[v] \/ StreamTrueIn(rows', Watched[v], streams'[v])
           /\ told'[v] = told[v] \/ TrueIn(rows', Watched[v], told'[v])
  PROVE  NewsInv'
<1>1. FlightTrue'
  <2> SUFFICES ASSUME NEW x \in inflight' PROVE ReflectedIn(rows', x[2])
    BY DEF FlightTrue, Reflected
  <2>1. CASE x \in inflight
    BY <2>1, ReflectedStays DEF NewsInv, FlightTrue, StreamTypeInv, StreamTypeOK
  <2> QED
    BY <2>1
<1>2. StreamsTrue'
  <2> SUFFICES ASSUME NEW v \in Viewers PROVE StreamTrueIn(rows', Watched[v], streams'[v])
    BY DEF StreamsTrue
  <2>1. streams[v] \in StreamState /\ Watched[v] \in Runs
    BY WatchedAssumption DEF StreamTypeInv, StreamTypeOK
  <2>2. StreamTrueIn(rows, Watched[v], streams[v])
    BY DEF NewsInv, StreamsTrue
  <2> QED
    BY <2>1, <2>2, StreamsStayTrue
<1>3. NewsIsTrue'
  <2> SUFFICES ASSUME NEW v \in Viewers PROVE TrueIn(rows', Watched[v], told'[v])
    BY DEF NewsIsTrue, TrueIn
  <2>1. Watched[v] \in Runs /\ TrueIn(rows, Watched[v], told[v])
    BY WatchedAssumption DEF NewsInv, NewsIsTrue, TrueIn
  <2> QED
    BY <2>1, NewsStayTrue
<1> QED
  BY <1>1, <1>2, <1>3 DEF NewsInv

\* Steps that leave the tables, the bus and the handlers alone.
LEMMA QuietStep ==
  ASSUME StreamTypeInv, NewsInv, UNCHANGED <<storeVars, busVars, statusVars>>
  PROVE  RowsAdvance /\ rows' = rows /\ ReflectInv' /\ FirstExecution'
<1>1. rows' = rows /\ UNCHANGED <<stream, settled>> /\ UNCHANGED statusVars
  BY DEF storeVars, busVars
<1>2. RowsAdvance
  BY <1>1, SameRowsAdvance
<1>3. ReflectInv'
  BY <1>1, <1>2, OthersKeepReflection DEF StreamTypeInv, NewsInv
<1> QED
  BY <1>1, <1>2, <1>3 DEF NewsInv, FirstExecution

\* A client is told what its stream holds, and its stream holds what the row
\* says.
LEMMA ClientKeepsTruth ==
  ASSUME StreamTypeInv, NewsInv, NEW v \in Viewers, Client(v) PROVE NewsInv'
<1>1. UNCHANGED <<storeVars, busVars, statusVars>> /\ inflight' = inflight
  BY DEF Client, Follow
<1>2. RowsAdvance /\ rows' = rows /\ ReflectInv' /\ FirstExecution'
  BY <1>1, QuietStep
<1>3. /\ streams \in [Viewers -> StreamState] /\ told \in [Viewers -> News]
      /\ streams[v] \in StreamState
      /\ StreamTrueIn(rows, Watched[v], streams[v])
  BY DEF StreamTypeInv, StreamTypeOK, NewsInv, StreamsTrue
<1>4. ASSUME NEW s, streams' = streams \/ SetStream(v, s),
             streams' = streams \/ StreamTrueIn(rows, Watched[v], s),
             NEW n, told' = told \/ Tell(v, n),
             told' = told \/ TrueIn(rows, Watched[v], n)
      PROVE  NewsInv'
  <2>1. ASSUME NEW u \in Viewers
        PROVE  /\ streams'[u] = streams[u] \/ StreamTrueIn(rows', Watched[u], streams'[u])
               /\ told'[u] = told[u] \/ TrueIn(rows', Watched[u], told'[u])
    BY <1>2, <1>3, <1>4 DEF SetStream, Tell
  <2> QED
    BY <1>1, <1>2, <2>1, TruthStays
<1>5. StreamTrueIn(rows, Watched[v], Cut) /\ StreamTrueIn(rows, Watched[v], Left)
  BY DEF StreamTrueIn, Cut, Left
<1>6. TrueIn(rows, Watched[v], rows[Watched[v]].status) /\ TrueIn(rows, Watched[v], "gone")
  BY DEF TrueIn, Outcomes
<1>7. CASE Snapshot(v)
  BY <1>4, <1>6, <1>7 DEF Snapshot
<1>8. ASSUME NEW h \in Replicas, ReadRow(v, h) PROVE NewsInv'
  <2>1. StreamTrueIn(rows, Watched[v], Read(h, rows[Watched[v]].status))
    BY <1>6 DEF StreamTrueIn, Read
  <2> QED
    BY <1>4, <1>5, <1>6, <1>8, <2>1 DEF ReadRow
<1>9. CASE Subscribe(v)
  <2>1. TrueIn(rows, Watched[v], streams[v].seen)
    BY <1>3, <1>9 DEF Subscribe, StreamTrueIn
  <2>2. StreamTrueIn(rows, Watched[v], Open(streams[v].at))
    BY DEF StreamTrueIn, Open
  <2> QED
    BY <1>4, <1>5, <1>9, <2>1, <2>2 DEF Subscribe
<1>10. CASE Forward(v)
  <2> DEFINE m == Head(streams[v].buf)
  <2>1. streams[v] \in [pc: {"open"}, at: Replicas, buf: Buffer] /\ streams[v].buf # <<>>
    BY <1>3, <1>10, StatesOfStreams DEF Forward
  <2>2. /\ m = streams[v].buf[1] /\ 1 \in 1..Len(streams[v].buf)
        /\ m \in StatusMsg
    BY <2>1 DEF Buffer
  <2>3. m.run = Watched[v] /\ Reflected(m)
    BY <1>3, <2>1, <2>2 DEF StreamTrueIn, Reflected
  <2>4. TrueIn(rows, Watched[v], Heard(m))
    BY <2>2, <2>3, MessageFacts DEF TrueIn, Heard, Reflected, ReflectedIn, Outcomes
  <2>5. StreamTrueIn(rows, Watched[v], AfterFrame(streams[v]))
    <3> DEFINE rest == [streams[v] EXCEPT !.buf = Tail(@)]
    <3>1. rest.pc = "open" /\ rest.buf = Tail(streams[v].buf)
      BY <2>1
    <3>2. ASSUME NEW i \in 1..Len(rest.buf)
          PROVE  rest.buf[i] = streams[v].buf[i + 1] /\ i + 1 \in 1..Len(streams[v].buf)
      BY <2>1, <3>1 DEF Buffer
    <3>3. StreamTrueIn(rows, Watched[v], rest)
      BY <1>3, <2>1, <3>1, <3>2 DEF StreamTrueIn
    <3> QED
      BY <1>5, <3>3 DEF AfterFrame
  <2> QED
    BY <1>4, <1>10, <2>4, <2>5 DEF Forward
<1>11. CASE TimeOut(v) \/ ReadFails(v) \/ Leave(v)
  BY <1>4, <1>5, <1>11 DEF TimeOut, ReadFails, Leave
<1> QED
  BY <1>7, <1>8, <1>9, <1>10, <1>11 DEF Client, Follow

\* What a handler broadcasts is past its UPDATE.
LEMMA ConsumeKeepsTruth ==
  ASSUME StreamTypeInv, NewsInv, NEW w \in Workers, Consume(w) PROVE NewsInv'
<1>1. RowsAdvance /\ ReflectInv'
  BY ConsumeIsStatusNext, WorkersKeepReflection DEF StreamTypeInv, NewsInv
<1>2. FirstExecution'
  BY ConsumeIsStatusNext, WorkersKeepTypes DEF StreamTypeInv, NewsInv, FirstExecution
<1>3. streams' = streams /\ told' = told
  BY DEF Consume, streamVars
<1>4. ASSUME NEW x \in inflight' PROVE x \in inflight \/ ReflectedIn(rows', x[2])
  <2>1. CASE UNCHANGED streamVars
    BY <1>4, <2>1 DEF streamVars
  <2>2. CASE Broadcast(w) /\ inflight' = inflight \union (Replicas \X {work[w].msg})
    <3>1. work[w] # Free /\ rows' = rows
      BY <2>2 DEF Broadcast, Free, storeVars
    <3>2. ReflectedIn(rows', work[w].msg)
      BY <3>1 DEF NewsInv, ReflectInv, HandledReflected, Reflected
    <3> QED
      BY <1>4, <2>2, <3>2
  <2> QED
    BY <2>1, <2>2 DEF Consume
<1> QED
  BY <1>1, <1>2, <1>3, <1>4, TruthStays

\* What the Hub hands to a stream was in flight, and is of the watched run.
LEMMA HubKeepsTruth ==
  ASSUME StreamTypeInv, NewsInv, NEW h \in Replicas,
         ReplicaCrash(h) \/ \E m \in StatusMsg : DeliverLocal(h, m) \/ Miss(h, m)
  PROVE  NewsInv'
<1>1. ASSUME NEW m \in StatusMsg, DeliverLocal(h, m) PROVE NewsInv'
  <2>1. RowsAdvance /\ rows' = rows /\ ReflectInv' /\ FirstExecution'
    BY <1>1, QuietStep DEF DeliverLocal
  <2>2. inflight' \subseteq inflight /\ told' = told
    BY <1>1 DEF DeliverLocal
  <2>3. Reflected(m)
    BY <1>1 DEF DeliverLocal, NewsInv, FlightTrue
  <2>4. ASSUME NEW v \in Viewers
        PROVE  streams'[v] = streams[v] \/ StreamTrueIn(rows', Watched[v], streams'[v])
    <3> DEFINE s == streams[v]
               t == [s EXCEPT !.buf = Offered(@, m)]
    <3>1. CASE ~Subscribed(v, h, m.run)
      BY <1>1, <3>1 DEF DeliverLocal
    <3>2. CASE Subscribed(v, h, m.run)
      <4>1. s \in [pc: {"open"}, at: Replicas, buf: Buffer] /\ m.run = Watched[v]
        BY <3>2, StatesOfStreams DEF Subscribed, StreamTypeInv, StreamTypeOK
      <4>2. streams'[v] = t /\ t.pc = "open" /\ t.buf = Offered(s.buf, m)
        BY <1>1, <3>2, <4>1 DEF DeliverLocal
      <4>3. ASSUME NEW i \in 1..Len(t.buf)
            PROVE  t.buf[i] = m \/ (i \in 1..Len(s.buf) /\ t.buf[i] = s.buf[i])
        BY <4>1, <4>2 DEF Offered, Buffer
      <4>4. StreamTrueIn(rows, Watched[v], s)
        BY DEF NewsInv, StreamsTrue
      <4> HIDE DEF t
      <4>5. StreamTrueIn(rows, Watched[v], t)
        BY <2>3, <4>1, <4>2, <4>3, <4>4 DEF StreamTrueIn, Reflected
      <4> QED
        BY <2>1, <4>2, <4>5
    <3> QED
      BY <3>1, <3>2
  <2> QED
    BY <2>1, <2>2, <2>4, TruthStays
<1>2. ASSUME NEW m \in StatusMsg, Miss(h, m) PROVE NewsInv'
  <2>1. RowsAdvance /\ ReflectInv' /\ FirstExecution'
    BY <1>2, QuietStep DEF Miss
  <2> QED
    BY <1>2, <2>1, TruthStays DEF Miss
<1>3. CASE ReplicaCrash(h)
  <2>1. rows' = rows /\ UNCHANGED <<stream, settled, announced>>
    BY <1>3 DEF ReplicaCrash, storeVars, busVars
  <2>2. RowsAdvance
    BY <2>1, SameRowsAdvance
  <2>3. /\ FirstExecution' /\ Inserted' /\ OneVerdict' /\ Decided'
        /\ AnnouncedReflected' /\ SettledReflected'
    BY <2>1 DEF NewsInv, ReflectInv, FirstExecution, Inserted, OneVerdict, Decided,
                AnnouncedReflected, SettledReflected, Reflected
  <2>4. \A w \in Workers : work'[w] = Free \/ work'[w] = work[w]
    BY <1>3 DEF ReplicaCrash
  <2>5. HandledReflected'
    BY <2>1, <2>4 DEF NewsInv, ReflectInv, HandledReflected, Reflected
  <2>6. inflight' \subseteq inflight /\ told' = told
    BY <1>3 DEF ReplicaCrash
  <2>7. \A v \in Viewers : streams'[v] = streams[v] \/ streams'[v] = Cut
    BY <1>3 DEF ReplicaCrash
  <2>8. \A v \in Viewers : StreamTrueIn(rows', Watched[v], Cut)
    BY DEF StreamTrueIn, Cut
  <2>9. ReflectInv'
    BY <2>3, <2>5 DEF ReflectInv
  <2> QED
    BY <2>2, <2>3, <2>6, <2>7, <2>8, <2>9, TruthStays
<1> QED
  BY <1>1, <1>2, <1>3

\* The controller's messages: about a run that was inserted, and one
\* completion per run.
LEMMA ControllerKeepsTruth ==
  ASSUME StreamTypeInv, NewsInv, Controller PROVE NewsInv'
<1>1. rows' = rows /\ UNCHANGED statusVars /\ UNCHANGED <<inflight, streams, told>>
  BY DEF Controller, storeVars, streamVars
<1>2. RowsAdvance
  BY <1>1, SameRowsAdvance
<1>3. PICK r \in Runs : PublishStarted(r) \/ \E st \in Outcomes : PublishCompleted(r, st)
  BY DEF Controller
<1>4. CASE PublishStarted(r)
  <2>1. /\ stream' = stream \union {Started(r, 1)} /\ settled' = settled
        /\ rows[r].status # "absent"
        /\ Started(r, 1).run = r /\ Started(r, 1) \notin RunCompleted
    BY <1>4 DEF PublishStarted, Bus!Publish, Started, RunCompleted
  <2>2. OneVerdict' /\ FirstExecution'
    BY <2>1 DEF NewsInv, ReflectInv, OneVerdict, FirstExecution
  <2>3. ReflectInv'
    BY <1>1, <2>1, <2>2, PublishKeepsReflection DEF NewsInv
  <2> QED
    BY <1>1, <1>2, <2>2, <2>3, TruthStays
<1>5. ASSUME NEW st \in Outcomes, PublishCompleted(r, st) PROVE NewsInv'
  <2> DEFINE m == Completed(r, 1, st)
  <2>1. stream' = stream \union {m} /\ settled' = settled /\ rows[r].status # "absent"
    BY <1>5 DEF PublishCompleted, Bus!Publish
  <2>2. m.run = r /\ m.status = st /\ m = Completed(m.run, 1, m.status)
    BY DEF Completed
  <2>3. \A n \in stream \intersect RunCompleted : n.run # r
    <3> SUFFICES ASSUME NEW n \in stream \intersect RunCompleted, n.run = r PROVE FALSE
      OBVIOUS
    <3>1. n = Completed(r, 1, n.status) /\ n.status \in Outcomes
      BY DEF NewsInv, FirstExecution, RunCompleted
    <3> QED
      BY <1>5, <3>1 DEF PublishCompleted
  <2> HIDE DEF m
  <2>4. FirstExecution' /\ OneVerdict'
    BY <2>1, <2>2, <2>3 DEF NewsInv, ReflectInv, FirstExecution, OneVerdict
  <2>5. ReflectInv'
    BY <1>1, <2>1, <2>2, <2>4, PublishKeepsReflection DEF NewsInv
  <2> QED
    BY <1>1, <1>2, <2>4, <2>5, TruthStays
<1> QED
  BY <1>3, <1>4, <1>5

\* The owner inserts a row or deletes rows; it decides none.
LEMMA OwnerKeepsTruth ==
  ASSUME StreamTypeInv, NewsInv, Owner PROVE NewsInv'
<1>1. UNCHANGED <<stream, settled, inflight, streams, told>> /\ UNCHANGED statusVars
  BY DEF Owner, busVars, streamVars
<1>2. RowsAdvance
  BY CreateRowAdvances, DeleteAgentAdvances DEF Owner, StreamTypeInv, StatusInv
<1>3. \A r \in Runs : rows'[r].status \in Outcomes => rows'[r].status = rows[r].status
  <2>1. ASSUME NEW q \in Runs, CreateRow(q) PROVE <1>3
    BY <2>1 DEF CreateRow, Outcomes, StreamTypeInv, StatusInv, StoreTypeOK, Row
  <2>2. ASSUME NEW a \in Agents, DeleteAgent(a) PROVE <1>3
    BY <2>2 DEF DeleteAgent, Outcomes, StreamTypeInv, StatusInv, StoreTypeOK, Row
  <2> QED
    BY <2>1, <2>2 DEF Owner
<1>4. ReflectInv'
  BY <1>1, <1>2, <1>3, OthersKeepReflection DEF StreamTypeInv, NewsInv
<1>5. FirstExecution'
  BY <1>1 DEF NewsInv, FirstExecution
<1> QED
  BY <1>1, <1>2, <1>4, <1>5, TruthStays

LEMMA NewsInitially == Init => NewsInv
BY DEF Init, StoreInit, Bus!BusInit, StatusInit, StreamInit, NewsInv, ReflectInv, Inserted,
       OneVerdict, Decided, HandledReflected, AnnouncedReflected, SettledReflected,
       FirstExecution, FlightTrue,
       StreamsTrue, StreamTrueIn, NewsIsTrue, Unopened, Outcomes

LEMMA NewsPreserved == StreamTypeInv /\ NewsInv /\ [Next]_vars => NewsInv'
<1> SUFFICES ASSUME StreamTypeInv, NewsInv, [Next]_vars PROVE NewsInv'
  OBVIOUS
<1>1. CASE UNCHANGED vars
  <2>1. UNCHANGED <<storeVars, busVars, statusVars>> /\ UNCHANGED <<inflight, streams, told>>
    BY <1>1 DEF vars, streamVars
  <2> QED
    BY <2>1, QuietStep, TruthStays
<1> QED
  BY <1>1, ClientKeepsTruth, ConsumeKeepsTruth, HubKeepsTruth, ControllerKeepsTruth,
     OwnerKeepsTruth DEF Next

\* A client is never told of a transition the runs table does not have,
\* whatever is lost, late, repeated or out of order (RunStream's NewsIsTrue).
THEOREM NewsHold == Spec => []NewsIsTrue
<1>1. NewsInv => NewsIsTrue
  BY DEF NewsInv
<1> QED
  BY <1>1, StreamTypesInitially, StreamTypesPreserved, NewsInitially, NewsPreserved, PTL
  DEF Spec

-----------------------------------------------------------------------------
(* The end is last: a client that was told of it has no stream left that   *)
(* could tell it more, and will not open another.                          *)

EndedUnserved == \A v \in Viewers : told[v] \in Outcomes => ~Serving(v)

LEMMA ClientKeepsEnd ==
  ASSUME StreamTypeInv, EndedUnserved, NEW v \in Viewers, Client(v)
  PROVE  EndedUnserved' /\ (told[v] \in Outcomes => told'[v] = told[v])
<1>1. /\ streams \in [Viewers -> StreamState] /\ told \in [Viewers -> News]
      /\ streams[v] \in StreamState
  BY DEF StreamTypeInv, StreamTypeOK
<1>2. ~(Cut.pc \in {"read", "open"}) /\ ~(Left.pc \in {"read", "open"})
  BY DEF Cut, Left
<1>3. ASSUME NEW s, streams' = streams \/ SetStream(v, s), NEW n, told' = told \/ Tell(v, n),
             told'[v] \in Outcomes => streams'[v].pc \notin {"read", "open"},
             told[v] \in Outcomes => told' = told
      PROVE  EndedUnserved' /\ (told[v] \in Outcomes => told'[v] = told[v])
  <2>1. ASSUME NEW u \in Viewers, u # v PROVE streams'[u] = streams[u] /\ told'[u] = told[u]
    BY <1>1, <1>3, <2>1 DEF SetStream, Tell
  <2> QED
    BY <1>3, <2>1 DEF EndedUnserved, Serving
<1>4. CASE Snapshot(v)
  <2>1. streams' = streams /\ streams[v] = Unopened /\ told[v] \notin Outcomes
    BY <1>4 DEF Snapshot, Outcomes
  <2> QED
    BY <1>3, <1>4, <2>1 DEF Snapshot, Unopened
<1>5. ASSUME NEW h \in Replicas, ReadRow(v, h)
      PROVE  EndedUnserved' /\ (told[v] \in Outcomes => told'[v] = told[v])
  <2>1. told[v] \notin Outcomes
    BY <1>5 DEF ReadRow, MayOpen, Live, Outcomes
  <2>2. told'[v] \notin Outcomes
    BY <1>1, <1>5, <2>1 DEF ReadRow, Tell, Outcomes
  <2> QED
    BY <1>3, <1>5, <2>1, <2>2 DEF ReadRow
<1>6. CASE Subscribe(v) \/ Forward(v)
  <2>1. told[v] \notin Outcomes
    BY <1>6 DEF EndedUnserved, Serving, Subscribe, Forward
  <2>2. CASE Subscribe(v)
    <3>1. CASE streams[v].seen \in Outcomes
      <4>1. streams'[v] = Cut
        BY <1>1, <2>2, <3>1 DEF Subscribe, SetStream, Live, Outcomes
      <4> QED
        BY <1>2, <1>3, <2>1, <2>2, <4>1 DEF Subscribe
    <3>2. CASE streams[v].seen \notin Outcomes
      BY <1>3, <2>1, <2>2, <3>2 DEF Subscribe
    <3> QED
      BY <3>1, <3>2
  <2>3. CASE Forward(v)
    <3> DEFINE m == Head(streams[v].buf)
    <3>1. m \in StatusMsg
      BY <1>1, <2>3, StatesOfStreams, ChannelTypes DEF Forward, Buffer
    <3>2. told'[v] = Heard(m) /\ streams'[v] = AfterFrame(streams[v])
      BY <1>1, <2>3 DEF Forward, Tell, SetStream
    <3>3. Heard(m) \in Outcomes => AfterFrame(streams[v]) = Cut
      BY <3>1, MessageFacts DEF Heard, AfterFrame, Outcomes
    <3> QED
      BY <1>2, <1>3, <2>1, <2>3, <3>2, <3>3 DEF Forward
  <2> QED
    BY <1>6, <2>2, <2>3
<1>7. CASE TimeOut(v) \/ ReadFails(v) \/ Leave(v)
  <2>1. told' = told /\ (SetStream(v, Cut) \/ SetStream(v, Left))
    BY <1>7 DEF TimeOut, ReadFails, Leave
  <2>2. streams'[v] = Cut \/ streams'[v] = Left
    BY <1>1, <2>1 DEF SetStream
  <2> QED
    BY <1>2, <1>3, <2>1, <2>2
<1> QED
  BY <1>4, <1>5, <1>6, <1>7 DEF Client, Follow

\* No other step tells a client anything or opens a stream.
LEMMA OthersKeepEnd ==
  ASSUME StreamTypeInv, EndedUnserved,
         \/ UNCHANGED vars \/ Owner \/ Controller \/ \E w \in Workers : Consume(w)
         \/ \E h \in Replicas :
              ReplicaCrash(h) \/ \E m \in StatusMsg : DeliverLocal(h, m) \/ Miss(h, m)
  PROVE  EndedUnserved' /\ told' = told
<1>1. told' = told
  BY DEF vars, streamVars, Owner, Controller, Consume, ReplicaCrash, DeliverLocal, Miss
<1>2. CASE streams' = streams
  BY <1>1, <1>2 DEF EndedUnserved, Serving
<1>3. ASSUME NEW h \in Replicas, NEW m \in StatusMsg, DeliverLocal(h, m) PROVE EndedUnserved'
  <2>1. ASSUME NEW v \in Viewers, ~Serving(v) PROVE streams'[v] = streams[v]
    BY <1>3, <2>1 DEF DeliverLocal, Subscribed, Serving
  <2> QED
    BY <1>1, <2>1 DEF EndedUnserved, Serving
<1>4. ASSUME NEW h \in Replicas, ReplicaCrash(h) PROVE EndedUnserved'
  <2>1. ASSUME NEW v \in Viewers, ~Serving(v) PROVE streams'[v] = streams[v]
    BY <1>4, <2>1 DEF ReplicaCrash
  <2> QED
    BY <1>1, <2>1 DEF EndedUnserved, Serving
<1> QED
  BY <1>1, <1>2, <1>3, <1>4 DEF vars, streamVars, Owner, Controller, Consume, Miss

LEMMA EndStep ==
  ASSUME StreamTypeInv, EndedUnserved, [Next]_vars
  PROVE  /\ EndedUnserved'
         /\ \A v \in Viewers : told[v] \in Outcomes => told'[v] = told[v]
<1>1. ASSUME NEW v \in Viewers, Client(v)
      PROVE  /\ EndedUnserved'
             /\ \A u \in Viewers : told[u] \in Outcomes => told'[u] = told[u]
  <2>1. ASSUME NEW u \in Viewers, u # v PROVE told'[u] = told[u]
    BY <1>1, <2>1 DEF Client, Follow, Snapshot, ReadRow, Subscribe, Forward, TimeOut, Leave,
                      ReadFails, Tell, StreamTypeInv, StreamTypeOK
  <2> QED
    BY <1>1, <2>1, ClientKeepsEnd
<1> QED
  BY <1>1, OthersKeepEnd DEF Next

\* A client that was told how its run ended is never told anything else: no
\* late or redelivered event reaches it (RunStream's TheEndIsLast).
THEOREM EndIsLast == Spec => TheEndIsLast
<1>1. Init => EndedUnserved
  BY DEF Init, StreamInit, EndedUnserved, Outcomes
<1>2. StreamTypeInv /\ EndedUnserved /\ [Next]_vars =>
        EndedUnserved' /\ [\A v \in Viewers : told[v] \in Outcomes => told'[v] = told[v]]_vars
  BY EndStep
<1> QED
  BY <1>1, <1>2, StreamTypesInitially, StreamTypesPreserved, PTL DEF Spec, TheEndIsLast
=============================================================================
