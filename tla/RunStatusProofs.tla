--------------------------- MODULE RunStatusProofs ----------------------------
(***************************************************************************)
(* What the status handlers preserve, whatever they are composed with:     *)
(* their types, and that a row reflects every message whose UPDATE has     *)
(* been done.  Used for RunPipeline and for RunStream.                     *)
(***************************************************************************)
EXTENDS RunStatusConsumer, TLAPS

-----------------------------------------------------------------------------
(* The operators the components are built from keep their state typed.     *)

LEMMA CreateRowTypes ==
  ASSUME StoreTypeOK, NEW r \in Runs, CreateRow(r)
  PROVE  StoreTypeOK'
BY DEF StoreTypeOK, CreateRow, Row, RowStatus

LEMMA MarkStartedTypes ==
  ASSUME StoreTypeOK, NEW r \in Runs, NEW at \in Nat, MarkStarted(r, at)
  PROVE  StoreTypeOK'
<1>1. StartedRow(rows[r], at) \in Row
  BY DEF StoreTypeOK, Row, RowStatus, StartedRow
<1> QED
  BY <1>1 DEF StoreTypeOK, MarkStarted

LEMMA MarkCompletedTypes ==
  ASSUME StoreTypeOK, NEW r \in Runs, NEW st \in Outcomes, MarkCompleted(r, st)
  PROVE  StoreTypeOK'
<1>1. CompletedRow(rows[r], st) \in Row
  BY DEF StoreTypeOK, Row, RowStatus, CompletedRow
<1> QED
  BY <1>1 DEF StoreTypeOK, MarkCompleted

LEMMA RecordRunTypes ==
  ASSUME StoreTypeOK, NEW r \in Runs, NEW k \in Kinds, RecordRun(r, k)
  PROVE  StoreTypeOK'
BY DEF StoreTypeOK, RecordRun

LEMMA DeleteAgentTypes ==
  ASSUME StoreTypeOK, NEW a \in Agents, DeleteAgent(a)
  PROVE  StoreTypeOK'
BY DEF StoreTypeOK, DeleteAgent, Row, RowStatus

LEMMA PublishTypes ==
  ASSUME Bus!BusTypeOK, NEW m \in RunMsg, Bus!Publish(m)
  PROVE  Bus!BusTypeOK' /\ stream' = stream \union {m}
BY DEF Bus!BusTypeOK, Bus!Publish

LEMMA DeliverTypes ==
  ASSUME Bus!BusTypeOK, NEW m \in RunMsg, Bus!Deliver(m)
  PROVE  Bus!BusTypeOK' /\ m \in stream /\ stream' = stream
BY MaxDeliverAssumption DEF Bus!BusTypeOK, Bus!Deliver, Bus!Deliverable

LEMMA AckTypes ==
  ASSUME Bus!BusTypeOK, NEW m \in stream, Bus!Ack(m)
  PROVE  Bus!BusTypeOK' /\ stream' = stream
BY DEF Bus!BusTypeOK, Bus!Ack

LEMMA FaultTypes ==
  ASSUME FaultTypeOK, NEW k, Fault(k)
  PROVE  FaultTypeOK'
BY FaultsAssumption DEF FaultTypeOK, Fault

LEMMA RequestTypes ==
  ASSUME NEW r \in Runs PROVE Requested(r) \in RunRequested /\ Requested(r) \in RunMsg
BY DEF Requested, RunMsg, RunRequested

LEMMA TransitionTypes ==
  ASSUME NEW r \in Runs, NEW e \in Execs, NEW st \in Outcomes
  PROVE  /\ Started(r, e) \in RunStarted /\ Started(r, e) \in RunMsg
         /\ Completed(r, e, st) \in RunCompleted /\ Completed(r, e, st) \in RunMsg
BY DEF Started, Completed, RunMsg, RunStarted, RunCompleted

-----------------------------------------------------------------------------
(* Types.  A handler holds a message of the stream, or its ack would settle *)
(* one that was never published.                                           *)

HandlersHoldStored == \A w \in Workers : work[w] # Free => work[w].msg \in stream

StatusInv ==
  StoreTypeOK /\ Bus!BusTypeOK /\ StatusTypeOK /\ FaultTypeOK /\ HandlersHoldStored

\* The handlers keep their tables and tasks well formed, and hold only
\* messages of the stream.
LEMMA WorkersKeepTypes ==
  ASSUME StatusInv, StatusNext PROVE StatusInv' /\ stream' = stream
<1> DEFINE Kept == /\ StoreTypeOK' /\ Bus!BusTypeOK' /\ StatusTypeOK' /\ FaultTypeOK'
                  /\ stream' = stream
                  /\ \A w \in Workers : work'[w] # Free => work'[w].msg \in stream
<1>1. SUFFICES ASSUME NEW w \in Workers, WorkerStep(w) PROVE Kept
  BY DEF StatusNext, StatusInv, HandlersHoldStored
<1> USE DEF StatusInv
<1>2. ASSUME UNCHANGED storeVars PROVE StoreTypeOK'
  BY <1>2 DEF StoreTypeOK, storeVars
<1>3. ASSUME UNCHANGED busVars PROVE Bus!BusTypeOK' /\ stream' = stream
  BY <1>3 DEF Bus!BusTypeOK, busVars
<1>4. ASSUME UNCHANGED faults PROVE FaultTypeOK'
  BY <1>4 DEF FaultTypeOK
<1>5. ASSUME NEW t \in Handling \union {Free}, SetWork(w, t),
             t = Free \/ t.msg \in stream, announced' \in SUBSET StatusMsg
      PROVE  /\ StatusTypeOK'
             /\ \A v \in Workers : work'[v] # Free => work'[v].msg \in stream
  BY <1>5 DEF StatusTypeOK, SetWork, HandlersHoldStored
<1>6. announced \in SUBSET StatusMsg /\ work[w] \in Handling \union {Free}
  BY DEF StatusTypeOK
<1>7. ASSUME work[w].pc # "free"
      PROVE  work[w] \in Handling /\ work[w].msg \in stream
  BY <1>6, <1>7 DEF Free, HandlersHoldStored
<1>8. ASSUME NEW m \in StatusMsg, Handle(w, m) \/ HandleFails(w, m) PROVE Kept
  <2>1. m \in RunMsg /\ m.run \in Runs
    BY DEF StatusMsg, RunMsg, RunStarted, RunCompleted
  <2>2. CASE Handle(w, m)
    <3>1. [pc |-> "meter", msg |-> m] \in Handling
      BY DEF Handling
    <3>2. Bus!BusTypeOK' /\ m \in stream /\ stream' = stream /\ FaultTypeOK'
      BY <1>4, <2>1, <2>2, DeliverTypes, FaultTypes DEF Handle, Receive
    <3>3. CASE m.subject = "run.started"
      <4>1. m.exec \in Nat
        BY <3>3 DEF StatusMsg, RunStarted, RunCompleted, Execs
      <4> QED
        BY <1>5, <1>6, <2>1, <2>2, <3>1, <3>2, <3>3, <4>1, MarkStartedTypes DEF Handle, Apply
    <3>4. CASE m.subject # "run.started"
      <4>1. m.status \in Outcomes
        BY <3>4 DEF StatusMsg, RunStarted, RunCompleted
      <4> QED
        BY <1>5, <1>6, <2>1, <2>2, <3>1, <3>2, <3>4, <4>1, MarkCompletedTypes DEF Handle, Apply
    <3> QED
      BY <3>3, <3>4
  <2>3. CASE HandleFails(w, m)
    BY <1>2, <2>1, <2>3, DeliverTypes, FaultTypes
    DEF HandleFails, statusVars, StatusTypeOK, HandlersHoldStored
  <2> QED
    BY <1>8, <2>2, <2>3
<1>9. CASE Meter(w)
  <2> DEFINE t == [work[w] EXCEPT !.pc = AfterMeter(work[w])]
  <2>1. work[w] \in Handling /\ work[w].msg \in stream
    BY <1>7, <1>9 DEF Meter
  <2>2. t \in Handling /\ t.msg = work[w].msg
    BY <2>1 DEF Handling, AfterMeter
  <2>3. work[w].msg.run \in Runs /\ MeterKind(work[w]) \in Kinds
    BY <2>1 DEF Handling, StatusMsg, RunStarted, RunCompleted, MeterKind, Kinds
  <2>4. StoreTypeOK' /\ FaultTypeOK'
    BY <1>2, <1>4, <1>9, <2>3, RecordRunTypes, FaultTypes DEF Meter
  <2>5. SetWork(w, t) /\ announced' = announced /\ UNCHANGED busVars
    BY <1>9 DEF Meter
  <2> HIDE DEF t
  <2> QED
    BY <1>3, <1>5, <1>6, <2>1, <2>2, <2>4, <2>5
<1>10. CASE Broadcast(w)
  <2> DEFINE t == [work[w] EXCEPT !.pc = "ack"]
  <2>1. work[w] \in Handling /\ work[w].msg \in stream
    BY <1>7, <1>10 DEF Broadcast
  <2>2. t \in Handling /\ t.msg = work[w].msg /\ work[w].msg \in StatusMsg
    BY <2>1 DEF Handling
  <2>3. /\ SetWork(w, t) /\ announced' \in SUBSET StatusMsg
        /\ UNCHANGED storeVars /\ UNCHANGED busVars /\ UNCHANGED faults
    BY <1>6, <1>10, <2>2 DEF Broadcast
  <2> HIDE DEF t
  <2> QED
    BY <1>2, <1>3, <1>4, <1>5, <2>1, <2>2, <2>3
<1>11. CASE Acknowledge(w)
  <2>1. work[w].msg \in stream
    BY <1>7, <1>11 DEF Acknowledge
  <2>2. Bus!BusTypeOK' /\ stream' = stream
    BY <1>11, <2>1, AckTypes DEF Acknowledge, Bus!Nak, Bus!BusTypeOK
  <2> QED
    BY <1>2, <1>4, <1>5, <1>6, <1>11, <2>2, FaultTypes DEF Acknowledge
<1>12. CASE WorkerCrash(w)
  BY <1>2, <1>3, <1>5, <1>6, <1>12, FaultTypes DEF WorkerCrash
<1> QED
  BY <1>1, <1>8, <1>9, <1>10, <1>11, <1>12 DEF WorkerStep, HandlerWork

-----------------------------------------------------------------------------
(* A row reflects a message once the message's UPDATE has been done, and   *)
(* goes on reflecting it.  This holds because rows only advance, and       *)
(* because the completions of a run agree.                                 *)

ReflectedIn(table, m) ==
  /\ table[m.run].status \notin {"absent", "pending"}
  /\ m.subject = "run.completed" => table[m.run].status \in {m.status, "deleted"}
Reflected(m) == ReflectedIn(rows, m)

\* What the handlers rely on: messages are about runs that were inserted, and
\* the completions of a run agree ...
Inserted == \A m \in stream : rows[m.run].status # "absent"

OneVerdict ==
  \A m, n \in stream \intersect RunCompleted : m.run = n.run => m.status = n.status

\* ... and what they keep up: a row ends as some completion says, and every
\* message past its UPDATE is reflected.
Decided ==
  \A r \in Runs : rows[r].status \in Outcomes =>
    \E m \in stream \intersect RunCompleted : m.run = r /\ m.status = rows[r].status

HandledReflected == \A w \in Workers : work[w] # Free => Reflected(work[w].msg)

AnnouncedReflected == \A m \in announced : Reflected(m)

SettledReflected == \A m \in settled \intersect StatusMsg : Reflected(m)

ReflectInv ==
  /\ Inserted /\ OneVerdict /\ Decided
  /\ HandledReflected /\ AnnouncedReflected /\ SettledReflected

\* A step advances the rows: none reappears, starts over or changes its end.
RowsAdvance ==
  \A r \in Runs :
    /\ rows[r].status # "absent" => rows'[r].status # "absent"
    /\ rows[r].status \notin {"absent", "pending"}
         => rows'[r].status \notin {"absent", "pending"}
    /\ rows[r].status \in Outcomes \union {"deleted"}
         => rows'[r].status \in {rows[r].status, "deleted"}

LEMMA MessageFacts ==
  ASSUME NEW m \in StatusMsg
  PROVE  /\ m.run \in Runs /\ m \in RunMsg
         /\ m.subject \in {"run.started", "run.completed"}
         /\ m.subject = "run.started" => m.exec \in Nat
         /\ m.subject = "run.completed" => m \in RunCompleted /\ m.status \in Outcomes
BY DEF StatusMsg, RunMsg, RunStarted, RunCompleted, Execs

\* Advancing rows keep a message reflected.
LEMMA ReflectedStays ==
  ASSUME RowsAdvance, NEW m \in StatusMsg, Reflected(m) PROVE ReflectedIn(rows', m)
BY MessageFacts DEF RowsAdvance, ReflectedIn, Reflected

LEMMA SameRowsAdvance ==
  ASSUME rows' = rows PROVE RowsAdvance
BY DEF RowsAdvance

LEMMA CreateRowAdvances ==
  ASSUME StoreTypeOK, NEW r \in Runs, CreateRow(r) PROVE RowsAdvance
BY DEF StoreTypeOK, CreateRow, RowsAdvance, Row, RowStatus, Outcomes

LEMMA DeleteAgentAdvances ==
  ASSUME StoreTypeOK, NEW a \in Agents, DeleteAgent(a) PROVE RowsAdvance
BY DEF StoreTypeOK, DeleteAgent, RowExists, RowsAdvance, Row, RowStatus, Outcomes

\* MarkStarted advances the row it is about, and leaves it past pending.
LEMMA MarkStartedAdvances ==
  ASSUME StoreTypeOK, NEW r \in Runs, NEW at, MarkStarted(r, at)
  PROVE  /\ RowsAdvance
         /\ rows[r].status # "absent" => rows'[r].status \notin {"absent", "pending"}
         /\ \A q \in Runs : rows'[q].status \in Outcomes => rows'[q].status = rows[q].status
BY DEF StoreTypeOK, MarkStarted, StartedRow, RowsAdvance, Row, RowStatus, Outcomes

\* MarkCompleted advances the row it is about; unless that row was missing or
\* had ended otherwise, it ends as told.
LEMMA MarkCompletedAdvances ==
  ASSUME StoreTypeOK, NEW r \in Runs, NEW st \in Outcomes, MarkCompleted(r, st)
  PROVE  /\ RowsAdvance
         /\ rows[r].status \in {"pending", "running", st} => rows'[r].status = st
         /\ rows[r].status = "deleted" => rows'[r].status = "deleted"
         /\ \A q \in Runs : rows'[q].status \in Outcomes =>
               rows'[q].status = rows[q].status \/ (q = r /\ rows'[q].status = st)
BY DEF StoreTypeOK, MarkCompleted, CompletedRow, RowsAdvance, Row, RowStatus, Outcomes

\* The UPDATE of a handler makes the row reflect the handler's message.
LEMMA ApplyReflects ==
  ASSUME StatusInv, Inserted, OneVerdict, Decided,
         NEW m \in StatusMsg, m \in stream, Apply(m), stream' = stream
  PROVE  RowsAdvance /\ ReflectedIn(rows', m) /\ Decided'
<1>1. StoreTypeOK /\ m.run \in Runs /\ rows[m.run].status # "absent"
  BY MessageFacts DEF StatusInv, Inserted
<1>2. CASE m.subject = "run.started"
  <2>1. MarkStarted(m.run, m.exec)
    BY <1>2 DEF Apply
  <2> QED
    BY <1>1, <1>2, <2>1, MarkStartedAdvances DEF ReflectedIn, Decided
<1>3. CASE m.subject = "run.completed"
  <2>1. m.status \in Outcomes /\ m \in RunCompleted
    BY <1>3, MessageFacts
  <2>2. MarkCompleted(m.run, m.status)
    BY <1>3 DEF Apply
  <2>3. rows[m.run].status \in {"pending", "running", "deleted", m.status}
    BY <1>1, <2>1 DEF Decided, OneVerdict, StoreTypeOK, Row, RowStatus
  <2>4. ReflectedIn(rows', m)
    BY <1>1, <2>1, <2>2, <2>3, MarkCompletedAdvances DEF ReflectedIn, Outcomes
  <2>5. Decided'
    <3> SUFFICES ASSUME NEW q \in Runs, rows'[q].status \in Outcomes
                 PROVE  \E n \in stream \intersect RunCompleted :
                          n.run = q /\ n.status = rows'[q].status
      BY DEF Decided
    <3>1. rows'[q].status = rows[q].status \/ (q = m.run /\ rows'[q].status = m.status)
      BY <1>1, <2>1, <2>2, MarkCompletedAdvances
    <3> QED
      BY <2>1, <3>1 DEF Decided
  <2> QED
    BY <1>1, <2>1, <2>2, <2>4, <2>5, MarkCompletedAdvances
<1> QED
  BY <1>2, <1>3, MessageFacts

\* What the rest of the system may do under the handlers: advance rows, as
\* long as it decides none.
LEMMA OthersKeepReflection ==
  ASSUME StatusInv, ReflectInv, RowsAdvance, stream' = stream, settled' = settled,
         UNCHANGED statusVars,
         \A r \in Runs : rows'[r].status \in Outcomes => rows'[r].status = rows[r].status
  PROVE  ReflectInv'
<1>1. \A m \in stream : m.run \in Runs
  BY DEF StatusInv, Bus!BusTypeOK, RunMsg, RunRequested, RunStarted, RunCompleted
<1>2. Inserted' /\ OneVerdict' /\ Decided'
  BY <1>1 DEF ReflectInv, Inserted, OneVerdict, Decided, RowsAdvance
<1>3. HandledReflected'
  <2> SUFFICES ASSUME NEW w \in Workers, work[w] # Free PROVE ReflectedIn(rows', work[w].msg)
    BY DEF HandledReflected, Reflected, statusVars
  <2>1. work[w].msg \in StatusMsg
    BY DEF StatusInv, StatusTypeOK, Handling
  <2>2. Reflected(work[w].msg)
    BY DEF ReflectInv, HandledReflected
  <2>3. work' = work
    BY DEF statusVars
  <2> QED
    BY <2>1, <2>2, <2>3, ReflectedStays
<1>4. AnnouncedReflected'
  <2>1. announced' = announced /\ announced \subseteq StatusMsg
    BY DEF statusVars, StatusInv, StatusTypeOK
  <2> QED
    BY <2>1, ReflectedStays DEF ReflectInv, AnnouncedReflected, Reflected
<1>5. SettledReflected'
  BY ReflectedStays DEF ReflectInv, SettledReflected, Reflected
<1> QED
  BY <1>2, <1>3, <1>4, <1>5 DEF ReflectInv

\* A worker that moves on to a task, holding a reflected message if any.
LEMMA TaskKeepsReflection ==
  ASSUME StatusInv, ReflectInv, RowsAdvance, stream' = stream, Decided',
         NEW w \in Workers, NEW t, SetWork(w, t), t = Free \/ ReflectedIn(rows', t.msg),
         \A m \in announced' : m \in announced \/ ReflectedIn(rows', m),
         \A m \in settled' : m \in settled \/ ReflectedIn(rows', m)
  PROVE  ReflectInv'
<1>1. \A m \in stream : m.run \in Runs
  BY DEF StatusInv, Bus!BusTypeOK, RunMsg, RunRequested, RunStarted, RunCompleted
<1>2. Inserted' /\ OneVerdict'
  BY <1>1 DEF ReflectInv, Inserted, OneVerdict, RowsAdvance
<1>3. HandledReflected'
  <2> SUFFICES ASSUME NEW v \in Workers, work'[v] # Free PROVE ReflectedIn(rows', work'[v].msg)
    BY DEF HandledReflected, Reflected
  <2>1. CASE v = w
    <3>1. work'[v] = t
      BY <2>1 DEF SetWork, StatusInv, StatusTypeOK
    <3> QED
      BY <3>1
  <2>2. CASE v # w
    <3>1. work'[v] = work[v] /\ work[v] \in Handling
      BY <2>2 DEF SetWork, StatusInv, StatusTypeOK
    <3>2. Reflected(work[v].msg) /\ work[v].msg \in StatusMsg
      BY <3>1 DEF ReflectInv, HandledReflected, Handling
    <3> QED
      BY <3>1, <3>2, ReflectedStays
  <2> QED
    BY <2>1, <2>2
<1>4. AnnouncedReflected'
  BY ReflectedStays DEF ReflectInv, AnnouncedReflected, Reflected, StatusInv, StatusTypeOK
<1>5. SettledReflected'
  BY ReflectedStays DEF ReflectInv, SettledReflected, Reflected
<1> QED
  BY <1>2, <1>3, <1>4, <1>5 DEF ReflectInv

\* Every step of a handler, a failure or a crash included, keeps the rows
\* advancing and what is past its UPDATE reflected.
LEMMA WorkersKeepReflection ==
  ASSUME StatusInv, ReflectInv, StatusNext PROVE ReflectInv' /\ RowsAdvance
<1>1. SUFFICES ASSUME NEW w \in Workers, WorkerStep(w) PROVE ReflectInv' /\ RowsAdvance
  BY DEF StatusNext
<1>2. stream' = stream
  BY WorkersKeepTypes
<1>3. work[w] # Free => work[w] \in Handling /\ Reflected(work[w].msg)
  BY DEF StatusInv, StatusTypeOK, ReflectInv, HandledReflected
<1>4. ASSUME rows' = rows PROVE RowsAdvance /\ Decided'
  BY <1>2, <1>4, SameRowsAdvance DEF ReflectInv, Decided
<1>5. ASSUME NEW m \in StatusMsg, Handle(w, m) PROVE ReflectInv' /\ RowsAdvance
  <2>1. m \in stream /\ Apply(m) /\ SetWork(w, [pc |-> "meter", msg |-> m])
    BY <1>5 DEF Handle, Receive, Bus!Deliver, Bus!Deliverable
  <2>2. RowsAdvance /\ ReflectedIn(rows', m) /\ Decided'
    BY <1>2, <2>1, ApplyReflects DEF ReflectInv
  <2>3. announced' = announced /\ settled' = settled
    BY <1>5 DEF Handle, Receive, Bus!Deliver
  <2> QED
    BY <1>2, <2>1, <2>2, <2>3, TaskKeepsReflection
<1>6. ASSUME NEW m \in StatusMsg, HandleFails(w, m) PROVE ReflectInv' /\ RowsAdvance
  <2>1. rows' = rows /\ settled' = settled /\ UNCHANGED statusVars
    BY <1>6 DEF HandleFails, storeVars, Bus!Deliver
  <2> QED
    BY <1>2, <1>4, <2>1, OthersKeepReflection
<1>7. CASE Meter(w)
  <2> DEFINE t == [work[w] EXCEPT !.pc = AfterMeter(work[w])]
  <2>1. rows' = rows /\ UNCHANGED <<announced, settled>> /\ SetWork(w, t)
    BY <1>7 DEF Meter, RecordRun, storeVars, busVars
  <2>2. work[w] # Free
    BY <1>7 DEF Meter, Free
  <2>3. t.msg = work[w].msg
    BY <1>3, <2>2 DEF Handling
  <2>4. ReflectedIn(rows', t.msg)
    BY <1>3, <2>1, <2>2, <2>3 DEF Reflected
  <2> HIDE DEF t
  <2> QED
    BY <1>2, <1>4, <2>1, <2>4, TaskKeepsReflection
<1>8. CASE Broadcast(w)
  <2> DEFINE t == [work[w] EXCEPT !.pc = "ack"]
  <2>1. /\ rows' = rows /\ settled' = settled /\ SetWork(w, t)
        /\ announced' = announced \union {work[w].msg}
    BY <1>8 DEF Broadcast, storeVars, busVars
  <2>2. work[w] # Free
    BY <1>8 DEF Broadcast, Free
  <2>3. t.msg = work[w].msg
    BY <1>3, <2>2 DEF Handling
  <2>4. Reflected(work[w].msg)
    BY <1>3, <2>2
  <2>5. \A m \in announced' : m \in announced \/ ReflectedIn(rows', m)
    BY <2>1, <2>4 DEF Reflected
  <2>6. ReflectedIn(rows', t.msg)
    BY <2>1, <2>3, <2>4 DEF Reflected
  <2> HIDE DEF t
  <2> QED
    BY <1>2, <1>4, <2>1, <2>5, <2>6, TaskKeepsReflection
<1>9. CASE Acknowledge(w)
  <2>1. /\ rows' = rows /\ announced' = announced /\ SetWork(w, Free)
        /\ settled' \subseteq settled \union {work[w].msg}
    BY <1>9 DEF Acknowledge, storeVars, Bus!Ack, Bus!Nak
  <2>2. work[w] # Free
    BY <1>9 DEF Acknowledge, Free
  <2>3. ReflectedIn(rows', work[w].msg)
    BY <1>3, <2>1, <2>2 DEF Reflected
  <2> QED
    BY <1>2, <1>4, <2>1, <2>3, TaskKeepsReflection
<1>10. CASE WorkerCrash(w)
  <2>1. rows' = rows /\ UNCHANGED <<announced, settled>> /\ SetWork(w, Free)
    BY <1>10 DEF WorkerCrash, storeVars, busVars
  <2> QED
    BY <1>2, <1>4, <2>1, TaskKeepsReflection
<1> QED
  BY <1>1, <1>5, <1>6, <1>7, <1>8, <1>9, <1>10 DEF WorkerStep, HandlerWork

\* A message is published about a run that was inserted, or one that is not
\* the handlers' is settled.
LEMMA PublishKeepsReflection ==
  ASSUME ReflectInv, rows' = rows, UNCHANGED statusVars,
         \A m \in settled' \intersect StatusMsg : m \in settled,
         stream \subseteq stream', OneVerdict',
         \A m \in stream' : m \in stream \/ rows[m.run].status # "absent"
  PROVE  ReflectInv'
<1>1. Inserted' /\ Decided'
  BY DEF ReflectInv, Inserted, Decided
<1>2. HandledReflected' /\ AnnouncedReflected' /\ SettledReflected'
  BY DEF ReflectInv, statusVars, HandledReflected, AnnouncedReflected, SettledReflected, Reflected
<1> QED
  BY <1>1, <1>2 DEF ReflectInv
=============================================================================
