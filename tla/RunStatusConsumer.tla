------------------------- MODULE RunStatusConsumer -------------------------
(***************************************************************************)
(* runs/status_consumer.go: the api replicas apply run.started and         *)
(* run.completed to the tables.  The two subjects have separate durables,  *)
(* so their messages of one run are handled in any order and at the same   *)
(* time; a handler is a sequence of SQL statements and a broadcast, and    *)
(* the process can die, or the message be redelivered, between any two.    *)
(***************************************************************************)
EXTENDS RunStore, RunEvents, FaultBudget

CONSTANT Workers   \* handler goroutines of the api replicas

VARIABLES work,       \* the message each worker holds and its next step
          announced   \* messages whose broadcast reached plain NATS

statusVars == <<work, announced>>

StatusMsg == RunStarted \union RunCompleted
Free == [pc |-> "free"]
Handling == [pc: {"meter", "seconds", "broadcast", "ack"}, msg: StatusMsg]

StatusInit ==
  /\ work = [w \in Workers |-> Free]
  /\ announced = {}

StatusTypeOK ==
  /\ work \in [Workers -> Handling \union {Free}]
  /\ announced \in SUBSET StatusMsg

SetWork(w, task) == work' = [work EXCEPT ![w] = task]
Held(m) == \E w \in Workers : work[w] # Free /\ work[w].msg = m

\* The durable hands m to a free worker.  While another worker holds it, the
\* message comes again only once that handler has outlived AckWait.
Receive(w, m) ==
  /\ work[w] = Free
  /\ Bus!Deliver(m)
  /\ IF Held(m) THEN Fault("slow") ELSE UNCHANGED faults

\* Repo.MarkStarted / Repo.MarkCompleted: the handler's first statement.
Apply(m) ==
  IF m.subject = "run.started"
    THEN MarkStarted(m.run, m.exec)
    ELSE MarkCompleted(m.run, m.status)

Handle(w, m) ==
  /\ Receive(w, m)
  /\ Apply(m)
  /\ SetWork(w, [pc |-> "meter", msg |-> m])
  /\ UNCHANGED announced

\* Mutant: the error of the UPDATE is logged and the handler goes on.
HandleFailsGoesOn(w, m) ==
  /\ work[w] = Free /\ ~Held(m)
  /\ Fault("db")
  /\ Bus!Deliver(m)
  /\ SetWork(w, [pc |-> "meter", msg |-> m])
  /\ UNCHANGED <<storeVars, announced>>

\* The UPDATE fails: Nak.
HandleFails(w, m) ==
  /\ work[w] = Free /\ ~Held(m)
  /\ Fault("db")
  /\ Bus!Deliver(m)
  /\ UNCHANGED <<storeVars, statusVars>>

\* The usage rows the handler writes, in order, and what follows each.
MeterKind(task) ==
  IF task.pc = "seconds" THEN "run.seconds"
  ELSE IF task.msg.subject = "run.started" THEN "run.start" ELSE "run.end"
AfterMeter(task) ==
  IF task.pc = "meter" /\ task.msg.subject = "run.completed"
    THEN "seconds" ELSE "broadcast"

\* Usage.RecordRun: its error is logged or dropped, never returned.
Meter(w) ==
  /\ work[w].pc \in {"meter", "seconds"}
  /\ \/ RecordRun(work[w].msg.run, MeterKind(work[w])) /\ UNCHANGED faults
     \/ UNCHANGED storeVars /\ Fault("meter")
  /\ SetWork(w, [work[w] EXCEPT !.pc = AfterMeter(work[w])])
  /\ UNCHANGED <<busVars, announced>>

\* Hub.Broadcast on plain NATS.
Broadcast(w) ==
  /\ work[w].pc = "broadcast"
  /\ announced' = announced \union {work[w].msg}
  /\ SetWork(w, [work[w] EXCEPT !.pc = "ack"])
  /\ UNCHANGED <<storeVars, busVars, faults>>

Acknowledge(w) ==
  /\ work[w].pc = "ack"
  /\ \/ Bus!Ack(work[w].msg) /\ UNCHANGED faults
     \/ Bus!Nak /\ Fault("ack_lost")
  /\ SetWork(w, Free)
  /\ UNCHANGED <<storeVars, announced>>

WorkerCrash(w) ==
  /\ work[w] # Free
  /\ Fault("api_crash")
  /\ SetWork(w, Free)
  /\ UNCHANGED <<storeVars, busVars, announced>>

\* A handler when nothing fails it.
HandlerWork(w) ==
  \/ \E m \in StatusMsg : Handle(w, m)
  \/ Meter(w) \/ Broadcast(w) \/ Acknowledge(w)

WorkerStep(w) ==
  \/ HandlerWork(w) \/ WorkerCrash(w)
  \/ \E m \in StatusMsg : HandleFails(w, m)

StatusNext == \E w \in Workers : WorkerStep(w)
=============================================================================
