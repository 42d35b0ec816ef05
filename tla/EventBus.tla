------------------------------ MODULE EventBus ------------------------------
(***************************************************************************)
(* internal/eventbus: the JetStream stream "ailab" and the durable         *)
(* consumer bound to each subject.  Every subject of the platform has one  *)
(* durable, so a message is owed to exactly one consumer group and is      *)
(* settled by whichever replica acknowledges it.                           *)
(*                                                                         *)
(* The broker itself is external.  What is modelled is the contract        *)
(* Publish and Subscribe configure (nats.go:43-102): storage before        *)
(* Publish returns, explicit acks, redelivery of anything not acked        *)
(* (Nak, AckWait expiry or a crashed consumer), at most MaxDeliver         *)
(* deliveries, and no ordering between redelivered messages.               *)
(***************************************************************************)
EXTENDS Integers

CONSTANTS Msg,          \* the messages the instance can carry
          MaxDeliver    \* ConsumerConfig.MaxDeliver (10 in the code)

VARIABLES stream,       \* messages the broker has stored
          settled,      \* messages the durable no longer owes
          tries         \* delivery attempts the durable has made

BusInit ==
  /\ stream = {}
  /\ settled = {}
  /\ tries = [m \in Msg |-> 0]

BusTypeOK ==
  /\ stream \in SUBSET Msg
  /\ settled \in SUBSET stream
  /\ tries \in [Msg -> 0..MaxDeliver]

\* js.Publish returned: the broker stored the message.  The broker stores an
\* equal message as another one; here it is the same, owed once.  Only the
\* run.started of a run that executes again after an outage is published a
\* second time: requests are made once, and so is a run.completed
\* (CompletionsPublishedOnce of RunPipeline).
Publish(m) ==
  /\ stream' = stream \union {m}
  /\ UNCHANGED <<settled, tries>>

\* Mutant: MaxDeliver left at its default, without a limit.
DeliverableForever(m) == m \in stream \ settled

\* The durable still owes m and has attempts left.  A message whose last
\* attempt was not acked stays in the stream and is never delivered again.
Deliverable(m) == m \in stream \ settled /\ tries[m] < MaxDeliver

Deliver(m) ==
  /\ Deliverable(m)
  /\ tries' = [tries EXCEPT ![m] = @ + 1]
  /\ UNCHANGED <<stream, settled>>

\* The handler returned nil.
Ack(m) ==
  /\ settled' = settled \union {m}
  /\ UNCHANGED <<stream, tries>>

\* The handler returned an error (Nak), or its ack never reached the broker:
\* the message stays owed.
Nak == UNCHANGED <<stream, settled, tries>>
=============================================================================
