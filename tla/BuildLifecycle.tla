--------------------------- MODULE BuildLifecycle ---------------------------
(***************************************************************************)
(* What the platform promises about a build, without the bus, the Jobs,    *)
(* the builders or their contexts: a submitted build may be seen running   *)
(* and gets one verdict; it succeeds only after every step has passed, and *)
(* in the same instant becomes the image of its agent; an open build may   *)
(* expire.  An agent that is deleted takes its builds and its image along, *)
(* and neither comes back.                                                 *)
(***************************************************************************)
CONSTANTS Builds, Agents, AgentOf, NoImage

VARIABLES status,   \* what GET /v1/builds/{id} answers
          image,    \* the build each agent's image comes from
          passed,   \* builds all of whose steps have succeeded
          gone      \* deleted agents

Verdicts == {"succeeded", "failed", "blocked"}
Open == {"pending", "running"}

Init ==
  /\ status = [b \in Builds |-> "absent"]
  /\ image = [a \in Agents |-> NoImage]
  /\ passed = {} /\ gone = {}

Submit(b) ==
  /\ status[b] = "absent" /\ AgentOf[b] \notin gone
  /\ status' = [status EXCEPT ![b] = "pending"]
  /\ UNCHANGED <<image, passed, gone>>

Begin(b) ==
  /\ status[b] = "pending"
  /\ status' = [status EXCEPT ![b] = "running"]
  /\ UNCHANGED <<image, passed, gone>>

Pass(b) ==
  /\ passed' = passed \union {b}
  /\ UNCHANGED <<status, image, gone>>

Succeed(b) ==
  /\ status[b] \in Open /\ b \in passed
  /\ status' = [status EXCEPT ![b] = "succeeded"]
  /\ image' = [image EXCEPT ![AgentOf[b]] = b]
  /\ UNCHANGED <<passed, gone>>

Refuse(b, verdict) ==
  /\ status[b] \in Open
  /\ status' = [status EXCEPT ![b] = verdict]
  /\ UNCHANGED <<image, passed, gone>>

Expire(S) ==
  /\ \A b \in S : status[b] \in Open
  /\ status' = [b \in Builds |-> IF b \in S THEN "failed" ELSE status[b]]
  /\ UNCHANGED <<image, passed, gone>>

Discard(a) ==
  /\ gone' = gone \union {a}
  /\ image' = [image EXCEPT ![a] = NoImage]
  /\ status' = [b \in Builds |->
                  IF AgentOf[b] = a /\ status[b] # "absent"
                    THEN "deleted" ELSE status[b]]
  /\ UNCHANGED passed

Next ==
  \/ \E b \in Builds :
       \/ Submit(b) \/ Begin(b) \/ Pass(b) \/ Succeed(b)
       \/ \E v \in Verdicts \ {"succeeded"} : Refuse(b, v)
  \/ \E S \in SUBSET Builds : Expire(S)
  \/ \E a \in Agents : Discard(a)

Spec == Init /\ [][Next]_<<status, image, passed, gone>>
=============================================================================
