\* One build with every step switched on, two builders, a second delivery, and
\* any three faults.  Builds end and nobody asks for another: no deadlock check.
SPECIFICATION Spec
CONSTANTS
  a1 = a1
  Builds = {b1}
  Agents = {a1}
  AgentOf <- MCAgentOf
  Builders = {w1, w2}
  TrivyEnabled = TRUE
  CosignEnabled = TRUE
  MaxDeliver = 2
  FaultKinds = {"db", "slow", "kube", "publish", "ack_lost", "builder_crash", "outage"}
  MaxFaults = 3
INVARIANTS
  TypeOK
  SuccessIsEarned
  ImageIsRecorded
PROPERTIES
  VerdictsStand
  ImplementsLifecycle
  BuildsEnd
CHECK_DEADLOCK FALSE
