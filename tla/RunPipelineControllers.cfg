\* Two controller replicas and one status worker: controller and lease faults.
\* A message is delivered once here; the other runs redeliver.
SPECIFICATION Spec
CONSTANTS
  r1 = r1
  a1 = a1
  Runs = {r1}
  Agents = {a1}
  AgentOf <- MCAgentOf
  SourceOf <- MCCron
  Deletable = {}
  Controllers = {c1, c2}
  Workers = {w1}
  MaxDeliver = 1
  MaxExecs = 2
  MaxFaults = 2
  FaultKinds = {"publish","kube_reply","ctl_crash","leader"}
SYMMETRY Replicas
INVARIANTS
  TypeOK
  ExecutesOnce
  CompletionsAreTrue
  CompletionsPublishedOnce
PROPERTY
  ImplementsLifecycle
\* Every run may have ended.
CHECK_DEADLOCK FALSE
