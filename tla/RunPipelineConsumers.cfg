\* One controller and two status workers: handlers that outlive
\* AckWait, failing writes, lost usage rows, and an outage of the controller.
SPECIFICATION Spec
CONSTANTS
  r1 = r1
  a1 = a1
  Runs = {r1}
  Agents = {a1}
  AgentOf <- MCAgentOf
  SourceOf <- MCManual
  Deletable = {a1}
  Controllers = {c1}
  Workers = {w1, w2}
  MaxDeliver = 2
  MaxExecs = 2
  MaxFaults = 2
  FaultKinds = {"kube","meter","ctl_crash","outage","slow"}
SYMMETRY Replicas
INVARIANTS
  SettledIsApplied
  MeteredOnce
  AnnouncedIsDurable
  SecretOutlivesRow
  StartTimesAgree
\* Every run may have ended.
CHECK_DEADLOCK FALSE
