\* A terminal phase is written and its event is never published.
SPECIFICATION Spec
CONSTANTS
  r1 = r1
  a1 = a1
  Runs = {r1}
  Agents = {a1}
  AgentOf <- MCAgentOf
  SourceOf <- MCWebhook
  Deletable = {}
  Controllers = {c1}
  Workers = {w1}
  MaxDeliver = 2
  MaxExecs = 2
  MaxFaults = 1
  FaultKinds = {"publish", "ctl_crash"}
INVARIANT
  TerminalIsPublished
\* Every run may have ended.
CHECK_DEADLOCK FALSE
