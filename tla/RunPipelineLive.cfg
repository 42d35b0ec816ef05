\* The faults the pipeline rides out: every accepted run still ends.
SPECIFICATION FairSpec
CONSTANTS
  r1 = r1
  a1 = a1
  Runs = {r1}
  Agents = {a1}
  AgentOf <- MCAgentOf
  SourceOf <- MCWebhook
  Deletable = {}
  Controllers = {c1}
  Workers = {w1}
  MaxDeliver = 3
  MaxExecs = 2
  MaxFaults = 2
  FaultKinds = {"db","kube","api_crash","ack_lost"}
INVARIANT
  SettledIsMetered
PROPERTY
  AcceptedRunsEnd
\* Every run may have ended.
CHECK_DEADLOCK FALSE
