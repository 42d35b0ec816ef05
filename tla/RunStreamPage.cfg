\* The web console: one snapshot, one stream.
SPECIFICATION FairSpec
CONSTANTS
  r1 = r1
  a1 = a1
  w1 = w1
  h1 = h1
  h2 = h2
  v1 = v1
  Runs = {r1}
  Agents = {a1}
  AgentOf <- MCAgentOf
  Workers = {w1, w2}
  Replicas = {h1, h2}
  ReplicaOf <- MCReplicaOf
  Viewers = {v1}
  Watched <- MCWatched
  Reconnects = FALSE
  BufferSize = 1
  MaxDeliver = 2
  MaxExecs = 1
  MaxFaults = 0
  FaultKinds = {}
PROPERTY
  ViewersLearnTheEnd
CHECK_DEADLOCK FALSE
