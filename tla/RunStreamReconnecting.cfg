\* A client that reconnects, two replicas of which one handles events,
\* and whatever a stream can miss.
SPECIFICATION FairSpec
CONSTANTS
  r1 = r1
  a1 = a1
  w1 = w1
  h1 = h1
  h2 = h2
  v1 = v1
  Runs = {r1}
  Agents = {a1}
  AgentOf <- MCAgentOf
  Workers = {w1}
  Replicas = {h1, h2}
  ReplicaOf <- MCReplicaOf
  Viewers = {v1}
  Watched <- MCWatched
  Reconnects = TRUE
  BufferSize = 1
  MaxDeliver = 2
  MaxExecs = 1
  MaxFaults = 1
  FaultKinds = {"db", "nats", "api_crash"}
INVARIANTS
  TypeOK
  NewsIsTrue
PROPERTIES
  TheEndIsLast
  ViewersLearnTheEnd
CHECK_DEADLOCK FALSE
