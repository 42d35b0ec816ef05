\* One build of one step, one builder, and nothing fails.
SPECIFICATION Spec
CONSTANTS
  a1 = a1
  Builds = {b1}
  Agents = {a1}
  AgentOf <- MCAgentOf
  Builders = {w1}
  TrivyEnabled = FALSE
  CosignEnabled = FALSE
  MaxDeliver = 2
  FaultKinds = {}
  MaxFaults = 0
PROPERTY HealthyBuildsSucceed
CHECK_DEADLOCK FALSE
