\* The shortest life of a deployment: one agent, one deploy, no fault.
SPECIFICATION RemovalSpec
CONSTANTS
  Deploys = {d1}
  PortOf <- MCOnePort
  Stops = {}
  MaxDeliver = 2
  MaxEvents = 1
  FaultKinds = {}
  MaxFaults = 0
PROPERTY DeletedAgentsAreStopped
CHECK_DEADLOCK FALSE
