\* Two deploys with different ports, an undeploy and one fault, of which any
\* three happen, in any order; two deliveries of each request.  A fault is a
\* Kubernetes write, an ack, the controller, or a rollout that moves the version
\* of the Deployment.  The users stop making requests, so the system may stop.
SPECIFICATION GatewaySpec
CONSTANTS
  d1 = d1
  Deploys = {d1, d2}
  PortOf <- MCPortOf
  Stops = {s1}
  MaxDeliver = 2
  MaxEvents = 3
  MaxLookups = 1
  FaultKinds = {"kube", "ack_lost", "ctl_crash", "rollout"}
  MaxFaults = 1
INVARIANTS
  GatewayTypeOK
  QuietRequestsWin
  IdleMeansSettled
PROPERTIES
  StatusIsOfTheSpec
  ClusterSettles
  RoutesCatchUp
CHECK_DEADLOCK FALSE
