------------------------------ MODULE Gateway ------------------------------
(***************************************************************************)
(* cmd/gateway on top of the deployments it routes to.  The gateway reads  *)
(* the AgentDeployment of a host from the api-server, remembers its        *)
(* address for the time-to-live of the cache (5 seconds) and proxies to    *)
(* it.  Requests are served concurrently: a lookup that misses the cache   *)
(* reads the object without a lock and writes the cache afterwards.        *)
(*                                                                         *)
(* One host is modelled, that of the agents' common name: the cache keeps  *)
(* one entry for each host and never mixes them.                           *)
(***************************************************************************)
EXTENDS Deployments

CONSTANT MaxLookups   \* bound: addresses that lookups in flight have read

ASSUME LookupsAssumption == MaxLookups \in Nat

VARIABLES route,     \* the port the cache answers with, or NoRoute
          fetched    \* ports read by lookups that have not cached them yet

gatewayVars == <<route, fetched>>
systemVars == <<vars, gatewayVars>>

NoRoute == 0

GatewayTypeOK ==
  /\ TypeOK
  /\ route \in Ports \union {NoRoute}
  /\ fetched \in SUBSET Ports

GatewayInit == Init /\ route = NoRoute /\ fetched = {}

\* resolve after a miss: the object's port, or 404 and nothing changes.
Lookup ==
  /\ route = NoRoute /\ Cardinality(fetched) < MaxLookups
  /\ cr # Absent
  /\ fetched' = fetched \union {PortOrDefault(Port(cr.spec))}
  /\ UNCHANGED <<vars, route>>

\* cache.put: the time-to-live starts here, not at the read.
Put(port) ==
  /\ port \in fetched
  /\ route' = port
  /\ fetched' = fetched \ {port}
  /\ UNCHANGED vars

\* Mutant: an entry is used whatever its expiry.
NeverExpires == FALSE /\ UNCHANGED systemVars

\* The time-to-live has passed: cache.get no longer finds the entry.
Expire ==
  /\ route # NoRoute
  /\ route' = NoRoute
  /\ UNCHANGED <<vars, fetched>>

GatewayStep == Lookup \/ (\E port \in Ports : Put(port)) \/ Expire

GatewayNext == (Next /\ UNCHANGED gatewayVars) \/ GatewayStep

\* Time passes.  A lookup need not end: one that never does caches nothing.
GatewaySpec ==
  /\ GatewayInit
  /\ [][GatewayNext]_systemVars
  /\ Fairness
  /\ WF_systemVars(Expire)

-----------------------------------------------------------------------------
\* The cache catches up with the cluster: once the deployments have settled,
\* the gateway stops using the address of a deployment that has been stopped,
\* or the port of the one it replaced, although a slow lookup may put such an
\* address back after the object has changed.
RoutesCatchUp ==
  <>[](route # NoRoute => cr # Absent /\ route = Port(cr.spec))
=============================================================================
