--------------------------- MODULE MCDeployments ---------------------------
(* Instances of Deployments and Gateway for TLC. *)
EXTENDS Gateway

CONSTANT d1

\* The agent of d1 sets no port, that of the other deploys another one.
MCPortOf == [d \in Deploys |-> IF d = d1 THEN 0 ELSE 9000]
=============================================================================
