----------------------------- MODULE MCNetService -----------------------------
(***************************************************************************)
(* Small instances of NetService: one pod network, one published port, two *)
(* pods with up to three tracers, one bind each.                           *)
(***************************************************************************)
EXTENDS NetService, TLC

CONSTANTS podnet, c1, c2, t1, t2, t3, eth0, h1, h2, http

MCDefinitions == {[subnet |-> IPs, gateway |-> 1]}
MCSubnetOfName == [n \in Networks |-> IPs]
MCSubnetOfIp == [a \in IPs |-> IPs]
MCRequests == {<<[name |-> eth0, network |-> podnet, ip |-> a]>> : a \in IPs \cup {AnyIp}}

WebRule == [host |-> h1, port |-> http]

\* two tracers of one pod (a container and an exec), one of another pod
ThreeTracers == (t1 :> c1) @@ (t2 :> c1) @@ (t3 :> c2)
TwoTracers == (t1 :> c1) @@ (t2 :> c1)
OneTracer == t1 :> c1
OneEach == (t1 :> c1) @@ (t2 :> c2)

\* both pods ask for the same host port
SameHostPort == [c \in Containers |-> {WebRule}]
NothingPublished == [c \in Containers |-> {}]
OperatorRule == {WebRule}
=============================================================================
