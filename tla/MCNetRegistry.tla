---------------------------- MODULE MCNetRegistry ----------------------------
(***************************************************************************)
(* Small instances of NetRegistry.  The subnets of the two networks are    *)
(* the same, so one address may exist in both; a network created on first  *)
(* use has one host address to give, a defined one has two.                *)
(***************************************************************************)
EXTENDS NetRegistry, TLC

CONSTANTS front, back, c1, c2, p1, eth0, eth1

\* the second definition is refused: its gateway is outside the subnet
MCDefinitions == {[subnet |-> {1, 2, 3}, gateway |-> 1],
                  [subnet |-> {1, 2}, gateway |-> 3]}
MCSubnetOfName == [n \in Networks |-> {1, 2}]
MCSubnetOfIp == [a \in IPs |-> {1, 2, 3}]

Ask(name, network, ip) == [name |-> name, network |-> network, ip |-> ip]

\* one automatic address, one explicit address, two interfaces in one request
TwoNetworkRequests ==
  { <<Ask(eth0, front, AnyIp)>>,
    <<Ask(eth0, front, 3)>>,
    <<Ask(eth0, front, AnyIp), Ask(eth1, back, AnyIp)>> }

Symmetry == Permutations({c1, c2})
=============================================================================
