----------------------------- MODULE NetRegistry -----------------------------
(***************************************************************************)
(* VirtualNetworkRegistry of netservice/registry.py: which network         *)
(* namespace ("container", one per pod) holds which virtual address, and   *)
(* which of its processes listens on which virtual port.                   *)
(*                                                                         *)
(* Every public method runs under one re-entrant lock, so a method is one  *)
(* action, except _ensure_container on an unknown container: it registers  *)
(* its interfaces one after the other and any of them may raise, leaving   *)
(* what the earlier ones did.  That method is a registration in progress   *)
(* (`pending`), and no other method runs until it ends: the lock is held.  *)
(*                                                                         *)
(* Abstracted: prefix length, MAC, MTU and DNS of an interface; the real   *)
(* loopback address behind a mapping; a port stands for a port together    *)
(* with its protocol; a subnet is the set of its host addresses.           *)
(***************************************************************************)
EXTENDS Naturals, Sequences

CONSTANTS
  Networks,       \* network names
  Containers,     \* container_id of a network namespace
  Pids,           \* tracee pids that register in a namespace
  IPs,            \* unicast addresses, ordered as numbers
  Loopback,       \* an address for which is_loopback_ip holds
  AnyIp,          \* no address given, or 0.0.0.0 in a bind
  Ports,          \* (virtual port, protocol)
  IfNames,        \* interface names
  Definitions,    \* the subnets and gateways a definition may name
  SubnetOfName,   \* deterministic_subnet
  SubnetOfIp,     \* the subnet around an explicit address
  Requests,       \* the interface lists a client may send
  NoNet, Free, NoPid, NoReg, Shared   \* None, in its various roles

InterfaceRequest == [name : IfNames, network : Networks, ip : IPs \cup {AnyIp}]
Interface == [name : IfNames, network : Networks, ip : IPs]
NetworkState == [subnet : SUBSET IPs, gateway : IPs]
PortMapping == [network : Networks, scope : Containers \cup {Shared},
                ip : IPs \cup {Loopback}, port : Ports,
                cid : Containers, pid : Pids]
Registration == [cid : Containers, pid : Pids \cup {NoPid},
                 todo : Seq(InterfaceRequest), done : SUBSET Interface]

ASSUME AddressAssumption ==
  /\ IPs \subseteq Nat
  /\ Loopback \notin IPs /\ AnyIp \notin IPs /\ AnyIp # Loopback
ASSUME SubnetAssumption ==
  /\ Definitions \subseteq NetworkState
  /\ SubnetOfName \in [Networks -> (SUBSET IPs) \ {{}}]
  /\ SubnetOfIp \in [IPs -> (SUBSET IPs) \ {{}}]
ASSUME RequestAssumption == Requests \subseteq Seq(InterfaceRequest)
ASSUME NoneAssumption ==
  /\ NoNet \notin NetworkState /\ Free \notin Containers
  /\ NoPid \notin Pids /\ NoReg \notin Registration
  /\ Shared \notin Containers

VARIABLES
  networks,     \* name -> its subnet and gateway, or NoNet
  byIp,         \* NetworkState.interfaces_by_ip: who holds each address
  registered,   \* the keys of self.containers
  pids,         \* ContainerRecord.pids
  leased,       \* the containers with ContainerRecord.leased
  ifs,          \* ContainerRecord.interfaces
  ports,        \* the values of self.ports
  peers,        \* self.peered_networks as a relation
  pending       \* the _ensure_container call that holds the lock, or NoReg

regVars == <<networks, byIp, registered, pids, leased, ifs, ports, peers, pending>>

TypeOK ==
  /\ networks \in [Networks -> NetworkState \cup {NoNet}]
  /\ byIp \in [Networks -> [IPs -> Containers \cup {Free}]]
  /\ registered \subseteq Containers
  /\ pids \in [Containers -> SUBSET Pids]
  /\ leased \subseteq Containers
  /\ ifs \in [Containers -> SUBSET Interface]
  /\ ports \subseteq PortMapping
  /\ peers \subseteq Networks \X Networks
  /\ pending \in Registration \cup {NoReg}

Init ==
  /\ networks = [n \in Networks |-> NoNet]
  /\ byIp = [n \in Networks |-> [a \in IPs |-> Free]]
  /\ registered = {}
  /\ pids = [c \in Containers |-> {}]
  /\ leased = {}
  /\ ifs = [c \in Containers |-> {}]
  /\ ports = {}
  /\ peers = {}
  /\ pending = NoReg

-----------------------------------------------------------------------------
(* Helpers of the methods.                                                 *)

Defined(n) == networks[n] # NoNet
Unlocked == pending = NoReg

(* The first of subnet.hosts() that passes a test: a set of at most one.   *)
LowestOf(S) == {a \in S : \A b \in S : a <= b}

VirtualKey(m) == <<m.network, m.scope, m.ip, m.port>>

(* _network_for: the network itself, or the one created on first use.      *)
NetworkFor(r) ==
  IF Defined(r.network) THEN {networks[r.network]}
  ELSE LET s == IF r.ip = AnyIp THEN SubnetOfName[r.network] ELSE SubnetOfIp[r.ip]
       IN  {[subnet |-> s, gateway |-> g] : g \in LowestOf(s)}

(* _allocate_ip: addresses of the subnet that are not in use.              *)
FreeAddresses(n, net) == {a \in net.subnet \ {net.gateway} : byIp[n][a] = Free}

(* Mutant: an explicit address is not looked up in interfaces_by_ip.       *)
AddressForUnchecked(c, r, net) ==
  IF r.ip = AnyIp THEN LowestOf(FreeAddresses(r.network, net)) ELSE {r.ip} \ {net.gateway}

(* The address _register_interface gives c: none when it raises.  An       *)
(* explicit address need not lie in the subnet.                            *)
AddressFor(c, r, net) ==
  IF r.ip = AnyIp THEN LowestOf(FreeAddresses(r.network, net))
  ELSE {a \in {r.ip} \ {net.gateway} : byIp[r.network][a] \in {Free, c}}

-----------------------------------------------------------------------------
(* Networks and peerings.                                                  *)

DefineNetwork(n, definition) ==
  /\ Unlocked /\ ~Defined(n)
  /\ definition.gateway \in definition.subnet
  /\ networks' = [networks EXCEPT ![n] = definition]
  /\ UNCHANGED <<byIp, registered, pids, leased, ifs, ports, peers, pending>>

(* Mutant: only the network's own entry is deleted.                        *)
RemoveNetworkOnly(n) ==
  /\ Unlocked /\ Defined(n)
  /\ networks' = [networks EXCEPT ![n] = NoNet]
  /\ byIp' = [byIp EXCEPT ![n] = [a \in IPs |-> Free]]
  /\ UNCHANGED <<registered, pids, leased, ifs, ports, peers, pending>>

RemoveNetwork(n) ==
  /\ Unlocked /\ Defined(n)
  /\ networks' = [networks EXCEPT ![n] = NoNet]
  /\ byIp' = [byIp EXCEPT ![n] = [a \in IPs |-> Free]]
  /\ ifs' = [c \in Containers |-> {i \in ifs[c] : i.network # n}]
  /\ ports' = {m \in ports : m.network # n}
  /\ peers' = {p \in peers : p[1] # n /\ p[2] # n}
  /\ UNCHANGED <<registered, pids, leased, pending>>

PeerNetworks(source, target) ==
  /\ Unlocked /\ Defined(source) /\ Defined(target) /\ source # target
  /\ peers' = peers \cup {<<source, target>>}
  /\ UNCHANGED <<networks, byIp, registered, pids, leased, ifs, ports, pending>>

UnpeerNetworks(source, target) ==
  /\ Unlocked
  /\ peers' = peers \ {<<source, target>>}
  /\ UNCHANGED <<networks, byIp, registered, pids, leased, ifs, ports, pending>>

-----------------------------------------------------------------------------
(* Containers.  pid = NoPid is allocate_container, which takes the lease;  *)
(* otherwise it is register_container.                                     *)

(* _validate_existing_interfaces does not raise.                           *)
SameInterfaces(c, request) ==
  \A k \in DOMAIN request : \E i \in ifs[c] :
     /\ i.name = request[k].name /\ i.network = request[k].network
     /\ request[k].ip \in {AnyIp, i.ip}

EnsureKnown(c, pid, request) ==
  /\ Unlocked /\ c \in registered
  /\ SameInterfaces(c, request)
  /\ pids' = IF pid = NoPid THEN pids ELSE [pids EXCEPT ![c] = @ \cup {pid}]
  /\ leased' = IF pid = NoPid THEN leased \cup {c} ELSE leased
  /\ UNCHANGED <<networks, byIp, registered, ifs, ports, peers, pending>>

(* Mutant: a known container is registered anew.                           *)
BeginEnsureAnew(c, pid, request) ==
  /\ Unlocked
  /\ pending' = [cid |-> c, pid |-> pid, todo |-> request, done |-> {}]
  /\ UNCHANGED <<networks, byIp, registered, pids, leased, ifs, ports, peers>>

BeginEnsure(c, pid, request) ==
  /\ Unlocked /\ c \notin registered
  /\ pending' = [cid |-> c, pid |-> pid, todo |-> request, done |-> {}]
  /\ UNCHANGED <<networks, byIp, registered, pids, leased, ifs, ports, peers>>

RegisterInterface ==
  /\ ~Unlocked /\ pending.todo # <<>>
  /\ LET r == Head(pending.todo) IN
     \E net \in NetworkFor(r) : \E a \in AddressFor(pending.cid, r, net) :
        /\ networks' = [networks EXCEPT ![r.network] = net]
        /\ byIp' = [byIp EXCEPT ![r.network] = [@ EXCEPT ![a] = pending.cid]]
        /\ pending' = [pending EXCEPT
             !.todo = Tail(pending.todo),
             !.done = @ \cup {[name |-> r.name, network |-> r.network, ip |-> a]}]
  /\ UNCHANGED <<registered, pids, leased, ifs, ports, peers>>

(* An interface is refused: the network created for it and the addresses   *)
(* taken by the interfaces before it stay, the container is not recorded.  *)
RefuseInterface ==
  /\ ~Unlocked /\ pending.todo # <<>>
  /\ LET r == Head(pending.todo) IN
     \E net \in NetworkFor(r) :
        /\ AddressFor(pending.cid, r, net) = {}
        /\ networks' = [networks EXCEPT ![r.network] = net]
  /\ pending' = NoReg
  /\ UNCHANGED <<byIp, registered, pids, leased, ifs, ports, peers>>

(* Mutant: a registration by a tracer takes the lease, too.                *)
FinishEnsureLeased ==
  /\ ~Unlocked /\ pending.todo = <<>>
  /\ registered' = registered \cup {pending.cid}
  /\ pids' = [pids EXCEPT ![pending.cid] = {pending.pid} \ {NoPid}]
  /\ leased' = leased \cup {pending.cid}
  /\ ifs' = [ifs EXCEPT ![pending.cid] = pending.done]
  /\ pending' = NoReg
  /\ UNCHANGED <<networks, byIp, ports, peers>>

FinishEnsure ==
  /\ ~Unlocked /\ pending.todo = <<>>
  /\ registered' = registered \cup {pending.cid}
  /\ pids' = [pids EXCEPT ![pending.cid] = {pending.pid} \ {NoPid}]
  /\ leased' = IF pending.pid = NoPid THEN leased \cup {pending.cid} ELSE leased
  /\ ifs' = [ifs EXCEPT ![pending.cid] = pending.done]
  /\ pending' = NoReg
  /\ UNCHANGED <<networks, byIp, ports, peers>>

ReleaseContainer(c) ==
  /\ Unlocked /\ c \in registered
  /\ registered' = registered \ {c}
  /\ pids' = [pids EXCEPT ![c] = {}]
  /\ leased' = leased \ {c}
  /\ ifs' = [ifs EXCEPT ![c] = {}]
  /\ byIp' = [n \in Networks |-> [a \in IPs |->
        IF \E i \in ifs[c] : i.network = n /\ i.ip = a THEN Free ELSE byIp[n][a]]]
  /\ ports' = {m \in ports : m.cid # c}
  /\ UNCHANGED <<networks, peers, pending>>

(* Mutant: the ports of the pid stay.                                      *)
UnregisterPidKeepsPorts(c, pid) ==
  /\ Unlocked /\ c \in registered
  /\ pids[c] \ {pid} # {} \/ c \in leased
  /\ pids' = [pids EXCEPT ![c] = @ \ {pid}]
  /\ UNCHANGED <<networks, byIp, registered, leased, ifs, ports, peers, pending>>

(* unregister_container with a pid that is not the last user, or of a      *)
(* leased namespace.                                                       *)
UnregisterPid(c, pid) ==
  /\ Unlocked /\ c \in registered
  /\ pids[c] \ {pid} # {} \/ c \in leased
  /\ pids' = [pids EXCEPT ![c] = @ \ {pid}]
  /\ ports' = {m \in ports : ~(m.cid = c /\ m.pid = pid)}
  /\ UNCHANGED <<networks, byIp, registered, leased, ifs, peers, pending>>

(* Mutant: the last pid takes a leased namespace with it.                  *)
UnregisterLastLeased(c, pid) ==
  /\ pid = NoPid \/ pids[c] \ {pid} = {}
  /\ ReleaseContainer(c)

(* unregister_container that ends in release_container: the last pid, or   *)
(* no pid given.                                                           *)
UnregisterLast(c, pid) ==
  /\ pid = NoPid \/ (pids[c] \ {pid} = {} /\ c \notin leased)
  /\ ReleaseContainer(c)

-----------------------------------------------------------------------------
(* Ports.                                                                  *)

(* Mutant: a bind to 0.0.0.0 is recorded as such.                          *)
MappingForWildcard(c, pid, i, address, port) ==
  [network |-> i.network, scope |-> IF address = Loopback THEN c ELSE Shared,
   ip |-> address, port |-> port, cid |-> c, pid |-> pid]

(* bind_port on the interface i of c.                                      *)
MappingFor(c, pid, i, address, port) ==
  [network |-> i.network,
   scope   |-> IF address = Loopback THEN c ELSE Shared,
   ip      |-> IF address = AnyIp THEN i.ip ELSE address,
   port    |-> port, cid |-> c, pid |-> pid]

BindPort(c, pid, i, address, port) ==
  LET m == MappingFor(c, pid, i, address, port) IN
  /\ Unlocked /\ c \in registered /\ i \in ifs[c]
  /\ address \in {AnyIp, Loopback, i.ip}
  /\ VirtualKey(m) \notin {VirtualKey(x) : x \in ports}
  /\ ports' = ports \cup {m}
  /\ UNCHANGED <<networks, byIp, registered, pids, leased, ifs, peers, pending>>

(* release_port_mapping pops by key, whoever holds that key by now.        *)
ReleasePortMapping(m) ==
  /\ Unlocked
  /\ ports' = {x \in ports : VirtualKey(x) # VirtualKey(m)}
  /\ UNCHANGED <<networks, byIp, registered, pids, leased, ifs, peers, pending>>

(* Mutant: the loopback scope is not part of the key.                      *)
LookupUnscoped(n, scope, address, port) ==
  {m \in ports : m.network = n /\ m.ip = address /\ m.port = port}

(* route_connect: the mappings it may return for a connect of c.  Peered   *)
(* networks are searched in the order of a set, hence the choice.          *)
Lookup(n, scope, address, port) ==
  {m \in ports : VirtualKey(m) = <<n, scope, address, port>>}

HoldsAddress(n, address) == address \in IPs /\ byIp[n][address] # Free

EnsureSourceNetwork(c, n) ==
  /\ c \in registered
  /\ Defined(n) /\ \E i \in ifs[c] : i.network = n

RouteConnect(c, n, address, port) ==
  IF ~EnsureSourceNetwork(c, n) THEN {}
  ELSE IF address = Loopback THEN Lookup(n, c, Loopback, port)
  ELSE IF HoldsAddress(n, address) THEN Lookup(n, Shared, address, port)
  ELSE UNION {Lookup(t, Shared, address, port) :
                t \in {u \in Networks : <<n, u>> \in peers /\ Defined(u)
                                          /\ HoldsAddress(u, address)}}

-----------------------------------------------------------------------------
Next ==
  \/ \E n \in Networks, d \in Definitions : DefineNetwork(n, d)
  \/ \E n \in Networks : RemoveNetwork(n)
  \/ \E n, t \in Networks : PeerNetworks(n, t) \/ UnpeerNetworks(n, t)
  \/ \E c \in Containers, pid \in Pids \cup {NoPid}, request \in Requests :
        EnsureKnown(c, pid, request) \/ BeginEnsure(c, pid, request)
  \/ RegisterInterface
  \/ RefuseInterface
  \/ FinishEnsure
  \/ \E c \in Containers : ReleaseContainer(c)
  \/ \E c \in Containers, pid \in Pids : UnregisterPid(c, pid)
  \/ \E c \in Containers, pid \in Pids \cup {NoPid} : UnregisterLast(c, pid)
  \/ \E c \in Containers, pid \in Pids, port \in Ports :
        \E i \in ifs[c], address \in {AnyIp, Loopback} \cup IPs :
           BindPort(c, pid, i, address, port)
  \/ \E m \in ports : ReleasePortMapping(m)

Spec == Init /\ [][Next]_regVars

-----------------------------------------------------------------------------
(* Properties.                                                             *)

(* Two namespaces never hold the same address of a network, whether they   *)
(* are recorded or one is still being registered, and however often the    *)
(* network was removed and redefined in between: _register_interface tests *)
(* interfaces_by_ip, which four methods maintain.                          *)
InterfacesOf(c) == ifs[c] \cup
  (IF pending # NoReg /\ pending.cid = c THEN pending.done ELSE {})

AddressHeldOnce ==
  \A c, d \in Containers : c # d =>
    \A i \in InterfacesOf(c), j \in InterfacesOf(d) :
      i.network = j.network => i.ip # j.ip

(* What route_connect hands out is live and inside the virtual topology:   *)
(* the mapping belongs to a recorded namespace that still holds the        *)
(* address it listens on, in the source network or in one the source is    *)
(* peered with, and a loopback address only ever reaches the caller's own  *)
(* namespace.                                                              *)
RouteReachesHolder ==
  \A c \in Containers, n \in Networks, address \in IPs \cup {Loopback}, port \in Ports :
    \A m \in RouteConnect(c, n, address, port) :
      /\ m.cid \in registered
      /\ m.network = n \/ <<n, m.network>> \in peers
      /\ IF address = Loopback THEN m.cid = c
         ELSE \E i \in ifs[m.cid] : i.network = m.network /\ i.ip = address

(* peered_networks names only networks that exist: a redefined network     *)
(* does not inherit the routes of the one removed before it.               *)
PeersDefined == \A p \in peers : Defined(p[1]) /\ Defined(p[2])

(* A network starts empty: defining one (by command or on first use) never *)
(* brings back addresses or port mappings of a removed network of the same *)
(* name, except the address of the interface that creates it.              *)
FreshNetworkIsEmpty ==
  [][\A n \in Networks : ~Defined(n) /\ networks'[n] # NoNet =>
       /\ \A m \in ports' : m.network # n
       /\ \A c \in Containers : \A i \in ifs'[c] : i.network # n
       /\ \A a \in IPs : \/ byIp'[n][a] = Free
                          \/ (pending # NoReg /\ byIp'[n][a] = pending.cid)]_regVars

(* A leased namespace (a pod) keeps its addresses while its processes come *)
(* and go: only releasing it or removing the network takes one away, and   *)
(* no registration ever adds or moves one.                                 *)
LeaseKeepsAddresses ==
  [][\A c \in leased :
       \/ c \notin registered'
       \/ /\ c \in leased'
          /\ ifs'[c] \subseteq ifs[c]
          /\ \A i \in ifs[c] \ ifs'[c] : networks'[i.network] = NoNet]_regVars
=============================================================================
