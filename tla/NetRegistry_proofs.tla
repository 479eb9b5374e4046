-------------------------- MODULE NetRegistry_proofs --------------------------
(***************************************************************************)
(* TLAPS proofs about the virtual network registry: type correctness, and  *)
(* the inductive invariant from which the uniqueness of addresses, the     *)
(* soundness of routing and the consistency of peerings follow, for any    *)
(* networks, namespaces, addresses, subnets and requests.                  *)
(***************************************************************************)
EXTENDS NetRegistry, SequenceTheorems, TLAPS

(* A namespace without a record has nothing.                               *)
UnrecordedIsEmpty ==
  \A c \in Containers : c \notin registered =>
    pids[c] = {} /\ ifs[c] = {} /\ c \notin leased

(* A name that is not a network has no addresses; NetworkState is gone.    *)
UndefinedIsEmpty ==
  \A n \in Networks : ~Defined(n) => \A a \in IPs : byIp[n][a] = Free

(* interfaces_by_ip agrees with the interfaces of every record ...         *)
InterfacesBacked ==
  \A c \in Containers : \A i \in ifs[c] :
    Defined(i.network) /\ byIp[i.network][i.ip] = c

(* ... and with those of the registration that holds the lock.             *)
PendingBacked ==
  pending # NoReg =>
    /\ pending.cid \notin registered
    /\ \A i \in pending.done : Defined(i.network) /\ byIp[i.network][i.ip] = pending.cid

(* A mapping belongs to a record, and its address to that record.          *)
PortsBacked ==
  \A m \in ports :
    /\ m.cid \in registered /\ Defined(m.network)
    /\ \/ m.scope = m.cid /\ m.ip = Loopback
       \/ m.scope = Shared /\ \E i \in ifs[m.cid] : i.network = m.network /\ i.ip = m.ip

RegistryInv ==
  /\ TypeOK
  /\ UnrecordedIsEmpty
  /\ UndefinedIsEmpty
  /\ InterfacesBacked
  /\ PendingBacked
  /\ PortsBacked
  /\ PeersDefined

-----------------------------------------------------------------------------
(* What the pieces of an _ensure_container call return.                    *)

LEMMA RequestFields ==
  ASSUME TypeOK, pending # NoReg, pending.todo # <<>>
  PROVE  /\ pending \in Registration
         /\ Head(pending.todo) \in InterfaceRequest
         /\ Tail(pending.todo) \in Seq(InterfaceRequest)
<1>1. pending \in Registration
  BY DEF TypeOK
<1>2. pending.todo \in Seq(InterfaceRequest)
  BY <1>1 DEF Registration
<1> QED  BY <1>1, <1>2, HeadTailProperties

LEMMA NetworkForType ==
  ASSUME TypeOK, NEW r \in InterfaceRequest, NEW net \in NetworkFor(r)
  PROVE  net \in NetworkState
<1>1. CASE Defined(r.network)
  BY <1>1 DEF NetworkFor, TypeOK, Defined, InterfaceRequest
<1>2. CASE ~Defined(r.network)
  <2> DEFINE s == IF r.ip = AnyIp THEN SubnetOfName[r.network] ELSE SubnetOfIp[r.ip]
  <2>1. s \in SUBSET IPs
    BY SubnetAssumption DEF InterfaceRequest
  <2>2. PICK g \in LowestOf(s) : net = [subnet |-> s, gateway |-> g]
    BY <1>2 DEF NetworkFor
  <2>3. g \in IPs
    BY <2>1 DEF LowestOf
  <2> HIDE DEF s
  <2> QED  BY <2>1, <2>2, <2>3 DEF NetworkState
<1> QED  BY <1>1, <1>2

LEMMA AddressForType ==
  ASSUME TypeOK, NEW r \in InterfaceRequest, NEW net \in NetworkState,
         NEW c \in Containers, NEW a \in AddressFor(c, r, net)
  PROVE  /\ a \in IPs
         /\ byIp[r.network][a] \in {Free, c}
<1>1. CASE r.ip = AnyIp
  <2>1. a \in FreeAddresses(r.network, net)
    BY <1>1 DEF AddressFor, LowestOf
  <2> QED  BY <2>1 DEF FreeAddresses, NetworkState
<1>2. CASE r.ip # AnyIp
  BY <1>2 DEF AddressFor, InterfaceRequest
<1> QED  BY <1>1, <1>2

(* What a step of an _ensure_container call that takes an address does.    *)
InterfaceTaken(n, net, i) ==
  /\ pending \in Registration
  /\ i.network = n
  /\ byIp[n][i.ip] \in {Free, pending.cid}
  /\ Defined(n) => net = networks[n]
  /\ networks' = [networks EXCEPT ![n] = net]
  /\ byIp' = [byIp EXCEPT ![n] = [@ EXCEPT ![i.ip] = pending.cid]]
  /\ pending' = [pending EXCEPT !.todo = Tail(pending.todo), !.done = @ \cup {i}]
  /\ Tail(pending.todo) \in Seq(InterfaceRequest)

LEMMA RegisterInterfaceEffect ==
  ASSUME TypeOK, RegisterInterface
  PROVE  \E n \in Networks, net \in NetworkState, i \in Interface :
            InterfaceTaken(n, net, i)
<1> DEFINE r == Head(pending.todo)
<1>1. pending # NoReg /\ pending.todo # <<>>
  BY DEF RegisterInterface, Unlocked
<1>2. PICK net \in NetworkFor(r) : \E a \in AddressFor(pending.cid, r, net) :
        /\ networks' = [networks EXCEPT ![r.network] = net]
        /\ byIp' = [byIp EXCEPT ![r.network] = [@ EXCEPT ![a] = pending.cid]]
        /\ pending' = [pending EXCEPT
             !.todo = Tail(pending.todo),
             !.done = @ \cup {[name |-> r.name, network |-> r.network, ip |-> a]}]
  BY DEF RegisterInterface
<1>3. PICK a \in AddressFor(pending.cid, r, net) :
        /\ networks' = [networks EXCEPT ![r.network] = net]
        /\ byIp' = [byIp EXCEPT ![r.network] = [@ EXCEPT ![a] = pending.cid]]
        /\ pending' = [pending EXCEPT
             !.todo = Tail(pending.todo),
             !.done = @ \cup {[name |-> r.name, network |-> r.network, ip |-> a]}]
  BY <1>2
<1>4. /\ pending \in Registration /\ r \in InterfaceRequest
      /\ Tail(pending.todo) \in Seq(InterfaceRequest)
  BY <1>1, RequestFields
<1> HIDE DEF r
<1>5. net \in NetworkState
  BY <1>4, NetworkForType
<1>6. a \in IPs /\ byIp[r.network][a] \in {Free, pending.cid}
  BY <1>4, <1>5, AddressForType DEF Registration
<1>7. Defined(r.network) => net = networks[r.network]
  BY <1>2 DEF NetworkFor
<1> DEFINE i == [name |-> r.name, network |-> r.network, ip |-> a]
<1>8. i \in Interface /\ i.network = r.network /\ i.ip = a
  BY <1>4, <1>6 DEF Interface, InterfaceRequest
<1>9. InterfaceTaken(r.network, net, i)
  BY <1>3, <1>4, <1>6, <1>7, <1>8 DEF InterfaceTaken
<1> QED  BY <1>4, <1>5, <1>8, <1>9 DEF InterfaceRequest

-----------------------------------------------------------------------------
(* Type correctness.                                                       *)

LEMMA TypeStep == TypeOK /\ [Next]_regVars => TypeOK'
<1> SUFFICES ASSUME TypeOK, [Next]_regVars PROVE TypeOK'
  OBVIOUS
<1>1. ASSUME NEW n \in Networks, NEW d \in Definitions, DefineNetwork(n, d)
      PROVE  TypeOK'
  BY <1>1, SubnetAssumption DEF DefineNetwork, TypeOK
<1>2. ASSUME NEW n \in Networks, RemoveNetwork(n)
      PROVE  TypeOK'
  BY <1>2 DEF RemoveNetwork, TypeOK
<1>3. ASSUME NEW n \in Networks, NEW t \in Networks,
             PeerNetworks(n, t) \/ UnpeerNetworks(n, t)
      PROVE  TypeOK'
  BY <1>3 DEF PeerNetworks, UnpeerNetworks, TypeOK
<1>4. ASSUME NEW c \in Containers, NEW pid \in Pids \cup {NoPid},
             NEW request \in Requests, EnsureKnown(c, pid, request)
      PROVE  TypeOK'
  BY <1>4 DEF EnsureKnown, TypeOK
<1>5. ASSUME NEW c \in Containers, NEW pid \in Pids \cup {NoPid},
             NEW request \in Requests, BeginEnsure(c, pid, request)
      PROVE  TypeOK'
  <2>1. pending' \in Registration
    BY <1>5, RequestAssumption DEF BeginEnsure, Registration
  <2> QED  BY <1>5, <2>1 DEF BeginEnsure, TypeOK
<1>6. CASE RegisterInterface
  <2>1. PICK n \in Networks, net \in NetworkState, i \in Interface :
          InterfaceTaken(n, net, i)
    BY <1>6, RegisterInterfaceEffect
  <2>2. pending' \in Registration
    BY <2>1 DEF InterfaceTaken, Registration
  <2>3. networks' \in [Networks -> NetworkState \cup {NoNet}]
    BY <2>1 DEF InterfaceTaken, TypeOK
  <2>4. byIp' \in [Networks -> [IPs -> Containers \cup {Free}]]
    BY <2>1 DEF InterfaceTaken, TypeOK, Interface, Registration
  <2> QED  BY <1>6, <2>2, <2>3, <2>4 DEF RegisterInterface, TypeOK
<1>7. CASE RefuseInterface
  <2> DEFINE r == Head(pending.todo)
  <2>1. pending # NoReg /\ pending.todo # <<>>
    BY <1>7 DEF RefuseInterface, Unlocked
  <2>2. PICK net \in NetworkFor(r) : networks' = [networks EXCEPT ![r.network] = net]
    BY <1>7 DEF RefuseInterface
  <2>3. r \in InterfaceRequest
    BY <2>1, RequestFields
  <2> HIDE DEF r
  <2>4. net \in NetworkState
    BY <2>3, NetworkForType
  <2> QED  BY <1>7, <2>2, <2>3, <2>4 DEF RefuseInterface, TypeOK, InterfaceRequest
<1>8. CASE FinishEnsure
  <2>1. pending \in Registration
    BY <1>8 DEF FinishEnsure, TypeOK, Unlocked
  <2> QED  BY <1>8, <2>1 DEF FinishEnsure, TypeOK, Registration
<1>9. ASSUME NEW c \in Containers, ReleaseContainer(c)
      PROVE  TypeOK'
  BY <1>9 DEF ReleaseContainer, TypeOK
<1>10. ASSUME NEW c \in Containers, NEW pid \in Pids, UnregisterPid(c, pid)
       PROVE  TypeOK'
  BY <1>10 DEF UnregisterPid, TypeOK
<1>11. ASSUME NEW c \in Containers, NEW pid \in Pids, NEW port \in Ports,
              NEW i \in ifs[c], NEW address \in {AnyIp, Loopback} \cup IPs,
              BindPort(c, pid, i, address, port)
       PROVE  TypeOK'
  <2>1. i \in Interface
    BY DEF TypeOK
  <2>2. MappingFor(c, pid, i, address, port) \in PortMapping
    BY <2>1 DEF MappingFor, PortMapping, Interface
  <2> QED  BY <1>11, <2>2 DEF BindPort, TypeOK
<1>12. ASSUME NEW m \in ports, ReleasePortMapping(m)
       PROVE  TypeOK'
  BY <1>12 DEF ReleasePortMapping, TypeOK
<1>13. CASE UNCHANGED regVars
  BY <1>13 DEF regVars, TypeOK
<1> QED
  BY <1>1, <1>2, <1>3, <1>4, <1>5, <1>6, <1>7, <1>8, <1>9, <1>10, <1>11, <1>12, <1>13
  DEF Next, UnregisterLast

(* Every variable of the registry keeps its type, whatever the clients     *)
(* send: in particular every held address has a known holder.              *)
THEOREM RegistryTypeCorrect == Spec => []TypeOK
<1>1. Init => TypeOK
  BY DEF Init, TypeOK
<1> QED  BY <1>1, TypeStep, PTL DEF Spec

-----------------------------------------------------------------------------
(* The inductive invariant.  An address is free or held by exactly one     *)
(* record or by the registration in progress, and a mapping sits on an     *)
(* address its record holds: each method maintains both sides.             *)

LEMMA InvInit == Init => RegistryInv
<1> SUFFICES ASSUME Init PROVE RegistryInv
  OBVIOUS
<1>1. TypeOK
  BY DEF Init, TypeOK
<1> QED
  BY <1>1 DEF Init, RegistryInv, UnrecordedIsEmpty, UndefinedIsEmpty,
     InterfacesBacked, PendingBacked, PortsBacked, PeersDefined

LEMMA InvDefineNetwork ==
  ASSUME RegistryInv, NEW n \in Networks, NEW d \in Definitions, DefineNetwork(n, d)
  PROVE  RegistryInv'
<1>1. d # NoNet /\ TypeOK'
  <2>1. TypeOK /\ [Next]_regVars
    BY DEF RegistryInv, Next
  <2> QED  BY <2>1, TypeStep, SubnetAssumption, NoneAssumption
<1>2. \A k \in Networks : Defined(k) => Defined(k)'
  BY <1>1 DEF DefineNetwork, Defined, RegistryInv, TypeOK
<1>3. UNCHANGED <<byIp, registered, pids, leased, ifs, ports, peers, pending>>
  BY DEF DefineNetwork
<1>4. pending = NoReg
  BY DEF DefineNetwork, Unlocked
<1>5. UnrecordedIsEmpty'
  BY <1>3 DEF RegistryInv, UnrecordedIsEmpty
<1>6. UndefinedIsEmpty'
  BY <1>2, <1>3 DEF RegistryInv, UndefinedIsEmpty
<1>7. InterfacesBacked'
  BY <1>2, <1>3 DEF RegistryInv, InterfacesBacked, TypeOK, Interface
<1>8. PendingBacked'
  BY <1>3, <1>4 DEF PendingBacked
<1>9. PortsBacked'
  BY <1>2, <1>3 DEF RegistryInv, PortsBacked, TypeOK, PortMapping
<1>10. PeersDefined'
  BY <1>2, <1>3 DEF RegistryInv, PeersDefined, TypeOK
<1> QED
  BY <1>1, <1>5, <1>6, <1>7, <1>8, <1>9, <1>10 DEF RegistryInv

LEMMA InvRemoveNetwork ==
  ASSUME RegistryInv, NEW n \in Networks, RemoveNetwork(n)
  PROVE  RegistryInv'
<1> USE DEF RegistryInv, RemoveNetwork
<1>1. TypeOK'
  <2>1. TypeOK /\ [Next]_regVars
    BY DEF Next
  <2> QED  BY <2>1, TypeStep
<1>2. \A k \in Networks : k # n => networks'[k] = networks[k] /\ byIp'[k] = byIp[k]
  BY DEF TypeOK
<1>3. \A c \in Containers : \A i \in ifs'[c] : i \in ifs[c] /\ i.network # n
  BY DEF TypeOK
<1>4. UnrecordedIsEmpty'
  BY DEF UnrecordedIsEmpty
<1>5. UndefinedIsEmpty'
  <2> SUFFICES ASSUME NEW k \in Networks, ~Defined(k)', NEW a \in IPs
               PROVE  byIp'[k][a] = Free
    BY DEF UndefinedIsEmpty
  <2>1. CASE k = n
    BY <2>1 DEF TypeOK
  <2>2. CASE k # n
    BY <2>2, <1>2 DEF UndefinedIsEmpty, Defined
  <2> QED  BY <2>1, <2>2
<1>6. InterfacesBacked'
  BY <1>2, <1>3 DEF InterfacesBacked, Defined, TypeOK, Interface
<1>7. PendingBacked'
  BY DEF PendingBacked, Unlocked
<1>8. PortsBacked'
  <2> SUFFICES ASSUME NEW m \in ports, m.network # n
               PROVE  /\ m.cid \in registered /\ Defined(m.network)'
                      /\ \/ m.scope = m.cid /\ m.ip = Loopback
                         \/ m.scope = Shared /\ \E i \in ifs'[m.cid] :
                                i.network = m.network /\ i.ip = m.ip
    BY DEF PortsBacked
  <2>1. m.network \in Networks /\ m.cid \in Containers
    BY DEF TypeOK, PortMapping
  <2>2. \A i \in ifs[m.cid] : i.network # n => i \in ifs'[m.cid]
    BY <2>1
  <2> QED  BY <2>1, <2>2, <1>2 DEF PortsBacked, Defined
<1>9. PeersDefined'
  <2> SUFFICES ASSUME NEW p \in peers, p[1] # n, p[2] # n
               PROVE  Defined(p[1])' /\ Defined(p[2])'
    BY DEF PeersDefined
  <2>1. p[1] \in Networks /\ p[2] \in Networks
    BY DEF TypeOK
  <2> QED  BY <2>1, <1>2 DEF PeersDefined, Defined
<1> QED
  BY <1>1, <1>4, <1>5, <1>6, <1>7, <1>8, <1>9

LEMMA InvPeering ==
  ASSUME RegistryInv, NEW n \in Networks, NEW t \in Networks,
         PeerNetworks(n, t) \/ UnpeerNetworks(n, t)
  PROVE  RegistryInv'
<1>1. TypeOK'
  <2>1. TypeOK /\ [Next]_regVars
    BY DEF RegistryInv, Next
  <2> QED  BY <2>1, TypeStep
<1>2. UNCHANGED <<networks, byIp, registered, pids, leased, ifs, ports, pending>>
  BY DEF PeerNetworks, UnpeerNetworks
<1>3. PeersDefined'
  <2> SUFFICES ASSUME NEW p \in peers' PROVE Defined(p[1]) /\ Defined(p[2])
    BY <1>2 DEF PeersDefined, Defined
  <2>1. CASE p \in peers
    BY <2>1 DEF RegistryInv, PeersDefined
  <2>2. CASE p \notin peers
    BY <2>2 DEF PeerNetworks, UnpeerNetworks
  <2> QED  BY <2>1, <2>2
<1> QED
  BY <1>1, <1>2, <1>3 DEF RegistryInv, UnrecordedIsEmpty, UndefinedIsEmpty,
     InterfacesBacked, PendingBacked, PortsBacked, Defined

LEMMA InvEnsureKnown ==
  ASSUME RegistryInv, NEW c \in Containers, NEW pid \in Pids \cup {NoPid},
         NEW request \in Requests, EnsureKnown(c, pid, request)
  PROVE  RegistryInv'
<1>1. TypeOK'
  <2>1. TypeOK /\ [Next]_regVars
    BY DEF RegistryInv, Next
  <2> QED  BY <2>1, TypeStep
<1>2. UNCHANGED <<networks, byIp, registered, ifs, ports, peers, pending>>
  BY DEF EnsureKnown
<1>3. UnrecordedIsEmpty'
  <2> SUFFICES ASSUME NEW d \in Containers, d \notin registered
               PROVE  pids'[d] = {} /\ ifs[d] = {} /\ d \notin leased'
    BY <1>2 DEF UnrecordedIsEmpty
  <2>1. d # c
    BY DEF EnsureKnown
  <2> QED  BY <2>1 DEF EnsureKnown, RegistryInv, UnrecordedIsEmpty, TypeOK
<1> QED
  BY <1>1, <1>2, <1>3 DEF RegistryInv, UndefinedIsEmpty, InterfacesBacked,
     PendingBacked, PortsBacked, PeersDefined, Defined

LEMMA InvBeginEnsure ==
  ASSUME RegistryInv, NEW c \in Containers, NEW pid \in Pids \cup {NoPid},
         NEW request \in Requests, BeginEnsure(c, pid, request)
  PROVE  RegistryInv'
<1>1. TypeOK'
  <2>1. TypeOK /\ [Next]_regVars
    BY DEF RegistryInv, Next
  <2> QED  BY <2>1, TypeStep
<1>2. UNCHANGED <<networks, byIp, registered, pids, leased, ifs, ports, peers>>
  BY DEF BeginEnsure
<1>3. PendingBacked'
  BY DEF BeginEnsure, PendingBacked
<1> QED
  BY <1>1, <1>2, <1>3 DEF RegistryInv, UnrecordedIsEmpty, UndefinedIsEmpty,
     InterfacesBacked, PortsBacked, PeersDefined, Defined

LEMMA InvRegisterInterface ==
  ASSUME RegistryInv, RegisterInterface
  PROVE  RegistryInv'
<1>1. TypeOK /\ TypeOK'
  <2>1. TypeOK /\ [Next]_regVars
    BY DEF RegistryInv, Next
  <2> QED  BY <2>1, TypeStep
<1>2. PICK n \in Networks, net \in NetworkState, i \in Interface :
        InterfaceTaken(n, net, i)
  BY <1>1, RegisterInterfaceEffect
<1>3. UNCHANGED <<registered, pids, leased, ifs, ports, peers>>
  BY DEF RegisterInterface
<1>4. /\ pending # NoReg /\ pending.cid \in Containers
      /\ pending.cid \notin registered /\ ifs[pending.cid] = {}
  BY <1>2 DEF RegisterInterface, Unlocked, InterfaceTaken, Registration,
     RegistryInv, PendingBacked, UnrecordedIsEmpty
<1>5. \A k \in Networks : /\ Defined(k) => networks'[k] = networks[k]
                          /\ k # n => networks'[k] = networks[k] /\ byIp'[k] = byIp[k]
  BY <1>1, <1>2 DEF InterfaceTaken, TypeOK
<1>6. Defined(n)'
  BY <1>1, <1>2, NoneAssumption DEF InterfaceTaken, TypeOK, Defined
<1>7. \A k \in Networks : Defined(k) => Defined(k)'
  BY <1>5 DEF Defined
<1>8. \A k \in Networks, a \in IPs :
         byIp'[k][a] = IF k = n /\ a = i.ip THEN pending.cid ELSE byIp[k][a]
  BY <1>1, <1>2 DEF InterfaceTaken, TypeOK
<1>9. UnrecordedIsEmpty'
  BY <1>3 DEF RegistryInv, UnrecordedIsEmpty
<1>10. UndefinedIsEmpty'
  BY <1>5, <1>6, <1>8 DEF RegistryInv, UndefinedIsEmpty, Defined
<1>11. InterfacesBacked'
  <2> SUFFICES ASSUME NEW c \in Containers, NEW j \in ifs[c]
               PROVE  Defined(j.network)' /\ byIp'[j.network][j.ip] = c
    BY <1>3 DEF InterfacesBacked
  <2>1. j.network \in Networks /\ j.ip \in IPs
    BY <1>1 DEF TypeOK, Interface
  <2>2. Defined(j.network) /\ byIp[j.network][j.ip] = c
    BY DEF RegistryInv, InterfacesBacked
  <2>3. ~(j.network = n /\ j.ip = i.ip)
    BY <1>2, <1>4, <2>2, NoneAssumption DEF InterfaceTaken
  <2> QED  BY <1>7, <1>8, <2>1, <2>2, <2>3
<1>12. PendingBacked'
  <2>1. pending'.cid = pending.cid /\ pending'.done = pending.done \cup {i}
    BY <1>2 DEF InterfaceTaken, Registration
  <2>2. \A j \in pending.done : j \in Interface
    BY <1>2 DEF InterfaceTaken, Registration
  <2> SUFFICES ASSUME NEW j \in pending.done \cup {i}
               PROVE  Defined(j.network)' /\ byIp'[j.network][j.ip] = pending.cid
    BY <1>3, <1>4, <2>1 DEF PendingBacked
  <2>3. j.network \in Networks /\ j.ip \in IPs
    BY <2>2 DEF Interface
  <2>4. CASE j = i
    BY <1>2, <1>6, <1>8, <2>3, <2>4 DEF InterfaceTaken
  <2>5. CASE j \in pending.done
    <3>1. Defined(j.network) /\ byIp[j.network][j.ip] = pending.cid
      BY <1>4, <2>5 DEF RegistryInv, PendingBacked
    <3> QED  BY <3>1, <1>7, <1>8, <2>3
  <2> QED  BY <2>4, <2>5
<1>13. PortsBacked'
  BY <1>1, <1>3, <1>7 DEF RegistryInv, PortsBacked, TypeOK, PortMapping
<1>14. PeersDefined'
  BY <1>1, <1>3, <1>7 DEF RegistryInv, PeersDefined, TypeOK
<1> QED
  BY <1>1, <1>9, <1>10, <1>11, <1>12, <1>13, <1>14 DEF RegistryInv

LEMMA InvRefuseInterface ==
  ASSUME RegistryInv, RefuseInterface
  PROVE  RegistryInv'
<1>1. TypeOK /\ TypeOK'
  <2>1. TypeOK /\ [Next]_regVars
    BY DEF RegistryInv, Next
  <2> QED  BY <2>1, TypeStep
<1> DEFINE r == Head(pending.todo)
<1>2. r \in InterfaceRequest
  BY <1>1, RequestFields DEF RefuseInterface, Unlocked
<1>3. PICK net \in NetworkFor(r) : networks' = [networks EXCEPT ![r.network] = net]
  BY DEF RefuseInterface
<1>4. Defined(r.network) => net = networks[r.network]
  BY <1>3 DEF NetworkFor
<1> HIDE DEF r
<1>5. \A k \in Networks : Defined(k) => Defined(k)'
  BY <1>1, <1>2, <1>3, <1>4 DEF TypeOK, Defined, InterfaceRequest
<1>6. /\ UNCHANGED <<byIp, registered, pids, leased, ifs, ports, peers>>
      /\ pending' = NoReg
  BY DEF RefuseInterface
<1>7. UndefinedIsEmpty'
  BY <1>5, <1>6 DEF RegistryInv, UndefinedIsEmpty
<1>8. InterfacesBacked'
  BY <1>1, <1>5, <1>6 DEF RegistryInv, InterfacesBacked, TypeOK, Interface
<1>9. PortsBacked'
  BY <1>1, <1>5, <1>6 DEF RegistryInv, PortsBacked, TypeOK, PortMapping
<1>10. PeersDefined'
  BY <1>1, <1>5, <1>6 DEF RegistryInv, PeersDefined, TypeOK
<1> QED
  BY <1>1, <1>6, <1>7, <1>8, <1>9, <1>10 DEF RegistryInv, UnrecordedIsEmpty, PendingBacked

LEMMA InvFinishEnsure ==
  ASSUME RegistryInv, FinishEnsure
  PROVE  RegistryInv'
<1>1. TypeOK /\ TypeOK'
  <2>1. TypeOK /\ [Next]_regVars
    BY DEF RegistryInv, Next
  <2> QED  BY <2>1, TypeStep
<1>2. pending # NoReg /\ pending \in Registration
  BY <1>1 DEF FinishEnsure, Unlocked, TypeOK
<1>3. /\ UNCHANGED <<networks, byIp, ports, peers>>
      /\ registered' = registered \cup {pending.cid}
      /\ pending' = NoReg
      /\ \A c \in Containers : c # pending.cid =>
           pids'[c] = pids[c] /\ ifs'[c] = ifs[c] /\ (c \in leased' <=> c \in leased)
      /\ ifs'[pending.cid] = pending.done
  BY <1>1, <1>2 DEF FinishEnsure, TypeOK, Registration
<1>4. UnrecordedIsEmpty'
  BY <1>3 DEF RegistryInv, UnrecordedIsEmpty
<1>5. InterfacesBacked'
  BY <1>2, <1>3 DEF RegistryInv, InterfacesBacked, PendingBacked, Defined
<1>6. PortsBacked'
  <2> SUFFICES ASSUME NEW m \in ports
               PROVE  ifs'[m.cid] = ifs[m.cid]
    BY <1>3 DEF RegistryInv, PortsBacked, Defined
  <2>1. m.cid \in registered /\ m.cid \in Containers
    BY <1>1 DEF RegistryInv, PortsBacked, TypeOK, PortMapping
  <2> QED  BY <1>2, <1>3, <2>1 DEF RegistryInv, PendingBacked
<1> QED
  BY <1>1, <1>3, <1>4, <1>5, <1>6 DEF RegistryInv, UndefinedIsEmpty, PendingBacked,
     PeersDefined, Defined

LEMMA InvReleaseContainer ==
  ASSUME RegistryInv, NEW c \in Containers, ReleaseContainer(c)
  PROVE  RegistryInv'
<1>1. TypeOK /\ TypeOK'
  <2>1. TypeOK /\ [Next]_regVars
    BY DEF RegistryInv, Next
  <2> QED  BY <2>1, TypeStep
<1>2. /\ UNCHANGED <<networks, peers, pending>>
      /\ registered' = registered \ {c} /\ pending = NoReg
      /\ \A d \in Containers : d # c =>
           pids'[d] = pids[d] /\ ifs'[d] = ifs[d] /\ (d \in leased' <=> d \in leased)
      /\ pids'[c] = {} /\ ifs'[c] = {} /\ c \notin leased'
      /\ ports' = {m \in ports : m.cid # c}
  BY <1>1 DEF ReleaseContainer, TypeOK, Unlocked
<1>3. \A n \in Networks, a \in IPs :
        byIp'[n][a] = IF \E i \in ifs[c] : i.network = n /\ i.ip = a
                      THEN Free ELSE byIp[n][a]
  BY DEF ReleaseContainer
<1>4. UnrecordedIsEmpty'
  BY <1>2 DEF RegistryInv, UnrecordedIsEmpty
<1>5. UndefinedIsEmpty'
  BY <1>2, <1>3 DEF RegistryInv, UndefinedIsEmpty, Defined
<1>6. InterfacesBacked'
  <2> SUFFICES ASSUME NEW d \in Containers, NEW j \in ifs'[d]
               PROVE  Defined(j.network) /\ byIp'[j.network][j.ip] = d
    BY <1>2 DEF InterfacesBacked, Defined
  <2>1. d # c /\ j \in ifs[d]
    BY <1>2
  <2>2. Defined(j.network) /\ byIp[j.network][j.ip] = d
    BY <2>1 DEF RegistryInv, InterfacesBacked
  <2>3. ~ \E i \in ifs[c] : i.network = j.network /\ i.ip = j.ip
    BY <2>1, <2>2 DEF RegistryInv, InterfacesBacked
  <2>4. j.network \in Networks /\ j.ip \in IPs
    BY <1>1, <2>1 DEF TypeOK, Interface
  <2> QED  BY <1>3, <2>2, <2>3, <2>4
<1>7. PortsBacked'
  BY <1>1, <1>2 DEF RegistryInv, PortsBacked, TypeOK, PortMapping, Defined
<1> QED
  BY <1>1, <1>2, <1>4, <1>5, <1>6, <1>7 DEF RegistryInv, PendingBacked, PeersDefined, Defined

LEMMA InvUnregisterPid ==
  ASSUME RegistryInv, NEW c \in Containers, NEW pid \in Pids, UnregisterPid(c, pid)
  PROVE  RegistryInv'
<1>1. TypeOK /\ TypeOK'
  <2>1. TypeOK /\ [Next]_regVars
    BY DEF RegistryInv, Next
  <2> QED  BY <2>1, TypeStep
<1>2. /\ UNCHANGED <<networks, byIp, registered, leased, ifs, peers, pending>>
      /\ ports' \subseteq ports
      /\ c \in registered
      /\ \A d \in Containers : d # c => pids'[d] = pids[d]
  BY <1>1 DEF UnregisterPid, TypeOK
<1> QED
  BY <1>1, <1>2 DEF RegistryInv, UnrecordedIsEmpty, UndefinedIsEmpty,
     InterfacesBacked, PendingBacked, PortsBacked, PeersDefined, Defined

LEMMA InvBindPort ==
  ASSUME RegistryInv, NEW c \in Containers, NEW pid \in Pids, NEW port \in Ports,
         NEW i \in ifs[c], NEW address \in {AnyIp, Loopback} \cup IPs,
         BindPort(c, pid, i, address, port)
  PROVE  RegistryInv'
<1> DEFINE m == MappingFor(c, pid, i, address, port)
<1>1. TypeOK /\ TypeOK'
  <2>1. TypeOK /\ [Next]_regVars
    BY DEF RegistryInv, Next
  <2> QED  BY <2>1, TypeStep
<1>2. /\ UNCHANGED <<networks, byIp, registered, pids, leased, ifs, peers, pending>>
      /\ ports' = ports \cup {m}
      /\ c \in registered
      /\ address \in {AnyIp, Loopback, i.ip}
  BY DEF BindPort
<1>3. /\ m.cid \in registered /\ Defined(m.network)
      /\ \/ m.scope = m.cid /\ m.ip = Loopback
         \/ m.scope = Shared /\ \E j \in ifs[m.cid] : j.network = m.network /\ j.ip = m.ip
  BY <1>1, <1>2, AddressAssumption DEF RegistryInv, InterfacesBacked, MappingFor
<1>4. PortsBacked'
  BY <1>2, <1>3 DEF RegistryInv, PortsBacked, Defined
<1> QED
  BY <1>1, <1>2, <1>4 DEF RegistryInv, UnrecordedIsEmpty, UndefinedIsEmpty,
     InterfacesBacked, PendingBacked, PeersDefined, Defined

LEMMA InvReleasePortMapping ==
  ASSUME RegistryInv, NEW m \in ports, ReleasePortMapping(m)
  PROVE  RegistryInv'
<1>1. TypeOK'
  <2>1. TypeOK /\ [Next]_regVars
    BY DEF RegistryInv, Next
  <2> QED  BY <2>1, TypeStep
<1>2. /\ UNCHANGED <<networks, byIp, registered, pids, leased, ifs, peers, pending>>
      /\ ports' \subseteq ports
  BY DEF ReleasePortMapping
<1> QED
  BY <1>1, <1>2 DEF RegistryInv, UnrecordedIsEmpty, UndefinedIsEmpty,
     InterfacesBacked, PendingBacked, PortsBacked, PeersDefined, Defined

LEMMA InvStep == RegistryInv /\ [Next]_regVars => RegistryInv'
<1> SUFFICES ASSUME RegistryInv, [Next]_regVars PROVE RegistryInv'
  OBVIOUS
<1>1. CASE UNCHANGED regVars
  BY <1>1 DEF regVars, RegistryInv, TypeOK, UnrecordedIsEmpty, UndefinedIsEmpty,
     InterfacesBacked, PendingBacked, PortsBacked, PeersDefined, Defined
<1>2. CASE Next
  BY <1>2, InvDefineNetwork, InvRemoveNetwork, InvPeering, InvEnsureKnown,
     InvBeginEnsure, InvRegisterInterface, InvRefuseInterface, InvFinishEnsure,
     InvReleaseContainer, InvUnregisterPid, InvBindPort, InvReleasePortMapping
  DEF Next, UnregisterLast
<1> QED  BY <1>1, <1>2

(* RegistryInv holds in every reachable state: interfaces_by_ip, the       *)
(* container records and the port table always agree.                      *)
THEOREM RegistryInvariant == Spec => []RegistryInv
<1> QED  BY InvInit, InvStep, PTL DEF Spec

-----------------------------------------------------------------------------
(* What follows from it.                                                   *)

LEMMA HeldOnce == RegistryInv => AddressHeldOnce
<1> SUFFICES ASSUME RegistryInv,
                    NEW c \in Containers, NEW d \in Containers, c # d,
                    NEW i \in InterfacesOf(c), NEW j \in InterfacesOf(d),
                    i.network = j.network, i.ip = j.ip
             PROVE  FALSE
  BY DEF AddressHeldOnce
<1>1. byIp[i.network][i.ip] = c
  BY DEF RegistryInv, InterfacesBacked, PendingBacked, InterfacesOf
<1>2. byIp[j.network][j.ip] = d
  BY DEF RegistryInv, InterfacesBacked, PendingBacked, InterfacesOf
<1> QED  BY <1>1, <1>2

(* No two pods ever hold the same virtual address, not even while one is   *)
(* still being registered: registry.py hands an address out only when      *)
(* interfaces_by_ip has no other holder for it, and every method keeps     *)
(* that table in step with the container records.                          *)
THEOREM AddressesUnique == Spec => []AddressHeldOnce
<1> QED  BY RegistryInvariant, HeldOnce, PTL

LEMMA LookupHolder ==
  ASSUME RegistryInv, NEW n \in Networks, NEW scope,
         NEW address \in IPs \cup {Loopback}, NEW port \in Ports,
         NEW m \in Lookup(n, scope, address, port)
  PROVE  /\ m \in ports /\ m.cid \in registered /\ m.network = n
         /\ m.scope = scope /\ m.ip = address
<1>1. m \in ports /\ VirtualKey(m) = <<n, scope, address, port>>
  BY DEF Lookup
<1>2. m.network = n /\ m.scope = scope /\ m.ip = address
  BY <1>1 DEF VirtualKey
<1> QED  BY <1>1, <1>2 DEF RegistryInv, PortsBacked

LEMMA RouteStep == RegistryInv => RouteReachesHolder
<1> SUFFICES ASSUME RegistryInv,
                    NEW c \in Containers, NEW n \in Networks,
                    NEW address \in IPs \cup {Loopback}, NEW port \in Ports,
                    NEW m \in RouteConnect(c, n, address, port)
             PROVE  /\ m.cid \in registered
                    /\ m.network = n \/ <<n, m.network>> \in peers
                    /\ IF address = Loopback THEN m.cid = c
                       ELSE \E i \in ifs[m.cid] : i.network = m.network /\ i.ip = address
  BY DEF RouteReachesHolder
<1>1. c \in Containers /\ c # Shared
  BY NoneAssumption
<1>2. CASE address = Loopback
  <2>1. m \in Lookup(n, c, Loopback, port)
    BY <1>2 DEF RouteConnect
  <2>2. m \in ports /\ m.cid \in registered /\ m.network = n /\ m.scope = c
    BY <2>1, LookupHolder
  <2>3. m.cid = c
    BY <2>2, <1>1 DEF RegistryInv, PortsBacked
  <2> QED  BY <1>2, <2>2, <2>3
<1>3. CASE address # Loopback
  <2>1. PICK t \in Networks : /\ t = n \/ <<n, t>> \in peers
                              /\ m \in Lookup(t, Shared, address, port)
    BY <1>3 DEF RouteConnect
  <2>2. /\ m \in ports /\ m.cid \in registered /\ m.network = t
        /\ m.scope = Shared /\ m.ip = address
    BY <2>1, LookupHolder
  <2>3. \E i \in ifs[m.cid] : i.network = m.network /\ i.ip = m.ip
    BY <1>3, <2>2 DEF RegistryInv, PortsBacked
  <2> QED  BY <1>3, <2>1, <2>2, <2>3
<1> QED  BY <1>2, <1>3

(* route_connect only ever returns a mapping of a namespace that holds the *)
(* address now, in the source network or one it is peered with, and a      *)
(* loopback address never leads out of the caller's own namespace.         *)
THEOREM RoutingSound == Spec => []RouteReachesHolder
<1> QED  BY RegistryInvariant, RouteStep, PTL

(* peered_networks never names a network that was removed.                 *)
THEOREM PeeringsConsistent == Spec => []PeersDefined
<1>1. RegistryInv => PeersDefined
  BY DEF RegistryInv
<1> QED  BY <1>1, RegistryInvariant, PTL

-----------------------------------------------------------------------------
(* Action properties.                                                      *)

(* Body of FreshNetworkIsEmpty, for one network.                           *)
FreshStep(n) ==
  ~Defined(n) /\ networks'[n] # NoNet =>
    /\ \A m \in ports' : m.network # n
    /\ \A c \in Containers : \A i \in ifs'[c] : i.network # n
    /\ \A a \in IPs : \/ byIp'[n][a] = Free
                       \/ (pending # NoReg /\ byIp'[n][a] = pending.cid)

LEMMA FreshLemma ==
  ASSUME RegistryInv, Next, NEW n \in Networks
  PROVE  FreshStep(n)
<1> SUFFICES ASSUME ~Defined(n), networks'[n] # NoNet
             PROVE  /\ \A m \in ports' : m.network # n
                    /\ \A c \in Containers : \A i \in ifs'[c] : i.network # n
                    /\ \A a \in IPs : \/ byIp'[n][a] = Free
                                       \/ (pending # NoReg /\ byIp'[n][a] = pending.cid)
  BY DEF FreshStep
<1>1. TypeOK
  BY DEF RegistryInv
<1>2. /\ \A m \in ports : m.network # n
      /\ \A c \in Containers : \A i \in ifs[c] : i.network # n
      /\ \A a \in IPs : byIp[n][a] = Free
  BY DEF RegistryInv, PortsBacked, InterfacesBacked, UndefinedIsEmpty
<1>3. ASSUME UNCHANGED <<ports, ifs, byIp>>
      PROVE  /\ \A m \in ports' : m.network # n
             /\ \A c \in Containers : \A i \in ifs'[c] : i.network # n
             /\ \A a \in IPs : \/ byIp'[n][a] = Free
                                \/ (pending # NoReg /\ byIp'[n][a] = pending.cid)
  BY <1>2, <1>3
<1>4. ASSUME NEW k \in Networks, NEW d \in Definitions, DefineNetwork(k, d)
      PROVE  UNCHANGED <<ports, ifs, byIp>>
  BY <1>4 DEF DefineNetwork
<1>5. CASE RefuseInterface
  BY <1>3, <1>5 DEF RefuseInterface
<1>6. CASE RegisterInterface
  <2>1. PICK k \in Networks, net \in NetworkState, i \in Interface :
          InterfaceTaken(k, net, i)
    BY <1>1, <1>6, RegisterInterfaceEffect
  <2>2. pending # NoReg /\ UNCHANGED <<ports, ifs>>
    BY <1>6 DEF RegisterInterface, Unlocked
  <2>3. \A a \in IPs : byIp'[n][a] \in {byIp[n][a], pending.cid}
    BY <1>1, <2>1 DEF InterfaceTaken, TypeOK
  <2> QED  BY <1>2, <2>2, <2>3
<1>7. ASSUME NEW k \in Networks, RemoveNetwork(k)
      PROVE  FALSE
  BY <1>1, <1>7 DEF RemoveNetwork, TypeOK, Defined
<1>8. ASSUME networks' = networks PROVE FALSE
  BY <1>8 DEF Defined
<1> QED
  BY <1>3, <1>4, <1>5, <1>6, <1>7, <1>8 DEF Next, PeerNetworks, UnpeerNetworks,
     EnsureKnown, BeginEnsure, FinishEnsure, ReleaseContainer, UnregisterPid,
     UnregisterLast, BindPort, ReleasePortMapping

(* define_network, and the creation of a network on first use, never bring *)
(* back addresses or ports of a removed network of the same name.          *)
THEOREM FreshNetworks == Spec => FreshNetworkIsEmpty
<1>1. RegistryInv /\ [Next]_regVars =>
        [\A n \in Networks : FreshStep(n)]_regVars
  BY FreshLemma
<1> QED
  BY <1>1, RegistryInvariant, PTL DEF Spec, FreshNetworkIsEmpty, FreshStep

(* Body of LeaseKeepsAddresses, for one namespace.                         *)
LeaseStep(c) ==
  \/ c \notin registered'
  \/ /\ c \in leased'
     /\ ifs'[c] \subseteq ifs[c]
     /\ \A i \in ifs[c] \ ifs'[c] : networks'[i.network] = NoNet

LEMMA LeaseLemma ==
  ASSUME RegistryInv, Next, NEW c \in leased
  PROVE  LeaseStep(c)
<1>1. TypeOK /\ c \in Containers /\ c \in registered
  BY DEF RegistryInv, UnrecordedIsEmpty, TypeOK
<1>2. ASSUME c \in leased', ifs'[c] = ifs[c]
      PROVE  LeaseStep(c)
  BY <1>2 DEF LeaseStep
<1>3. ASSUME NEW n \in Networks, RemoveNetwork(n)
      PROVE  LeaseStep(c)
  <2>1. /\ c \in leased' /\ networks'[n] = NoNet
        /\ ifs'[c] = {i \in ifs[c] : i.network # n}
    BY <1>1, <1>3 DEF RemoveNetwork, TypeOK
  <2> QED  BY <2>1 DEF LeaseStep
<1>4. ASSUME NEW d \in Containers, ReleaseContainer(d)
      PROVE  LeaseStep(c)
  BY <1>1, <1>4 DEF ReleaseContainer, LeaseStep, TypeOK
<1>5. CASE FinishEnsure
  <2>1. pending # NoReg /\ pending.cid \notin registered
    BY <1>5 DEF FinishEnsure, Unlocked, RegistryInv, PendingBacked
  <2>2. c \in leased' /\ ifs'[c] = ifs[c]
    BY <1>1, <1>5, <2>1 DEF FinishEnsure, TypeOK
  <2> QED  BY <1>2, <2>2
<1>6. ASSUME UNCHANGED ifs, leased \subseteq leased'
      PROVE  LeaseStep(c)
  BY <1>2, <1>6
<1>7. ASSUME NEW d \in Containers, NEW pid \in Pids \cup {NoPid},
             NEW request \in Requests, EnsureKnown(d, pid, request)
      PROVE  UNCHANGED ifs /\ leased \subseteq leased'
  BY <1>7 DEF EnsureKnown
<1> QED
  BY <1>3, <1>4, <1>5, <1>6, <1>7 DEF Next, DefineNetwork, PeerNetworks,
     UnpeerNetworks, BeginEnsure, RegisterInterface, RefuseInterface,
     UnregisterPid, UnregisterLast, BindPort, ReleasePortMapping

(* A pod that holds a lease keeps its addresses until it is released or    *)
(* its network removed, whatever its processes register and unregister.    *)
THEOREM LeasesStable == Spec => LeaseKeepsAddresses
<1>1. RegistryInv /\ [Next]_regVars =>
        [\A c \in leased : LeaseStep(c)]_regVars
  BY LeaseLemma
<1> QED
  BY <1>1, RegistryInvariant, PTL DEF Spec, LeaseKeepsAddresses, LeaseStep
=============================================================================
