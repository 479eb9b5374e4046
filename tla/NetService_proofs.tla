-------------------------- MODULE NetService_proofs --------------------------
(***************************************************************************)
(* TLAPS proofs about the network service: whatever the sections of its    *)
(* handlers do in any order, the registry only takes steps of its own      *)
(* methods, so that what NetRegistry_proofs proves of the registry holds   *)
(* for the service, and a pod keeps its address; and what the lifetimes of *)
(* records, addresses, ports and listeners hang on.  For any pods, tracers,*)
(* rules, addresses and networks.                                          *)
(***************************************************************************)
EXTENDS NetService, NetRegistry_proofs

(* A handler that activates a mapping, or gives it back, has one.          *)
HandlerHasMapping ==
  \A t \in Pids : handler[t].at \in {"bindActivate", "bindUndo"} =>
    handler[t].mapping \in PortMapping

PodInterfaceAt(a) == [name |-> PodInterface, network |-> PodNetwork, ip |-> a]

(* Everyone who registers asks for the one interface of a pod.             *)
PendingIsPod ==
  pending # NoReg =>
    \/ \E a \in IPs \cup {AnyIp} : pending.todo = PodRequest(a) /\ pending.done = {}
    \/ \E a \in IPs : pending.todo = <<>> /\ pending.done = {PodInterfaceAt(a)}

(* The runtime makes one call at a time, and it alone allocates.           *)
OneCall ==
  /\ \A c, d \in Containers :
       pod[c] \in {"allocating", "releasing"} /\ pod[d] \in {"allocating", "releasing"} => c = d
  /\ pending # NoReg /\ pending.pid = NoPid => pod[pending.cid] = "allocating"

ServiceInv ==
  /\ RegistryInv /\ ServiceTypeOK
  /\ HandlerHasMapping /\ PendingIsPod /\ OneCall
  /\ PodKeepsAddress

-----------------------------------------------------------------------------
(* Every step of the service is a step of the registry, or none.           *)

LEMMA PodRequests ==
  ASSUME NEW a \in IPs \cup {AnyIp}
  PROVE  PodRequest(a) \in Requests
BY ServiceAssumption DEF PodRequest

LEMMA TracerRegistryStep ==
  ASSUME ServiceInv, NEW t \in Pids, TracerStep(t)
  PROVE  [Next]_regVars
<1> USE DEF ServiceInv, ServiceTypeOK
<1>1. PodOf[t] \in Containers /\ PodRequest(conf[t]) \in Requests
  BY ServiceAssumption, PodRequests
<1>2. CASE \/ Fork(t) \/ RegisterStart(t) \/ RegisterClear(t) \/ RegisterRules(t)
           \/ BindActivate(t) \/ UnregisterStart(t) \/ UnregisterClear(t) \/ Kill(t)
  BY <1>2 DEF Fork, RegisterStart, RegisterClear, RegisterRules, BindActivate,
     UnregisterStart, UnregisterClear, Kill
<1>3. CASE RegisterRecord(t)
  BY <1>1, <1>3 DEF RegisterRecord, Next
<1>4. CASE RegisterRecorded(t)
  BY <1>4 DEF RegisterRecorded, Next
<1>5. CASE RegisterDenied(t)
  BY <1>5 DEF RegisterDenied, Next
<1>6. ASSUME NEW i \in ifs[PodOf[t]], NEW address \in {AnyIp, Loopback}, NEW port \in Ports,
             Bind(t, i, address, port)
      PROVE  Next
  BY <1>1, <1>6 DEF Bind, Next
<1>7. CASE BindUndo(t)
  <2> DEFINE m == handler[t].mapping
  <2>1. ReleasePortMapping(m)
    BY <1>7 DEF BindUndo
  <2>2. CASE \E x \in ports : VirtualKey(x) = VirtualKey(m)
    <3>1. PICK x \in ports : VirtualKey(x) = VirtualKey(m)
      BY <2>2
    <3>2. ReleasePortMapping(x)
      BY <2>1, <3>1 DEF ReleasePortMapping
    <3> QED  BY <3>2 DEF Next
  <2>3. CASE ~ \E x \in ports : VirtualKey(x) = VirtualKey(m)
    <3>1. ports' = ports
      BY <2>1, <2>3 DEF ReleasePortMapping
    <3> QED  BY <2>1, <3>1 DEF ReleasePortMapping, regVars
  <2> QED  BY <2>2, <2>3
<1>8. CASE UnregisterRecord(t)
  BY <1>1, <1>8 DEF UnregisterRecord, Next
<1> QED
  BY <1>2, <1>3, <1>4, <1>5, <1>6, <1>7, <1>8 DEF TracerStep

LEMMA RegistryStep == ServiceInv /\ [ServiceNext]_vars => [Next]_regVars
<1> SUFFICES ASSUME ServiceInv, [ServiceNext]_vars PROVE [Next]_regVars
  OBVIOUS
<1>1. ASSUME NEW c \in Containers, RuntimeStep(c)
      PROVE  [Next]_regVars
  <2>1. CASE AllocateStart(c)
    BY <2>1, PodRequests DEF AllocateStart, Next
  <2>2. CASE AllocateStep(c)
    BY <2>2 DEF AllocateStep, Next
  <2>3. CASE ReleaseStart(c)
    BY <2>3 DEF ReleaseStart
  <2>4. CASE ReleaseRecord(c)
    BY <2>4 DEF ReleaseRecord, Next
  <2> QED  BY <1>1, <2>1, <2>2, <2>3, <2>4 DEF RuntimeStep
<1>2. ASSUME NEW c \in Containers, OperatorStep(c)
      PROVE  [Next]_regVars
  BY <1>2 DEF OperatorStep, PublishPort, UnpublishPort, UnpublishAll
<1>3. ASSUME NEW n \in CliNetworks, OperatorNetwork(n)
      PROVE  [Next]_regVars
  BY <1>3, ServiceAssumption DEF OperatorNetwork, Next
<1>4. CASE UNCHANGED vars
  BY <1>4 DEF vars
<1> QED
  BY <1>1, <1>2, <1>3, <1>4, TracerRegistryStep DEF ServiceNext

-----------------------------------------------------------------------------
(* The invariant is inductive.                                             *)

LEMMA ServiceInvInit == ServiceInit => ServiceInv
<1> SUFFICES ASSUME ServiceInit PROVE ServiceInv
  OBVIOUS
<1>1. RegistryInv
  BY InvInit DEF ServiceInit
<1>2. ServiceTypeOK
  BY ServiceAssumption DEF ServiceInit, ServiceTypeOK, Idle, HandlerAt
<1>3. HandlerHasMapping /\ PendingIsPod /\ OneCall /\ PodKeepsAddress
  BY DEF ServiceInit, Init, Idle, HandlerHasMapping, PendingIsPod, OneCall, PodKeepsAddress
<1> QED  BY <1>1, <1>2, <1>3 DEF ServiceInv

(* The types of the service's own variables, action by action.             *)
LEMMA MappingType ==
  ASSUME TypeOK, NEW c \in Containers, NEW pid \in Pids, NEW i \in ifs[c],
         NEW address \in {AnyIp, Loopback}, NEW port \in Ports
  PROVE  MappingFor(c, pid, i, address, port) \in PortMapping
<1>1. i \in Interface
  BY DEF TypeOK
<1> QED
  BY <1>1, AddressAssumption DEF MappingFor, PortMapping, Interface

HandlerType ==
  /\ handler \in [Pids -> [at : HandlerAt, had : BOOLEAN,
                           mapping : PortMapping \cup {NoMapping}]]
  /\ HandlerHasMapping

LEMMA HandlerMoves ==
  ASSUME HandlerType, NEW t \in Pids,
         \/ UNCHANGED handler
         \/ Answer(t)
         \/ \E at \in HandlerAt \ {"bindActivate", "bindUndo"} : Go(t, at)
  PROVE  HandlerType'
<1> USE DEF HandlerType, HandlerHasMapping, HandlerAt
<1>1. CASE UNCHANGED handler
  BY <1>1
<1>2. CASE Answer(t)
  BY <1>2 DEF Answer, Idle
<1>3. ASSUME NEW at \in HandlerAt \ {"bindActivate", "bindUndo"}, Go(t, at)
      PROVE  HandlerType'
  BY <1>3 DEF Go
<1> QED  BY <1>1, <1>2, <1>3

LEMMA TracerTypes ==
  ASSUME ServiceInv, NEW t \in Pids, TracerStep(t)
  PROVE  ServiceTypeOK' /\ HandlerHasMapping'
<1> USE DEF ServiceInv, ServiceTypeOK, HandlerHasMapping, HandlerAt
<1>1. PodOf[t] \in Containers
  BY ServiceAssumption
<1>2. CASE Fork(t)
  BY <1>1, <1>2 DEF Fork
<1>3. CASE RegisterStart(t)
  BY <1>3 DEF RegisterStart
<1>4. CASE RegisterClear(t)
  BY <1>1, <1>4 DEF RegisterClear, RemovePublishedPorts, Go
<1>5. CASE RegisterRecord(t)
  <2>1. UNCHANGED handler \/ Go(t, "regRules")
    BY <1>5 DEF RegisterRecord
  <2>2. HandlerType'
    BY <2>1, HandlerMoves DEF HandlerType
  <2> QED  BY <1>5, <2>2 DEF RegisterRecord, HandlerType
<1>6. CASE RegisterRecorded(t)
  <2>1. UNCHANGED handler \/ Go(t, "regRules")
    BY <1>6 DEF RegisterRecorded
  <2>2. HandlerType'
    BY <2>1, HandlerMoves DEF HandlerType
  <2> QED  BY <1>6, <2>2 DEF RegisterRecorded, HandlerType
<1>7. CASE RegisterDenied(t)
  BY <1>7 DEF RegisterDenied, Answer, Failed, Idle
<1>8. CASE RegisterRules(t)
  BY <1>1, <1>8, ServiceAssumption DEF RegisterRules, Answer, Idle
<1>9. ASSUME NEW i \in ifs[PodOf[t]], NEW address \in {AnyIp, Loopback}, NEW port \in Ports,
             Bind(t, i, address, port)
      PROVE  ServiceTypeOK' /\ HandlerHasMapping'
  <2> DEFINE m == MappingFor(PodOf[t], t, i, address, port)
  <2>1. m \in PortMapping
    BY <1>1, MappingType DEF RegistryInv
  <2>2. handler' = [handler EXCEPT ![t] = [at |-> "bindActivate", had |-> FALSE, mapping |-> m]]
    BY <1>9 DEF Bind
  <2>3. binds' \in [Pids -> 0..MaxBinds]
    BY <1>9, ServiceAssumption DEF Bind
  <2> HIDE DEF m
  <2> QED  BY <1>9, <2>1, <2>2, <2>3 DEF Bind
<1>10. CASE BindActivate(t)
  <2> DEFINE m == handler[t].mapping
  <2>1. m \in PortMapping
    BY <1>10 DEF BindActivate
  <2>2. RulesToStart(m) \subseteq Rule /\ m.cid \in Containers
    BY <2>1 DEF RulesToStart, PortMapping
  <2>3. {Publish(m.cid, r, m) : r \in RulesToStart(m)} \subseteq ActivePublish
    BY <2>1, <2>2 DEF Publish, ActivePublish
  <2>4. active' \subseteq ActivePublish
    BY <1>10, <2>3 DEF BindActivate
  <2>5. /\ handler' \in [Pids -> [at : HandlerAt, had : BOOLEAN,
                                  mapping : PortMapping \cup {NoMapping}]]
        /\ HandlerHasMapping'
    <3>1. CASE Answer(t)
      BY <3>1 DEF Answer, Idle
    <3>2. CASE Go(t, "bindUndo")
      BY <2>1, <3>2 DEF Go
    <3> QED  BY <1>10, <3>1, <3>2 DEF BindActivate
  <2> QED  BY <1>10, <2>4, <2>5 DEF BindActivate
<1>11. CASE BindUndo(t)
  BY <1>11 DEF BindUndo, Answer, Idle
<1>12. CASE UnregisterStart(t)
  BY <1>12 DEF UnregisterStart, Go
<1>13. CASE UnregisterRecord(t)
  <2>1. Answer(t) \/ Go(t, "unregClear")
    BY <1>13 DEF UnregisterRecord
  <2>2. HandlerType'
    BY <2>1, HandlerMoves DEF HandlerType
  <2> QED  BY <1>13, <2>2 DEF UnregisterRecord, HandlerType
<1>14. CASE UnregisterClear(t)
  BY <1>1, <1>14 DEF UnregisterClear, RemovePublishedPorts, Answer, Idle
<1>15. CASE Kill(t)
  BY <1>15 DEF Kill
<1> QED
  BY <1>2, <1>3, <1>4, <1>5, <1>6, <1>7, <1>8, <1>9, <1>10, <1>11, <1>12,
     <1>13, <1>14, <1>15 DEF TracerStep

LEMMA OtherTypes ==
  ASSUME ServiceInv,
         \/ \E c \in Containers : RuntimeStep(c) \/ OperatorStep(c)
         \/ \E n \in CliNetworks : OperatorNetwork(n)
  PROVE  ServiceTypeOK' /\ HandlerHasMapping'
<1> USE DEF ServiceInv, ServiceTypeOK, HandlerHasMapping
<1>1. ASSUME NEW c \in Containers, AllocateStart(c) \/ ReleaseStart(c) \/ ReleaseRecord(c)
      PROVE  ServiceTypeOK' /\ HandlerHasMapping'
  BY <1>1 DEF AllocateStart, ReleaseStart, ReleaseRecord, RemovePublishedPorts
<1>2. ASSUME NEW c \in Containers, AllocateStep(c)
      PROVE  ServiceTypeOK' /\ HandlerHasMapping'
  <2>1. CASE UNCHANGED podIp
    BY <1>2, <2>1 DEF AllocateStep
  <2>2. CASE FinishEnsure /\ podIp' = [podIp EXCEPT ![c] = (CHOOSE i \in pending.done : TRUE).ip]
    <3>1. pending # NoReg /\ pending.todo = <<>>
      BY <2>2 DEF FinishEnsure, Unlocked
    <3>2. PICK a \in IPs : pending.done = {PodInterfaceAt(a)}
      BY <3>1 DEF PendingIsPod, PodRequest
    <3>3. (CHOOSE i \in pending.done : TRUE) = PodInterfaceAt(a)
      BY <3>2
    <3>4. podIp' = [podIp EXCEPT ![c] = a]
      <4>1. PodInterfaceAt(a).ip = a
        BY DEF PodInterfaceAt
      <4> QED  BY <2>2, <3>3, <4>1
    <3> QED  BY <1>2, <3>4 DEF AllocateStep
  <2> QED  BY <1>2, <2>1, <2>2 DEF AllocateStep
<1>3. ASSUME NEW c \in Containers, OperatorStep(c)
      PROVE  ServiceTypeOK' /\ HandlerHasMapping'
  <2>1. ASSUME NEW rule \in CliRules, PublishPort(c, rule)
        PROVE  ServiceTypeOK' /\ HandlerHasMapping'
    <3>1. rule \in Rule
      BY ServiceAssumption
    <3>2. ASSUME NEW m \in ports
          PROVE  Publish(c, rule, m) \in ActivePublish
      BY <3>1, <3>2 DEF Publish, ActivePublish, RegistryInv, TypeOK
    <3>3. active' \subseteq ActivePublish
      BY <2>1, <3>2 DEF PublishPort
    <3> QED  BY <2>1, <3>1, <3>3 DEF PublishPort
  <2>2. ASSUME NEW host \in Hosts, UnpublishPort(c, host)
        PROVE  ServiceTypeOK' /\ HandlerHasMapping'
    BY <2>2 DEF UnpublishPort
  <2>3. CASE UnpublishAll(c)
    BY <2>3 DEF UnpublishAll, RemovePublishedPorts
  <2> QED  BY <1>3, <2>1, <2>2, <2>3 DEF OperatorStep
<1>4. ASSUME NEW n \in CliNetworks, OperatorNetwork(n)
      PROVE  ServiceTypeOK' /\ HandlerHasMapping'
  BY <1>4 DEF OperatorNetwork, svcVars
<1> QED  BY <1>1, <1>2, <1>3, <1>4 DEF RuntimeStep

-----------------------------------------------------------------------------
(* What a step of the registry does to pods that hold their address.       *)

(* No step but those of the operator, and those of c itself, touches them. *)
Kept(c) == c \in registered' /\ c \in leased' /\ ifs'[c] = ifs[c]

Held(c) == c \in Containers /\ c \in registered /\ c \in leased

LEMMA KeptByOthers ==
  ASSUME RegistryInv, NEW d \in Containers, Held(d),
         \/ UNCHANGED <<registered, leased, ifs>>
         \/ \E c \in Containers, pid \in Pids \cup {NoPid}, request \in Requests :
              EnsureKnown(c, pid, request) \/ BeginEnsure(c, pid, request)
         \/ RegisterInterface \/ RefuseInterface \/ FinishEnsure
         \/ \E c \in Containers, pid \in Pids : UnregisterPid(c, pid) \/ UnregisterLast(c, pid)
         \/ \E c \in Containers \ {d} : ReleaseContainer(c)
  PROVE  Kept(d)
<1> USE DEF Kept, Held
<1>1. CASE UNCHANGED <<registered, leased, ifs>>
  BY <1>1
<1>2. CASE \E c \in Containers, pid \in Pids \cup {NoPid}, request \in Requests :
             EnsureKnown(c, pid, request) \/ BeginEnsure(c, pid, request)
  BY <1>2 DEF EnsureKnown, BeginEnsure
<1>3. CASE RegisterInterface \/ RefuseInterface
  BY <1>3 DEF RegisterInterface, RefuseInterface
<1>4. CASE FinishEnsure
  <2>1. pending # NoReg /\ pending.cid # d
    BY <1>4 DEF FinishEnsure, Unlocked, RegistryInv, PendingBacked
  <2> QED  BY <1>4, <2>1 DEF FinishEnsure, RegistryInv, TypeOK
<1>5. ASSUME NEW c \in Containers, NEW pid \in Pids, UnregisterPid(c, pid)
      PROVE  Kept(d)
  BY <1>5 DEF UnregisterPid
<1>6. ASSUME NEW c \in Containers, c # d, ReleaseContainer(c)
      PROVE  Kept(d)
  BY <1>6 DEF ReleaseContainer, RegistryInv, TypeOK
<1>7. ASSUME NEW c \in Containers, NEW pid \in Pids, UnregisterLast(c, pid)
      PROVE  Kept(d)
  <2>1. pid # NoPid
    BY NoneAssumption
  <2>2. c # d
    BY <1>7, <2>1 DEF UnregisterLast
  <2> QED  BY <1>6, <1>7, <2>2 DEF UnregisterLast
<1> QED  BY <1>1, <1>2, <1>3, <1>4, <1>5, <1>6, <1>7

LEMMA PodsKept ==
  ASSUME PodKeepsAddress,
         \A c \in Containers : pod'[c] = "ready" => pod[c] = "ready" /\ podIp'[c] = podIp[c],
         \A c \in Containers : pod'[c] = "ready" /\ Held(c) => Kept(c)
  PROVE  PodKeepsAddress'
BY DEF PodKeepsAddress, Kept, Held

LEMMA PendingMoves ==
  ASSUME ServiceInv,
         \/ UNCHANGED pending
         \/ pending' = NoReg
         \/ RegisterInterface
         \/ \E c \in Containers, pid \in Pids \cup {NoPid}, a \in IPs \cup {AnyIp} :
              BeginEnsure(c, pid, PodRequest(a))
  PROVE  PendingIsPod'
<1> USE DEF PendingIsPod, ServiceInv
<1>1. CASE UNCHANGED pending
  BY <1>1
<1>2. CASE pending' = NoReg
  BY <1>2
<1>3. CASE RegisterInterface
  <2>1. pending # NoReg /\ pending.todo # <<>> /\ TypeOK
    BY <1>3 DEF RegisterInterface, Unlocked, RegistryInv
  <2>2. PICK a \in IPs \cup {AnyIp} : pending.todo = PodRequest(a) /\ pending.done = {}
    BY <2>1
  <2> DEFINE r == PodInterfaceAt(a)
  <2>3. Head(pending.todo) = r /\ Tail(pending.todo) = <<>> /\ r \in InterfaceRequest
    BY <2>2, ServiceAssumption DEF PodRequest, PodInterfaceAt, InterfaceRequest
  <2>4. r.name = PodInterface /\ r.network = PodNetwork
    BY DEF PodInterfaceAt
  <2> HIDE DEF r
  <2>9. PICK net \in NetworkFor(r) : \E b \in AddressFor(pending.cid, r, net) :
          pending' = [pending EXCEPT
             !.todo = Tail(pending.todo),
             !.done = @ \cup {[name |-> r.name, network |-> r.network, ip |-> b]}]
    BY <1>3, <2>3 DEF RegisterInterface
  <2>5. PICK b \in AddressFor(pending.cid, r, net) :
          pending' = [pending EXCEPT
             !.todo = Tail(pending.todo),
             !.done = @ \cup {[name |-> r.name, network |-> r.network, ip |-> b]}]
    BY <2>9
  <2>6. pending \in Registration /\ pending.cid \in Containers
    BY <2>1 DEF TypeOK, Registration
  <2>7. b \in IPs
    <3>1. net \in NetworkState
      BY <2>1, <2>3, NetworkForType
    <3> QED  BY <2>1, <2>3, <2>6, <3>1, AddressForType
  <2>8. pending'.todo = <<>> /\ pending'.done = {PodInterfaceAt(b)}
    BY <2>2, <2>3, <2>4, <2>5, <2>6 DEF PodInterfaceAt, Registration
  <2> QED  BY <2>7, <2>8
<1>4. ASSUME NEW c \in Containers, NEW pid \in Pids \cup {NoPid}, NEW a \in IPs \cup {AnyIp},
             BeginEnsure(c, pid, PodRequest(a))
      PROVE  PendingIsPod'
  BY <1>4 DEF BeginEnsure
<1> QED  BY <1>1, <1>2, <1>3, <1>4

-----------------------------------------------------------------------------
LEMMA TracerKeeps ==
  ASSUME ServiceInv, NEW t \in Pids, TracerStep(t)
  PROVE  PendingIsPod' /\ OneCall' /\ PodKeepsAddress'
<1> DEFINE c == PodOf[t]
<1>1. /\ c \in Containers /\ t \in Pids \cup {NoPid} /\ t # NoPid
      /\ conf[t] \in IPs \cup {AnyIp} /\ PodRequest(conf[t]) \in Requests
  BY ServiceAssumption, NoneAssumption, PodRequests DEF ServiceInv, ServiceTypeOK
<1>2. UNCHANGED <<pod, podIp>>
  BY DEF TracerStep, Fork, RegisterStart, RegisterClear, RegisterRules, BindActivate,
     UnregisterStart, UnregisterClear, Kill, RegisterRecord, RegisterRecorded,
     RegisterDenied, Bind, BindUndo, UnregisterRecord
<1>3. \/ UNCHANGED <<registered, leased, ifs, pending>>
      \/ EnsureKnown(c, t, PodRequest(conf[t])) \/ BeginEnsure(c, t, PodRequest(conf[t]))
      \/ RegisterInterface /\ pending.pid = t
      \/ RefuseInterface \/ FinishEnsure
      \/ UnregisterPid(c, t) \/ UnregisterLast(c, t)
  BY DEF TracerStep, Fork, RegisterStart, RegisterClear, RegisterRules, BindActivate,
     UnregisterStart, UnregisterClear, Kill, RegisterRecord, RegisterRecorded,
     RegisterDenied, Bind, BindPort, BindUndo, ReleasePortMapping, UnregisterRecord, regVars
<1>4. PendingIsPod'
  BY <1>1, <1>3, PendingMoves DEF EnsureKnown, RefuseInterface, FinishEnsure,
     UnregisterPid, UnregisterLast, ReleaseContainer
<1>5. \/ UNCHANGED pending
      \/ pending' = NoReg
      \/ pending'.pid = t
  <2>1. CASE RegisterInterface /\ pending.pid = t
    <3>1. pending # NoReg /\ pending \in Registration
      BY <2>1 DEF RegisterInterface, Unlocked, ServiceInv, RegistryInv, TypeOK
    <3>2. pending'.pid = pending.pid
      BY <2>1, <3>1 DEF RegisterInterface, Registration
    <3> QED  BY <2>1, <3>2
  <2>2. CASE BeginEnsure(c, t, PodRequest(conf[t]))
    BY <2>2 DEF BeginEnsure
  <2> QED
    BY <1>3, <2>1, <2>2 DEF EnsureKnown, RefuseInterface, FinishEnsure,
       UnregisterPid, UnregisterLast, ReleaseContainer
<1>6. OneCall'
  BY <1>1, <1>2, <1>5 DEF OneCall, ServiceInv
<1>7. PodKeepsAddress'
  <2>1. ASSUME NEW d \in Containers, Held(d)
        PROVE  Kept(d)
    BY <1>1, <1>3, <2>1, KeptByOthers DEF ServiceInv
  <2> QED  BY <1>2, <2>1, PodsKept DEF ServiceInv
<1> QED  BY <1>4, <1>6, <1>7

LEMMA RuntimeKeeps ==
  ASSUME ServiceInv, NEW c \in Containers, RuntimeStep(c)
  PROVE  PendingIsPod' /\ OneCall' /\ PodKeepsAddress'
<1> USE DEF ServiceInv
<1>1. pod \in [Containers -> {"none", "allocating", "ready", "releasing", "removed"}]
      /\ podIp \in [Containers -> IPs \cup {AnyIp}]
  BY DEF ServiceTypeOK
<1>2. CASE AllocateStart(c)
  <2>1. BeginEnsure(c, NoPid, PodRequest(AnyIp)) /\ RuntimeFree
    BY <1>2 DEF AllocateStart
  <2>2. pod' = [pod EXCEPT ![c] = "allocating"] /\ UNCHANGED podIp
    BY <1>2 DEF AllocateStart
  <2>3. pending'.cid = c /\ pending'.pid = NoPid
    BY <2>1 DEF BeginEnsure
  <2>4. OneCall'
    BY <1>1, <2>1, <2>2, <2>3 DEF OneCall, RuntimeFree
  <2>5. PendingIsPod'
    BY <2>1, PendingMoves
  <2>6. \A d \in Containers : pod'[d] = "ready" /\ Held(d) => Kept(d)
    BY <2>1 DEF BeginEnsure, Held, Kept
  <2> QED  BY <1>1, <2>2, <2>4, <2>5, <2>6, PodsKept
<1>3. CASE AllocateStep(c)
  <2>1. pending # NoReg /\ pending.pid = NoPid /\ pod[c] = "allocating"
    BY <1>3 DEF AllocateStep, Unlocked
  <2>2. pending \in Registration /\ pending.cid = c
    BY <1>1, <2>1 DEF OneCall, RegistryInv, TypeOK, Registration
  <2>3. CASE RegisterInterface /\ UNCHANGED <<pod, podIp>>
    <3>1. pending'.pid = NoPid /\ pending'.cid = c
      BY <2>1, <2>2, <2>3 DEF RegisterInterface, Registration
    <3>2. OneCall'
      BY <2>1, <2>3, <3>1 DEF OneCall
    <3>3. \A d \in Containers : pod'[d] = "ready" /\ Held(d) => Kept(d)
      BY <2>3 DEF RegisterInterface, Held, Kept
    <3> QED  BY <2>3, <3>2, <3>3, PendingMoves, PodsKept
  <2>4. CASE RefuseInterface /\ pod' = [pod EXCEPT ![c] = "removed"] /\ UNCHANGED podIp
    <3>1. pending' = NoReg
      BY <2>4 DEF RefuseInterface
    <3>2. OneCall'
      BY <1>1, <2>4, <3>1 DEF OneCall
    <3>3. \A d \in Containers : pod'[d] = "ready" /\ Held(d) => Kept(d)
      BY <2>4 DEF RefuseInterface, Held, Kept
    <3> QED  BY <1>1, <2>4, <3>1, <3>2, <3>3, PendingMoves, PodsKept
  <2>5. CASE /\ FinishEnsure /\ pod' = [pod EXCEPT ![c] = "ready"]
             /\ podIp' = [podIp EXCEPT ![c] = (CHOOSE i \in pending.done : TRUE).ip]
    <3>1. pending' = NoReg
      BY <2>5 DEF FinishEnsure
    <3>2. OneCall'
      BY <1>1, <2>5, <3>1 DEF OneCall
    <3>3. PICK a \in IPs : pending.done = {PodInterfaceAt(a)}
      BY <2>1, <2>5 DEF FinishEnsure, PendingIsPod, PodRequest
    <3>4. podIp'[c] = a
      <4>1. (CHOOSE i \in pending.done : TRUE) = PodInterfaceAt(a)
        BY <3>3
      <4>2. PodInterfaceAt(a).ip = a
        BY DEF PodInterfaceAt
      <4> QED  BY <1>1, <2>5, <4>1, <4>2
    <3>5. c \in registered' /\ c \in leased' /\ ifs'[c] = {PodInterfaceAt(a)}
      BY <2>1, <2>2, <2>5, <3>3 DEF FinishEnsure, RegistryInv, TypeOK
    <3>6. ASSUME NEW d \in Containers, d # c, pod'[d] = "ready"
          PROVE  /\ d \in registered' /\ d \in leased'
                 /\ ifs'[d] = ifs[d] /\ pod[d] = "ready" /\ podIp'[d] = podIp[d]
      <4>1. pod[d] = "ready" /\ podIp'[d] = podIp[d]
        BY <1>1, <2>5, <3>6
      <4>2. Held(d)
        BY <4>1 DEF PodKeepsAddress, Held
      <4>3. Kept(d)
        BY <2>5, <4>2, KeptByOthers
      <4> QED  BY <4>1, <4>3 DEF Kept
    <3>7. PodKeepsAddress'
      BY <3>4, <3>5, <3>6 DEF PodKeepsAddress, PodInterfaceAt
    <3> QED  BY <3>1, <3>2, <3>7, PendingMoves
  <2> QED  BY <1>3, <2>3, <2>4, <2>5 DEF AllocateStep
<1>4. CASE ReleaseStart(c)
  <2>1. /\ UNCHANGED <<registered, leased, ifs, pending, podIp>>
        /\ pod' = [pod EXCEPT ![c] = "releasing"] /\ RuntimeFree /\ pod[c] = "ready"
    BY <1>4 DEF ReleaseStart, regVars
  <2>2. OneCall'
    <3>1. ~(pending # NoReg /\ pending.pid = NoPid)
      BY <2>1 DEF OneCall, RuntimeFree, RegistryInv, TypeOK, Registration
    <3> QED  BY <1>1, <2>1, <3>1 DEF OneCall, RuntimeFree
  <2>3. \A d \in Containers : pod'[d] = "ready" /\ Held(d) => Kept(d)
    BY <2>1 DEF Held, Kept
  <2> QED  BY <1>1, <2>1, <2>2, <2>3, PendingMoves, PodsKept
<1>5. CASE ReleaseRecord(c)
  <2>1. /\ pod[c] = "releasing" /\ pod' = [pod EXCEPT ![c] = "removed"]
        /\ UNCHANGED <<podIp, pending>> /\ pending = NoReg
    BY <1>5 DEF ReleaseRecord, ReleaseContainer, regVars, Unlocked
  <2>2. OneCall'
    BY <1>1, <2>1 DEF OneCall
  <2>3. ASSUME NEW d \in Containers, pod'[d] = "ready", Held(d)
        PROVE  Kept(d)
    <3>1. d # c
      BY <1>1, <2>1, <2>3
    <3>2. UNCHANGED <<registered, leased, ifs>> \/ ReleaseContainer(c)
      BY <1>5 DEF ReleaseRecord, regVars
    <3> QED  BY <2>3, <3>1, <3>2, KeptByOthers
  <2> QED  BY <1>1, <2>1, <2>2, <2>3, PendingMoves, PodsKept
<1> QED  BY <1>2, <1>3, <1>4, <1>5 DEF RuntimeStep

LEMMA OperatorKeeps ==
  ASSUME ServiceInv,
         \/ \E c \in Containers : OperatorStep(c)
         \/ \E n \in CliNetworks : OperatorNetwork(n)
  PROVE  PendingIsPod' /\ OneCall' /\ PodKeepsAddress'
<1> USE DEF ServiceInv
<1>1. UNCHANGED <<pod, podIp, pending, registered, leased>>
  BY DEF OperatorStep, PublishPort, UnpublishPort, UnpublishAll, OperatorNetwork,
     RemoveNetwork, DefineNetwork, svcVars, regVars
<1>2. \/ UNCHANGED ifs
      \/ \E n \in CliNetworks : ifs' = [c \in Containers |-> {i \in ifs[c] : i.network # n}]
  BY DEF OperatorStep, PublishPort, UnpublishPort, UnpublishAll, OperatorNetwork,
     RemoveNetwork, DefineNetwork, svcVars, regVars
<1>3. PendingIsPod' /\ OneCall'
  BY <1>1, PendingMoves DEF OneCall
<1>4. ASSUME UNCHANGED ifs
      PROVE  PodKeepsAddress'
  BY <1>1, <1>4 DEF PodKeepsAddress
<1>5. ASSUME NEW n \in CliNetworks, ifs' = [c \in Containers |-> {i \in ifs[c] : i.network # n}]
      PROVE  PodKeepsAddress'
  <2> SUFFICES ASSUME NEW c \in Containers, pod[c] = "ready"
               PROVE  \/ ifs'[c] = {PodInterfaceAt(podIp[c])}
                      \/ PodNetwork \in CliNetworks /\ ifs'[c] = {}
    BY <1>1 DEF PodKeepsAddress, PodInterfaceAt
  <2>1. ifs'[c] = {i \in ifs[c] : i.network # n}
    BY <1>5
  <2>2. PodInterfaceAt(podIp[c]).network = PodNetwork
    BY DEF PodInterfaceAt
  <2>3. CASE ifs[c] = {}
    BY <2>1, <2>3 DEF PodKeepsAddress
  <2>4. CASE ifs[c] = {PodInterfaceAt(podIp[c])}
    BY <2>1, <2>2, <2>4
  <2> QED  BY <2>3, <2>4 DEF PodKeepsAddress, PodInterfaceAt
<1> QED  BY <1>2, <1>3, <1>4, <1>5

LEMMA ServiceInvStep == ServiceInv /\ [ServiceNext]_vars => ServiceInv'
<1> SUFFICES ASSUME ServiceInv, [ServiceNext]_vars PROVE ServiceInv'
  OBVIOUS
<1>1. RegistryInv'
  BY RegistryStep, InvStep DEF ServiceInv
<1>2. CASE ServiceNext
  <2>1. ServiceTypeOK' /\ HandlerHasMapping'
    BY <1>2, TracerTypes, OtherTypes DEF ServiceNext
  <2>2. PendingIsPod' /\ OneCall' /\ PodKeepsAddress'
    BY <1>2, TracerKeeps, RuntimeKeeps, OperatorKeeps DEF ServiceNext
  <2> QED  BY <1>1, <2>1, <2>2 DEF ServiceInv
<1>3. CASE UNCHANGED vars
  <2>1. ServiceTypeOK' /\ HandlerHasMapping'
    BY <1>3 DEF vars, svcVars, ServiceInv, ServiceTypeOK, HandlerHasMapping
  <2>2. PendingIsPod' /\ OneCall' /\ PodKeepsAddress'
    BY <1>3 DEF vars, svcVars, regVars, ServiceInv, PendingIsPod, OneCall, PodKeepsAddress
  <2> QED  BY <1>1, <2>1, <2>2 DEF ServiceInv
<1> QED  BY <1>2, <1>3

-----------------------------------------------------------------------------
(* Theorems of the service.                                                *)

LEMMA ServiceInvariant == ServiceSpec => []ServiceInv
<1> QED  BY ServiceInvInit, ServiceInvStep, PTL DEF ServiceSpec

(* The variables of VirtualNetworkService keep their types.                *)
THEOREM ServiceTypeCorrect == ServiceSpec => []ServiceTypeOK
<1>1. ServiceInv => ServiceTypeOK
  BY DEF ServiceInv
<1> QED  BY <1>1, ServiceInvariant, PTL

(* Every behaviour of the service, its handlers interleaved in any way, is *)
(* a behaviour of the registry.                                            *)
THEOREM ServiceImplementsRegistry == ServiceSpec => RegistrySpec
<1>1. ServiceInit => Init
  BY DEF ServiceInit
<1> QED
  BY <1>1, RegistryStep, ServiceInvariant, PTL DEF ServiceSpec, RegistrySpec, Spec

(* Two pods of the running service never hold the same address.            *)
THEOREM ServiceAddressesUnique == ServiceSpec => []AddressHeldOnce
<1> QED  BY ServiceImplementsRegistry, AddressesUnique, PTL DEF RegistrySpec

(* A pod keeps the address its sandbox was given until it is released, or  *)
(* an operator removes the pod network.                                    *)
THEOREM PodsKeepTheirAddress == ServiceSpec => []PodKeepsAddress
<1>1. ServiceInv => PodKeepsAddress
  BY DEF ServiceInv
<1> QED  BY <1>1, ServiceInvariant, PTL

-----------------------------------------------------------------------------
(* Lifetimes: what keeps a record, an address, a port and a listener.      *)

(* A tracer's registration is answered before it does anything else.       *)
PendingRequest ==
  pending # NoReg /\ pending.pid # NoPid =>
    pending.cid = PodOf[pending.pid] /\ handler[pending.pid].at = "regRecord"

(* Where a tracer can be while the service is serving its request.         *)
Serves(t) ==
  /\ handler[t].at \in {"regClear", "regRecord", "regRules"} => tracer[t] \in {"forked", "dead"}
  /\ handler[t].at \in {"bindActivate", "bindUndo"} =>
       /\ tracer[t] \in {"running", "dead"}
       /\ handler[t].mapping.pid = t /\ handler[t].mapping.cid = PodOf[t]

HandlerServes == \A t \in Pids : Serves(t)

(* The tracer is there, or died without a word, or is being unregistered.  *)
InUse(t) ==
  \/ tracer[t] \in {"running", "dead"}
  \/ tracer[t] = "done" /\ handler[t].at = "unregRecord"

Registered(t) == InUse(t) \/ (tracer[t] = "forked" /\ handler[t].at = "regRules")

PidsInUse == \A c \in Containers : \A t \in pids[c] : PodOf[t] = c /\ Registered(t)

PortsInUse == \A m \in ports : PodOf[m.pid] = m.cid /\ InUse(m.pid)

ForwarderInUse(a) ==
  /\ a.cid = a.mapping.cid /\ PodOf[a.mapping.pid] = a.cid
  /\ tracer[a.mapping.pid] \in {"running", "dead"}

(* Only the operator publishes a port whose tracer is already leaving.     *)
ForwardersInUse == CliRules = {} => \A a \in active : ForwarderInUse(a)

(* The lease of a namespace is the runtime's; without one a process of the *)
(* namespace keeps the record.                                             *)
LeaseOfPod == \A c \in leased : pod[c] \in {"ready", "releasing"}

RecordInUse == \A c \in registered : c \in leased \/ pids[c] # {}

(* interfaces_by_ip names nobody who has no such interface.                *)
Backs(S, n, a) == \E i \in S : i.network = n /\ i.ip = a

AddressesBacked ==
  \A n \in Networks, a \in IPs, c \in Containers : byIp[n][a] = c =>
    Backs(ifs[c], n, a) \/ (pending # NoReg /\ pending.cid = c /\ Backs(pending.done, n, a))

NobodyKilled == ~MayKill => \A t \in Pids : tracer[t] # "dead"

LifetimeInv ==
  /\ PendingRequest /\ HandlerServes /\ PidsInUse /\ PortsInUse
  /\ ForwardersInUse /\ LeaseOfPod /\ RecordInUse /\ AddressesBacked
  /\ NobodyKilled

-----------------------------------------------------------------------------
(* What the registry alone keeps: records in use, addresses that are held. *)

LEMMA RecordStep ==
  ASSUME RegistryInv, RecordInUse, [Next]_regVars
  PROVE  RecordInUse'
<1> USE DEF RecordInUse, RegistryInv, TypeOK
<1>1. CASE UNCHANGED <<registered, leased, pids>>
  BY <1>1
<1>2. ASSUME NEW c \in Containers, NEW pid \in Pids \cup {NoPid}, NEW request \in Requests,
             EnsureKnown(c, pid, request)
      PROVE  RecordInUse'
  BY <1>2 DEF EnsureKnown
<1>3. CASE FinishEnsure
  <2>1. pending.cid \in Containers
    BY <1>3 DEF FinishEnsure, Unlocked, Registration
  <2> QED  BY <1>3, <2>1 DEF FinishEnsure
<1>4. ASSUME NEW c \in Containers, ReleaseContainer(c)
      PROVE  RecordInUse'
  BY <1>4 DEF ReleaseContainer
<1>5. ASSUME NEW c \in Containers, NEW pid \in Pids, UnregisterPid(c, pid)
      PROVE  RecordInUse'
  BY <1>5 DEF UnregisterPid
<1>6. \/ UNCHANGED <<registered, leased, pids>>
      \/ \E c \in Containers, pid \in Pids \cup {NoPid}, request \in Requests :
           EnsureKnown(c, pid, request)
      \/ FinishEnsure
      \/ \E c \in Containers : ReleaseContainer(c)
      \/ \E c \in Containers, pid \in Pids : UnregisterPid(c, pid)
  BY DEF Next, DefineNetwork, RemoveNetwork, PeerNetworks, UnpeerNetworks, BeginEnsure,
     RegisterInterface, RefuseInterface, UnregisterLast, BindPort, ReleasePortMapping, regVars
<1> QED  BY <1>1, <1>2, <1>3, <1>4, <1>5, <1>6

LEMMA AddressesStep ==
  ASSUME RegistryInv, PendingIsPod, AddressesBacked, [Next]_regVars
  PROVE  AddressesBacked'
<1> USE DEF RegistryInv
<1>0. TypeOK
  OBVIOUS
<1>1. CASE UNCHANGED <<byIp, ifs, pending>>
  BY <1>1 DEF AddressesBacked, Backs
<1>2. ASSUME NEW c \in Containers, NEW pid \in Pids \cup {NoPid}, NEW request \in Requests,
             BeginEnsure(c, pid, request)
      PROVE  AddressesBacked'
  BY <1>2 DEF BeginEnsure, Unlocked, AddressesBacked, Backs
<1>3. CASE RegisterInterface
  <2>1. PICK k \in Networks, net \in NetworkState, i \in Interface : InterfaceTaken(k, net, i)
    BY <1>0, <1>3, RegisterInterfaceEffect
  <2>2. pending # NoReg /\ pending \in Registration /\ UNCHANGED ifs
    BY <1>0, <1>3 DEF RegisterInterface, Unlocked, TypeOK
  <2>3. /\ pending' \in Registration
        /\ pending'.cid = pending.cid /\ pending'.done = pending.done \cup {i}
    BY <2>1, <2>2 DEF InterfaceTaken, Registration
  <2>4. pending' # NoReg
    BY <2>3, NoneAssumption
  <2> SUFFICES ASSUME NEW n \in Networks, NEW b \in IPs, NEW c \in Containers, byIp'[n][b] = c
               PROVE  Backs(ifs'[c], n, b) \/ (pending'.cid = c /\ Backs(pending'.done, n, b))
    BY <2>4 DEF AddressesBacked, Backs
  <2>5. CASE n = i.network /\ b = i.ip
    <3>1. byIp'[n][b] = pending.cid
      BY <1>0, <2>1, <2>5 DEF TypeOK, InterfaceTaken
    <3> QED  BY <2>3, <2>5, <3>1 DEF Backs
  <2>6. CASE ~(n = i.network /\ b = i.ip)
    <3>1. byIp'[n][b] = byIp[n][b]
      BY <1>0, <2>1, <2>6 DEF TypeOK, InterfaceTaken
    <3> QED  BY <2>2, <2>3, <3>1 DEF AddressesBacked, Backs
  <2> QED  BY <2>5, <2>6
<1>4. CASE RefuseInterface
  <2>1. pending # NoReg /\ pending.done = {}
    BY <1>4 DEF RefuseInterface, Unlocked, PendingIsPod
  <2> QED  BY <1>4, <2>1 DEF RefuseInterface, AddressesBacked, Backs
<1>5. CASE FinishEnsure
  <2>1. pending # NoReg /\ pending.cid \in Containers /\ ifs[pending.cid] = {}
    BY <1>0, <1>5 DEF FinishEnsure, Unlocked, TypeOK, Registration, PendingBacked,
       UnrecordedIsEmpty
  <2>2. ifs' = [ifs EXCEPT ![pending.cid] = pending.done] /\ UNCHANGED byIp
    BY <1>5 DEF FinishEnsure
  <2> QED  BY <1>0, <2>1, <2>2 DEF AddressesBacked, Backs, TypeOK
<1>6. ASSUME NEW c \in Containers, ReleaseContainer(c)
      PROVE  AddressesBacked'
  <2> SUFFICES ASSUME NEW n \in Networks, NEW b \in IPs, NEW d \in Containers, byIp'[n][b] = d
               PROVE  Backs(ifs'[d], n, b)
    BY DEF AddressesBacked
  <2>1. byIp'[n][b] = IF Backs(ifs[c], n, b) THEN Free ELSE byIp[n][b]
    BY <1>6 DEF ReleaseContainer, Backs
  <2>2. byIp[n][b] = d /\ ~Backs(ifs[c], n, b)
    BY <2>1, NoneAssumption
  <2>3. Backs(ifs[d], n, b)
    BY <1>6, <2>2 DEF ReleaseContainer, Unlocked, AddressesBacked
  <2>4. d # c
    BY <2>2, <2>3
  <2> QED  BY <1>0, <1>6, <2>3, <2>4 DEF ReleaseContainer, TypeOK
<1>7. ASSUME NEW n \in Networks, RemoveNetwork(n)
      PROVE  AddressesBacked'
  <2> SUFFICES ASSUME NEW k \in Networks, NEW b \in IPs, NEW d \in Containers, byIp'[k][b] = d
               PROVE  Backs(ifs'[d], k, b)
    BY DEF AddressesBacked
  <2>1. k # n /\ byIp[k][b] = d
    BY <1>0, <1>7, NoneAssumption DEF RemoveNetwork, TypeOK
  <2>2. Backs(ifs[d], k, b)
    BY <1>7, <2>1 DEF RemoveNetwork, Unlocked, AddressesBacked
  <2> QED  BY <1>7, <2>1, <2>2 DEF RemoveNetwork, Backs
<1>8. \/ UNCHANGED <<byIp, ifs, pending>>
      \/ \E c \in Containers, pid \in Pids \cup {NoPid}, request \in Requests :
           BeginEnsure(c, pid, request)
      \/ RegisterInterface \/ RefuseInterface \/ FinishEnsure
      \/ \E c \in Containers : ReleaseContainer(c)
      \/ \E n \in Networks : RemoveNetwork(n)
  BY DEF Next, DefineNetwork, PeerNetworks, UnpeerNetworks, EnsureKnown, UnregisterPid,
     UnregisterLast, BindPort, ReleasePortMapping, regVars
<1> QED  BY <1>1, <1>2, <1>3, <1>4, <1>5, <1>6, <1>7, <1>8

-----------------------------------------------------------------------------
(* What a step of a tracer's connection does to tracers and handlers.      *)

LEMMA HandlerGo ==
  ASSUME HandlerType, NEW t \in Pids, NEW at \in HandlerAt, Go(t, at)
  PROVE  /\ handler'[t].at = at /\ handler'[t].mapping = handler[t].mapping
         /\ \A u \in Pids \ {t} : handler'[u] = handler[u]
BY DEF HandlerType, Go

LEMMA HandlerAnswer ==
  ASSUME HandlerType, NEW t \in Pids, Answer(t)
  PROVE  /\ handler'[t].at = "idle"
         /\ \A u \in Pids \ {t} : handler'[u] = handler[u]
BY DEF HandlerType, Answer, Idle

(* The other tracers and their connections are not touched.                *)
LEMMA OthersUntouched ==
  ASSUME ServiceInv, NEW t \in Pids, TracerStep(t)
  PROVE  \A u \in Pids \ {t} : handler'[u] = handler[u] /\ tracer'[u] = tracer[u]
<1> USE DEF HandlerAt
<1>1. HandlerType /\ tracer \in [Pids -> {"new", "forked", "running", "failed", "done", "dead"}]
  BY DEF HandlerType, ServiceInv, ServiceTypeOK
<1>2. \/ UNCHANGED handler
      \/ Answer(t)
      \/ \E at \in HandlerAt : Go(t, at)
      \/ \E h : handler' = [handler EXCEPT ![t] = h]
  BY DEF TracerStep, Fork, RegisterStart, RegisterClear, RegisterRules, BindActivate,
     UnregisterStart, UnregisterClear, Kill, RegisterRecord, RegisterRecorded,
     RegisterDenied, Bind, BindUndo, UnregisterRecord
<1>3. \A u \in Pids \ {t} : handler'[u] = handler[u]
  <2>1. ASSUME NEW h, handler' = [handler EXCEPT ![t] = h]
        PROVE  \A u \in Pids \ {t} : handler'[u] = handler[u]
    BY <1>1, <2>1 DEF HandlerType
  <2> QED  BY <1>1, <1>2, <2>1, HandlerGo, HandlerAnswer
<1>4. \/ UNCHANGED tracer
      \/ \E s \in {"new", "forked", "running", "failed", "done", "dead"} :
           tracer' = [tracer EXCEPT ![t] = s]
  BY DEF TracerStep, Fork, RegisterStart, RegisterClear, RegisterRules, BindActivate,
     UnregisterStart, UnregisterClear, Kill, RegisterRecord, RegisterRecorded,
     RegisterDenied, Failed, Bind, BindUndo, UnregisterRecord
<1>5. \A u \in Pids \ {t} : tracer'[u] = tracer[u]
  BY <1>1, <1>4
<1> QED  BY <1>3, <1>5

(* The tracer itself moves along its life, with its connection.            *)
Moves(t) ==
  /\ Serves(t)'
  /\ InUse(t) => InUse(t)' \/ UnregisterRecord(t)
  /\ Registered(t) => Registered(t)' \/ UnregisterRecord(t)
  /\ tracer[t] \in {"running", "dead"} => tracer'[t] \in {"running", "dead"} \/ UnregisterStart(t)
  /\ tracer'[t] = "dead" => tracer[t] = "dead" \/ MayKill

LEMMA TracerMoves ==
  ASSUME ServiceInv, PendingRequest, HandlerServes, NEW t \in Pids, TracerStep(t)
  PROVE  Moves(t)
<1> USE DEF HandlerAt
<1>1. /\ HandlerType /\ Serves(t)
      /\ tracer \in [Pids -> {"new", "forked", "running", "failed", "done", "dead"}]
  BY DEF HandlerType, ServiceInv, ServiceTypeOK, HandlerServes
<1> USE DEF Moves, Serves, InUse, Registered
<1>2. CASE Fork(t)
  BY <1>1, <1>2 DEF Fork
<1>3. CASE RegisterStart(t)
  <2>1. handler'[t].at = "regClear" /\ UNCHANGED tracer /\ tracer[t] = "forked"
        /\ handler[t].at = "idle"
    BY <1>1, <1>3 DEF RegisterStart, HandlerType
  <2> QED  BY <2>1
<1>4. CASE RegisterClear(t)
  <2>1. handler'[t].at = "regRecord" /\ UNCHANGED tracer /\ handler[t].at = "regClear"
    BY <1>1, <1>4, HandlerGo DEF RegisterClear
  <2> QED  BY <1>1, <2>1
<1>5. CASE RegisterRecord(t)
  <2>1. UNCHANGED handler \/ handler'[t].at = "regRules"
    BY <1>1, <1>5, HandlerGo DEF RegisterRecord
  <2>2. UNCHANGED tracer /\ handler[t].at = "regRecord"
    BY <1>5 DEF RegisterRecord
  <2> QED  BY <1>1, <2>1, <2>2
<1>6. CASE RegisterRecorded(t)
  <2>1. UNCHANGED handler \/ handler'[t].at = "regRules"
    BY <1>1, <1>6, HandlerGo DEF RegisterRecorded
  <2>2. t # NoPid
    BY NoneAssumption
  <2>3. UNCHANGED tracer /\ handler[t].at = "regRecord"
    BY <1>6, <2>2 DEF RegisterRecorded, PendingRequest, Unlocked
  <2> QED  BY <1>1, <2>1, <2>3
<1>7. CASE RegisterDenied(t)
  <2>1. handler'[t].at = "idle" /\ tracer' = Failed(t)
    BY <1>1, <1>7, HandlerAnswer DEF RegisterDenied
  <2>2. t # NoPid
    BY NoneAssumption
  <2>3. handler[t].at = "regRecord"
    BY <1>7, <2>2 DEF RegisterDenied, PendingRequest, Unlocked
  <2>4. tracer'[t] = IF tracer[t] = "forked" THEN "failed" ELSE tracer[t]
    BY <1>1, <2>1 DEF Failed
  <2> QED  BY <1>1, <2>1, <2>3, <2>4
<1>8. CASE RegisterRules(t)
  <2>1. handler'[t].at = "idle" /\ handler[t].at = "regRules"
    BY <1>1, <1>8, HandlerAnswer DEF RegisterRules
  <2>2. tracer'[t] = IF tracer[t] = "forked" THEN "running" ELSE tracer[t]
    BY <1>1, <1>8 DEF RegisterRules
  <2> QED  BY <1>1, <2>1, <2>2
<1>9. ASSUME NEW i \in ifs[PodOf[t]], NEW address \in {AnyIp, Loopback}, NEW port \in Ports,
             Bind(t, i, address, port)
      PROVE  Moves(t)
  <2> DEFINE m == MappingFor(PodOf[t], t, i, address, port)
  <2>1. m.pid = t /\ m.cid = PodOf[t]
    BY DEF MappingFor
  <2>2. handler' = [handler EXCEPT ![t] = [at |-> "bindActivate", had |-> FALSE, mapping |-> m]]
    BY <1>9 DEF Bind
  <2> HIDE DEF m
  <2>3. handler'[t].at = "bindActivate" /\ handler'[t].mapping = m
    BY <1>1, <2>2 DEF HandlerType
  <2>4. UNCHANGED tracer /\ tracer[t] = "running"
    BY <1>9 DEF Bind
  <2> QED  BY <2>1, <2>3, <2>4
<1>10. CASE BindActivate(t)
  <2>1. handler'[t].at = "idle"
        \/ (handler'[t].at = "bindUndo" /\ handler'[t].mapping = handler[t].mapping)
    BY <1>1, <1>10, HandlerAnswer, HandlerGo DEF BindActivate
  <2>2. UNCHANGED tracer /\ handler[t].at = "bindActivate"
    BY <1>10 DEF BindActivate
  <2> QED  BY <1>1, <2>1, <2>2
<1>11. CASE BindUndo(t)
  <2>1. handler'[t].at = "idle" /\ handler[t].at = "bindUndo" /\ UNCHANGED tracer
    BY <1>1, <1>11, HandlerAnswer DEF BindUndo
  <2> QED  BY <1>1, <2>1
<1>12. CASE UnregisterStart(t)
  <2>1. handler'[t].at = "unregRecord"
    BY <1>1, <1>12, HandlerGo DEF UnregisterStart
  <2>2. tracer'[t] = "done" /\ handler[t].at = "idle"
    BY <1>1, <1>12 DEF UnregisterStart
  <2> QED  BY <1>1, <1>12, <2>1, <2>2
<1>13. CASE UnregisterRecord(t)
  <2>1. handler'[t].at \in {"idle", "unregClear"}
    BY <1>1, <1>13, HandlerAnswer, HandlerGo DEF UnregisterRecord
  <2>2. UNCHANGED tracer
    BY <1>13 DEF UnregisterRecord
  <2> QED  BY <1>1, <1>13, <2>1, <2>2
<1>14. CASE UnregisterClear(t)
  <2>1. handler'[t].at = "idle" /\ handler[t].at = "unregClear" /\ UNCHANGED tracer
    BY <1>1, <1>14, HandlerAnswer DEF UnregisterClear
  <2> QED  BY <1>1, <2>1
<1>15. CASE Kill(t)
  <2>1. /\ UNCHANGED handler /\ MayKill
        /\ tracer'[t] = "dead" /\ tracer[t] \in {"forked", "running", "failed"}
    BY <1>1, <1>15 DEF Kill
  <2> QED  BY <1>1, <2>1
<1> QED
  BY <1>2, <1>3, <1>4, <1>5, <1>6, <1>7, <1>8, <1>9, <1>10, <1>11, <1>12,
     <1>13, <1>14, <1>15 DEF TracerStep

-----------------------------------------------------------------------------
(* A tracer's step keeps the lifetimes.                                    *)

LEMMA TracerPending ==
  ASSUME ServiceInv, PendingRequest, NEW t \in Pids, TracerStep(t)
  PROVE  PendingRequest'
<1> SUFFICES ASSUME pending' # NoReg, pending'.pid # NoPid
             PROVE  /\ pending'.cid = PodOf[pending'.pid]
                    /\ handler'[pending'.pid].at = "regRecord"
  BY DEF PendingRequest
<1>1. CASE RegisterRecord(t)
  <2>1. pending = NoReg
    BY <1>1 DEF RegisterRecord, EnsureKnown, BeginEnsure, Unlocked
  <2>2. BeginEnsure(PodOf[t], t, PodRequest(conf[t])) /\ UNCHANGED handler
    BY <1>1, <2>1 DEF RegisterRecord, EnsureKnown
  <2> QED  BY <1>1, <2>2 DEF BeginEnsure, RegisterRecord
<1>2. CASE RegisterRecorded(t)
  <2>1. RegisterInterface /\ UNCHANGED handler
    BY <1>2 DEF RegisterRecorded, FinishEnsure
  <2>2. pending # NoReg /\ pending \in Registration
    BY <2>1 DEF RegisterInterface, Unlocked, ServiceInv, RegistryInv, TypeOK
  <2>3. pending'.cid = pending.cid /\ pending'.pid = pending.pid
    BY <2>1, <2>2 DEF RegisterInterface, Registration
  <2> QED  BY <2>1, <2>2, <2>3 DEF PendingRequest
<1>3. CASE ~RegisterRecord(t) /\ ~RegisterRecorded(t)
  <2>1. UNCHANGED pending
    BY <1>3 DEF TracerStep, Fork, RegisterStart, RegisterClear, RegisterRules, BindActivate,
       UnregisterStart, UnregisterClear, Kill, RegisterDenied, RefuseInterface, Bind, BindPort,
       BindUndo, ReleasePortMapping, UnregisterRecord, UnregisterPid, UnregisterLast,
       ReleaseContainer, regVars
  <2>2. CASE pending.pid # t
    <3>1. pending.pid \in Pids
      BY <2>1 DEF ServiceInv, RegistryInv, TypeOK, Registration
    <3> QED  BY <2>1, <2>2, <3>1, OthersUntouched DEF PendingRequest
  <2>3. CASE pending.pid = t
    <3>1. handler[t].at = "regRecord"
      BY <2>1, <2>3 DEF PendingRequest
    <3>2. UNCHANGED handler
      BY <1>3, <2>1, <3>1 DEF TracerStep, Fork, RegisterStart, RegisterClear, RegisterRules,
         BindActivate, UnregisterStart, UnregisterClear, Kill, RegisterDenied, Unlocked,
         RefuseInterface, Bind, BindUndo, UnregisterRecord
    <3> QED  BY <2>1, <2>3, <3>1, <3>2 DEF PendingRequest
  <2> QED  BY <2>2, <2>3
<1> QED  BY <1>1, <1>2, <1>3

(* Whoever was in use stays so, except the one that is unregistered.       *)
LEMMA StillInUse ==
  ASSUME ServiceInv, PendingRequest, HandlerServes, NEW t \in Pids, TracerStep(t),
         NEW u \in Pids, u # t \/ ~UnregisterRecord(t)
  PROVE  /\ InUse(u) => InUse(u)'
         /\ Registered(u) => Registered(u)'
<1>1. CASE u = t
  BY <1>1, TracerMoves DEF Moves
<1>2. CASE u # t
  BY <1>2, OthersUntouched DEF InUse, Registered
<1> QED  BY <1>1, <1>2

LEMMA TracerPids ==
  ASSUME ServiceInv, PendingRequest, HandlerServes, PidsInUse, NEW t \in Pids, TracerStep(t)
  PROVE  PidsInUse'
<1> USE DEF PidsInUse, HandlerAt
<1>1. /\ PodOf[t] \in Containers /\ t # NoPid /\ HandlerType
      /\ pids \in [Containers -> SUBSET Pids]
  BY ServiceAssumption, NoneAssumption DEF ServiceInv, RegistryInv, TypeOK, ServiceTypeOK,
     HandlerType
<1>2. CASE UnregisterRecord(t)
  <2>1. \A c \in Containers : pids'[c] \subseteq pids[c] \ {t}
    <3>1. \A c \in Containers : t \in pids[c] => c = PodOf[t]
      OBVIOUS
    <3>2. CASE UnregisterPid(PodOf[t], t)
      BY <1>1, <3>1, <3>2 DEF UnregisterPid
    <3>3. CASE UnregisterLast(PodOf[t], t)
      BY <1>1, <3>1, <3>3 DEF UnregisterLast, ReleaseContainer
    <3>4. CASE PodOf[t] \notin registered /\ UNCHANGED regVars
      BY <1>1, <3>1, <3>4 DEF regVars, ServiceInv, RegistryInv, UnrecordedIsEmpty
    <3> QED  BY <1>2, <3>2, <3>3, <3>4 DEF UnregisterRecord
  <2> QED  BY <1>1, <2>1, StillInUse
<1>3. ASSUME ~UnregisterRecord(t), \A c \in Containers : pids'[c] \subseteq pids[c]
      PROVE  PidsInUse'
  BY <1>1, <1>3, StillInUse
<1>4. ASSUME ~UnregisterRecord(t), handler[t].at = "regRecord", Go(t, "regRules"), UNCHANGED tracer,
             \A c \in Containers : pids'[c] \subseteq pids[c] \cup {t},
             \A c \in Containers : t \in pids'[c] \ pids[c] => c = PodOf[t]
      PROVE  PidsInUse'
  <2>1. Registered(t)'
    BY <1>1, <1>4, HandlerGo DEF HandlerServes, Serves, Registered, InUse
  <2> QED  BY <1>1, <1>4, <2>1, StillInUse
<1>5. CASE EnsureKnown(PodOf[t], t, PodRequest(conf[t])) /\ RegisterRecord(t)
  <2>1. ~UnregisterRecord(t) /\ handler[t].at = "regRecord" /\ UNCHANGED tracer
    BY <1>5 DEF RegisterRecord, UnregisterRecord
  <2>2. Go(t, "regRules")
    BY <1>5 DEF RegisterRecord, EnsureKnown, BeginEnsure
  <2>3. pids' = [pids EXCEPT ![PodOf[t]] = @ \cup {t}]
    BY <1>1, <1>5 DEF EnsureKnown
  <2> QED  BY <1>1, <1>4, <2>1, <2>2, <2>3
<1>6. CASE FinishEnsure /\ RegisterRecorded(t)
  <2>1. pending # NoReg /\ pending.pid = t /\ UNCHANGED tracer
    BY <1>6 DEF RegisterRecorded, Unlocked
  <2>2. pending.cid = PodOf[t] /\ handler[t].at = "regRecord"
    BY <1>1, <2>1 DEF PendingRequest
  <2>3. pids' = [pids EXCEPT ![PodOf[t]] = {t}]
    <3>1. {t} \ {NoPid} = {t}
      BY <1>1
    <3> QED  BY <1>6, <2>1, <2>2, <3>1 DEF FinishEnsure
  <2>4. Go(t, "regRules")
    BY <1>6 DEF RegisterRecorded, FinishEnsure, RegisterInterface
  <2>5. ~UnregisterRecord(t)
    BY <2>2 DEF UnregisterRecord
  <2> QED  BY <1>1, <1>4, <2>1, <2>2, <2>3, <2>4, <2>5
<1>7. CASE /\ ~UnregisterRecord(t)
           /\ ~(EnsureKnown(PodOf[t], t, PodRequest(conf[t])) /\ RegisterRecord(t))
           /\ ~(FinishEnsure /\ RegisterRecorded(t))
  <2>1. UNCHANGED pids
    BY <1>7 DEF TracerStep, Fork, RegisterStart, RegisterClear, RegisterRules, BindActivate,
       UnregisterStart, UnregisterClear, Kill, RegisterDenied, RefuseInterface, Bind, BindPort,
       BindUndo, ReleasePortMapping, RegisterRecord, BeginEnsure, RegisterRecorded,
       RegisterInterface, regVars
  <2> QED  BY <1>3, <1>7, <2>1
<1> QED  BY <1>2, <1>5, <1>6, <1>7

LEMMA TracerPorts ==
  ASSUME ServiceInv, PendingRequest, HandlerServes, PortsInUse, NEW t \in Pids, TracerStep(t)
  PROVE  PortsInUse'
<1> USE DEF PortsInUse
<1>1. PodOf[t] \in Containers /\ \A m \in ports : m.pid \in Pids /\ m.cid \in registered
  BY ServiceAssumption DEF ServiceInv, RegistryInv, TypeOK, PortMapping, PortsBacked
<1>2. CASE UnregisterRecord(t)
  <2>1. \A m \in ports' : m \in ports /\ m.pid # t
    <3>1. CASE UnregisterPid(PodOf[t], t)
      BY <3>1 DEF UnregisterPid
    <3>2. CASE UnregisterLast(PodOf[t], t)
      BY <3>2 DEF UnregisterLast, ReleaseContainer
    <3>3. CASE PodOf[t] \notin registered /\ UNCHANGED regVars
      BY <1>1, <3>3 DEF regVars
    <3> QED  BY <1>2, <3>1, <3>2, <3>3 DEF UnregisterRecord
  <2> QED  BY <1>1, <2>1, StillInUse
<1>3. ASSUME NEW i \in ifs[PodOf[t]], NEW address \in {AnyIp, Loopback}, NEW port \in Ports,
             Bind(t, i, address, port)
      PROVE  PortsInUse'
  <2> DEFINE m == MappingFor(PodOf[t], t, i, address, port)
  <2>1. m.pid = t /\ m.cid = PodOf[t]
    BY DEF MappingFor
  <2>2. ports' = ports \cup {m}
    BY <1>3 DEF Bind, BindPort
  <2> HIDE DEF m
  <2>3. ~UnregisterRecord(t) /\ InUse(t)
    BY <1>3 DEF Bind, UnregisterRecord, InUse
  <2> QED  BY <1>1, <2>1, <2>2, <2>3, StillInUse
<1>4. CASE ports' \subseteq ports /\ ~UnregisterRecord(t)
  BY <1>1, <1>4, StillInUse
<1>5. \/ ports' \subseteq ports
      \/ \E i \in ifs[PodOf[t]], address \in {AnyIp, Loopback}, port \in Ports :
           Bind(t, i, address, port)
  BY DEF TracerStep, Fork, RegisterStart, RegisterClear, RegisterRules, BindActivate,
     UnregisterStart, UnregisterClear, Kill, RegisterDenied, RefuseInterface, BindUndo,
     ReleasePortMapping, RegisterRecord, EnsureKnown, BeginEnsure, RegisterRecorded,
     RegisterInterface, FinishEnsure, UnregisterRecord, UnregisterPid, UnregisterLast,
     ReleaseContainer, regVars
<1> QED  BY <1>2, <1>3, <1>4, <1>5

LEMMA TracerForwarders ==
  ASSUME ServiceInv, PendingRequest, HandlerServes, ForwardersInUse, NEW t \in Pids, TracerStep(t)
  PROVE  ForwardersInUse'
<1> SUFFICES ASSUME CliRules = {} PROVE \A a \in active' : ForwarderInUse(a)'
  BY DEF ForwardersInUse
<1>1. \A a \in active : ForwarderInUse(a) /\ a.mapping.pid \in Pids
  BY DEF ForwardersInUse, ServiceInv, ServiceTypeOK, ActivePublish, PortMapping
<1>2. ASSUME NEW a \in active, a.mapping.pid # t \/ ~UnregisterStart(t)
      PROVE  ForwarderInUse(a)'
  <2>1. CASE a.mapping.pid = t
    BY <1>1, <1>2, <2>1, TracerMoves DEF Moves, ForwarderInUse
  <2>2. CASE a.mapping.pid # t
    BY <1>1, <2>2, OthersUntouched DEF ForwarderInUse
  <2> QED  BY <2>1, <2>2
<1>3. CASE UnregisterStart(t)
  <2>1. \A a \in active' : a \in active /\ ~(a.mapping.cid = PodOf[t] /\ a.mapping.pid = t)
    BY <1>3 DEF UnregisterStart
  <2>2. \A a \in active' : a \in active /\ a.mapping.pid # t
    BY <1>1, <2>1 DEF ForwarderInUse
  <2> QED  BY <1>2, <2>2
<1>4. CASE BindActivate(t)
  <2>1. PICK m : m = handler[t].mapping
    OBVIOUS
  <2>2. /\ handler[t].at = "bindActivate" /\ UNCHANGED tracer
        /\ active' \subseteq active \cup {Publish(m.cid, r, m) : r \in RulesToStart(m)}
    BY <1>4, <2>1 DEF BindActivate
  <2>3. m.pid = t /\ m.cid = PodOf[t] /\ tracer[t] \in {"running", "dead"}
    BY <2>1, <2>2 DEF HandlerServes, Serves
  <2>4. ~UnregisterStart(t)
    BY <2>2 DEF UnregisterStart
  <2>5. ASSUME NEW a \in active'
        PROVE  ForwarderInUse(a)'
    <3>1. CASE a \in active
      BY <1>2, <2>4, <3>1
    <3>2. CASE \E r \in RulesToStart(m) : a = Publish(m.cid, r, m)
      <4>1. a.cid = m.cid /\ a.mapping = m
        BY <3>2 DEF Publish
      <4> QED  BY <2>2, <2>3, <4>1 DEF ForwarderInUse
    <3> QED  BY <2>2, <3>1, <3>2
  <2> QED  BY <2>5
<1>5. CASE ~UnregisterStart(t) /\ ~BindActivate(t)
  <2>1. active' \subseteq active
    BY <1>5 DEF TracerStep, Fork, RegisterStart, RegisterClear, RemovePublishedPorts, RegisterRules,
       UnregisterClear, Kill, RegisterDenied, Bind, BindUndo, RegisterRecord, RegisterRecorded,
       UnregisterRecord
  <2> QED  BY <1>2, <1>5, <2>1
<1> QED  BY <1>3, <1>4, <1>5

LEMMA TracerLease ==
  ASSUME ServiceInv, LeaseOfPod, NEW t \in Pids, TracerStep(t)
  PROVE  LeaseOfPod'
<1>1. t # NoPid
  BY NoneAssumption
<1>2. leased' \subseteq leased /\ UNCHANGED pod
  BY <1>1 DEF TracerStep, Fork, RegisterStart, RegisterClear, RegisterRules, BindActivate,
     UnregisterStart, UnregisterClear, Kill, RegisterDenied, RefuseInterface, Bind, BindPort,
     BindUndo, ReleasePortMapping, RegisterRecord, EnsureKnown, BeginEnsure, RegisterRecorded,
     RegisterInterface, FinishEnsure, UnregisterRecord, UnregisterPid, UnregisterLast,
     ReleaseContainer, regVars
<1> QED  BY <1>2 DEF LeaseOfPod

LEMMA TracerKilled ==
  ASSUME ServiceInv, PendingRequest, HandlerServes, NobodyKilled, NEW t \in Pids, TracerStep(t)
  PROVE  HandlerServes' /\ NobodyKilled'
<1>1. HandlerServes'
  BY TracerMoves, OthersUntouched DEF Moves, HandlerServes, Serves
<1>2. NobodyKilled'
  BY TracerMoves, OthersUntouched DEF Moves, NobodyKilled
<1> QED  BY <1>1, <1>2

-----------------------------------------------------------------------------
(* The runtime and the operator keep them, too.                            *)

LEMMA RuntimeLives ==
  ASSUME ServiceInv, LifetimeInv, NEW c \in Containers, RuntimeStep(c)
  PROVE  /\ PendingRequest' /\ HandlerServes' /\ PidsInUse' /\ PortsInUse'
         /\ ForwardersInUse' /\ LeaseOfPod' /\ NobodyKilled'
<1> USE DEF LifetimeInv
<1>1. UNCHANGED <<handler, tracer>>
  BY DEF RuntimeStep, AllocateStart, AllocateStep, ReleaseStart, ReleaseRecord
<1>2. HandlerServes' /\ NobodyKilled'
  BY <1>1 DEF HandlerServes, Serves, NobodyKilled
<1>3. ForwardersInUse'
  <2>1. active' \subseteq active
    BY DEF RuntimeStep, AllocateStart, AllocateStep, ReleaseStart, ReleaseRecord,
       RemovePublishedPorts
  <2> QED  BY <1>1, <2>1 DEF ForwardersInUse, ForwarderInUse
<1>4. PortsInUse'
  <2>1. ports' \subseteq ports
    BY DEF RuntimeStep, AllocateStart, AllocateStep, ReleaseStart, ReleaseRecord, BeginEnsure,
       RegisterInterface, RefuseInterface, FinishEnsure, ReleaseContainer, regVars
  <2> QED  BY <1>1, <2>1 DEF PortsInUse, InUse
<1>5. PendingRequest'
  <2>1. UNCHANGED pending \/ pending' = NoReg \/ pending'.pid = NoPid
    <3>1. CASE AllocateStart(c)
      BY <3>1 DEF AllocateStart, BeginEnsure
    <3>2. CASE AllocateStep(c)
      <4>1. pending \in Registration /\ pending.pid = NoPid
        BY <3>2 DEF AllocateStep, Unlocked, ServiceInv, RegistryInv, TypeOK
      <4> QED  BY <3>2, <4>1 DEF AllocateStep, RegisterInterface, RefuseInterface, FinishEnsure,
                  Registration
    <3>3. CASE ReleaseStart(c) \/ ReleaseRecord(c)
      BY <3>3 DEF ReleaseStart, ReleaseRecord, ReleaseContainer, regVars
    <3> QED  BY <3>1, <3>2, <3>3 DEF RuntimeStep
  <2> QED  BY <1>1, <2>1 DEF PendingRequest
<1>6. pids \in [Containers -> SUBSET Pids] /\ c \in Containers
      /\ pod \in [Containers -> {"none", "allocating", "ready", "releasing", "removed"}]
  BY DEF ServiceInv, RegistryInv, TypeOK, ServiceTypeOK
<1>7. CASE AllocateStep(c) /\ FinishEnsure
  <2>1. pending # NoReg /\ pending.pid = NoPid /\ pod[c] = "allocating"
    BY <1>7 DEF AllocateStep, Unlocked
  <2>2. pending.cid = c
    BY <1>6, <2>1 DEF ServiceInv, OneCall, RegistryInv, TypeOK, Registration
  <2>3. {pending.pid} \ {NoPid} = {}
    BY <2>1
  <2>4. pids' = [pids EXCEPT ![c] = {}] /\ leased' = leased \cup {c}
    BY <1>7, <2>1, <2>2, <2>3 DEF FinishEnsure
  <2>5. pod' = [pod EXCEPT ![c] = "ready"]
    BY <1>7 DEF AllocateStep, FinishEnsure, RegisterInterface, RefuseInterface
  <2>6. PidsInUse'
    BY <1>1, <1>6, <2>4 DEF PidsInUse, Registered, InUse
  <2>7. LeaseOfPod'
    BY <1>6, <2>4, <2>5 DEF LeaseOfPod
  <2> QED  BY <1>2, <1>3, <1>4, <1>5, <2>6, <2>7
<1>8. CASE ReleaseRecord(c)
  <2>1. \A d \in Containers : pids'[d] \subseteq pids[d]
    BY <1>6, <1>8 DEF ReleaseRecord, ReleaseContainer, regVars
  <2>2. leased' \subseteq leased \ {c}
    BY <1>8 DEF ReleaseRecord, ReleaseContainer, regVars, ServiceInv, RegistryInv,
       UnrecordedIsEmpty
  <2>3. pod' = [pod EXCEPT ![c] = "removed"] /\ leased \subseteq Containers
    BY <1>8 DEF ReleaseRecord, ServiceInv, RegistryInv, TypeOK
  <2>4. PidsInUse'
    BY <1>1, <1>6, <2>1 DEF PidsInUse, Registered, InUse
  <2>5. LeaseOfPod'
    BY <1>6, <2>2, <2>3 DEF LeaseOfPod
  <2> QED  BY <1>2, <1>3, <1>4, <1>5, <2>4, <2>5
<1>9. CASE ~(AllocateStep(c) /\ FinishEnsure) /\ ~ReleaseRecord(c)
  <2>1. UNCHANGED <<pids, leased>>
    BY <1>9 DEF RuntimeStep, AllocateStart, AllocateStep, ReleaseStart, BeginEnsure,
       RegisterInterface, RefuseInterface, regVars
  <2>2. pod[c] \in {"none", "allocating"} \/ pod' = [pod EXCEPT ![c] = "releasing"]
    BY <1>9 DEF RuntimeStep, AllocateStart, AllocateStep, ReleaseStart
  <2>3. \E s : pod' = [pod EXCEPT ![c] = s]
    <3>1. UNCHANGED pod => pod' = [pod EXCEPT ![c] = pod[c]]
      BY <1>6
    <3> QED  BY <1>9, <3>1 DEF RuntimeStep, AllocateStart, AllocateStep, ReleaseStart
  <2>4. PidsInUse'
    BY <1>1, <2>1 DEF PidsInUse, Registered, InUse
  <2>5. LeaseOfPod'
    BY <1>6, <2>1, <2>2, <2>3 DEF LeaseOfPod, ServiceInv, RegistryInv, TypeOK
  <2> QED  BY <1>2, <1>3, <1>4, <1>5, <2>4, <2>5
<1> QED  BY <1>7, <1>8, <1>9

LEMMA OperatorLives ==
  ASSUME ServiceInv, LifetimeInv,
         \/ \E c \in Containers : OperatorStep(c)
         \/ \E n \in CliNetworks : OperatorNetwork(n)
  PROVE  /\ PendingRequest' /\ HandlerServes' /\ PidsInUse' /\ PortsInUse'
         /\ ForwardersInUse' /\ LeaseOfPod' /\ NobodyKilled'
<1> USE DEF LifetimeInv
<1>1. UNCHANGED <<handler, tracer, pod, pending, pids, leased>> /\ ports' \subseteq ports
  BY DEF OperatorStep, PublishPort, UnpublishPort, UnpublishAll, OperatorNetwork,
     RemoveNetwork, DefineNetwork, svcVars, regVars
<1>2. CliRules = {} => active' \subseteq active
  BY DEF OperatorStep, PublishPort, UnpublishPort, UnpublishAll, OperatorNetwork, svcVars
<1>3. HandlerServes' /\ NobodyKilled' /\ PendingRequest' /\ LeaseOfPod'
  BY <1>1 DEF HandlerServes, Serves, NobodyKilled, PendingRequest, LeaseOfPod
<1>4. PidsInUse' /\ PortsInUse'
  BY <1>1 DEF PidsInUse, Registered, PortsInUse, InUse
<1>5. ForwardersInUse'
  BY <1>1, <1>2 DEF ForwardersInUse, ForwarderInUse
<1> QED  BY <1>3, <1>4, <1>5

-----------------------------------------------------------------------------
LEMMA LifetimeInit == ServiceInit => LifetimeInv
<1> SUFFICES ASSUME ServiceInit PROVE LifetimeInv
  OBVIOUS
<1> USE DEF ServiceInit, Init, Idle
<1>1. PendingRequest /\ HandlerServes /\ NobodyKilled
  BY DEF PendingRequest, HandlerServes, Serves, NobodyKilled
<1>2. PidsInUse /\ PortsInUse /\ ForwardersInUse
  BY DEF PidsInUse, PortsInUse, ForwardersInUse
<1>3. LeaseOfPod /\ RecordInUse
  BY DEF LeaseOfPod, RecordInUse
<1>4. AddressesBacked
  BY NoneAssumption DEF AddressesBacked
<1> QED  BY <1>1, <1>2, <1>3, <1>4 DEF LifetimeInv

LEMMA LifetimeStep == ServiceInv /\ LifetimeInv /\ [ServiceNext]_vars => LifetimeInv'
<1> SUFFICES ASSUME ServiceInv, LifetimeInv, [ServiceNext]_vars PROVE LifetimeInv'
  OBVIOUS
<1>1. RecordInUse' /\ AddressesBacked'
  BY RegistryStep, RecordStep, AddressesStep DEF ServiceInv, LifetimeInv
<1>2. ASSUME NEW t \in Pids, TracerStep(t)
      PROVE  LifetimeInv'
  BY <1>1, <1>2, TracerPending, TracerKilled, TracerPids, TracerPorts, TracerForwarders,
     TracerLease DEF LifetimeInv
<1>3. CASE \E c \in Containers : RuntimeStep(c)
  BY <1>1, <1>3, RuntimeLives DEF LifetimeInv
<1>4. CASE \/ \E c \in Containers : OperatorStep(c)
           \/ \E n \in CliNetworks : OperatorNetwork(n)
  BY <1>1, <1>4, OperatorLives DEF LifetimeInv
<1>5. CASE UNCHANGED vars
  <2>1. UNCHANGED <<handler, tracer, pod, pending, pids, leased, ports, active>>
    BY <1>5 DEF vars, svcVars, regVars
  <2>2. HandlerServes' /\ NobodyKilled' /\ PendingRequest' /\ LeaseOfPod'
    BY <2>1 DEF LifetimeInv, HandlerServes, Serves, NobodyKilled, PendingRequest, LeaseOfPod
  <2>3. PidsInUse' /\ PortsInUse' /\ ForwardersInUse'
    BY <2>1 DEF LifetimeInv, PidsInUse, Registered, PortsInUse, InUse, ForwardersInUse,
       ForwarderInUse
  <2> QED  BY <1>1, <2>2, <2>3 DEF LifetimeInv
<1> QED  BY <1>2, <1>3, <1>4, <1>5 DEF ServiceNext

LEMMA LifetimeInvariant == ServiceSpec => [](ServiceInv /\ LifetimeInv)
<1>1. ServiceInv /\ LifetimeInv /\ [ServiceNext]_vars => (ServiceInv /\ LifetimeInv)'
  BY ServiceInvStep, LifetimeStep
<1> QED  BY <1>1, ServiceInvInit, LifetimeInit, PTL DEF ServiceSpec

(* A virtual port, and the host listener that forwards to it, outlive the  *)
(* process that bound the port only when that process was killed, whatever *)
(* the other tracers, the runtime and the operator's networks do.  (The    *)
(* operator can publish a port whose tracer is already leaving.)           *)
OnlyKilledLinger == Quiescent =>
  /\ \A m \in ports : tracer[m.pid] \in {"running", "dead"}
  /\ CliRules = {} => \A a \in active : tracer[a.mapping.pid] \in {"running", "dead"}

THEOREM PortsOutlivedByTheKilled == ServiceSpec => []OnlyKilledLinger
<1>1. ASSUME ServiceInv, LifetimeInv, Quiescent
      PROVE  /\ \A m \in ports : tracer[m.pid] \in {"running", "dead"}
             /\ CliRules = {} => \A a \in active : tracer[a.mapping.pid] \in {"running", "dead"}
  <2>1. \A t \in Pids : handler[t].at = "idle"
    BY <1>1 DEF Quiescent
  <2>2. \A m \in ports : m.pid \in Pids
    BY <1>1 DEF ServiceInv, RegistryInv, TypeOK, PortMapping
  <2>3. \A m \in ports : tracer[m.pid] \in {"running", "dead"}
    BY <1>1, <2>1, <2>2 DEF LifetimeInv, PortsInUse, InUse
  <2>4. CliRules = {} => \A a \in active : tracer[a.mapping.pid] \in {"running", "dead"}
    BY <1>1 DEF LifetimeInv, ForwardersInUse, ForwarderInUse
  <2> QED  BY <2>3, <2>4
<1>2. ServiceInv /\ LifetimeInv => OnlyKilledLinger
  BY <1>1 DEF OnlyKilledLinger
<1> QED  BY <1>2, LifetimeInvariant, PTL

(* When nobody is killed and the operator publishes nothing, a port and    *)
(* its listener last exactly as long as the process that bound the port.   *)
Undisturbed == ~MayKill /\ CliRules = {}

THEOREM PortsLastWithTheirProcess == ServiceSpec => [](Undisturbed => PortsOfLivePids)
<1>1. ASSUME ServiceInv, LifetimeInv, Undisturbed, Quiescent, OnlyKilledLinger
      PROVE  /\ \A m \in ports : tracer[m.pid] = "running"
             /\ \A a \in active : tracer[a.mapping.pid] = "running"
  <2>1. \A t \in Pids : tracer[t] # "dead"
    BY <1>1 DEF Undisturbed, LifetimeInv, NobodyKilled
  <2>2. /\ \A m \in ports : m.pid \in Pids
        /\ \A a \in active : a.mapping.pid \in Pids
    BY <1>1 DEF ServiceInv, RegistryInv, TypeOK, ServiceTypeOK, ActivePublish, PortMapping
  <2> QED  BY <1>1, <2>1, <2>2 DEF OnlyKilledLinger, Undisturbed
<1>2. ServiceInv /\ LifetimeInv /\ OnlyKilledLinger => (Undisturbed => PortsOfLivePids)
  BY <1>1 DEF PortsOfLivePids
<1> QED  BY <1>2, LifetimeInvariant, PortsOutlivedByTheKilled, PTL

(* When a pod is released and its own processes have ended and said so, in *)
(* whatever order the sections of their handlers ran and whatever happened *)
(* to the tracers of other pods, its namespace has no record, no address   *)
(* in any network, no port and, without an operator, no host listener.     *)
PodEnded(c) ==
  /\ pod[c] = "removed"
  /\ \A t \in Pids : PodOf[t] = c => tracer[t] \in {"new", "done"}

EndedPodsHoldNothing == Quiescent => \A c \in Containers : PodEnded(c) =>
  /\ c \notin registered /\ \A n \in Networks, a \in IPs : byIp[n][a] # c
  /\ \A m \in ports : m.cid # c
  /\ CliRules = {} => \A a \in active : a.cid # c

THEOREM EndedPodsLeaveNothing == ServiceSpec => []EndedPodsHoldNothing
<1>1. ASSUME ServiceInv, LifetimeInv, Quiescent, NEW c \in Containers, PodEnded(c)
      PROVE  /\ c \notin registered /\ \A n \in Networks, a \in IPs : byIp[n][a] # c
             /\ \A m \in ports : m.cid # c
             /\ CliRules = {} => \A a \in active : a.cid # c
  <2>1. \A t \in Pids : handler[t].at = "idle"
    BY <1>1 DEF Quiescent
  <2>2. c \notin registered
    <3>1. c \notin leased
      BY <1>1 DEF PodEnded, LifetimeInv, LeaseOfPod
    <3>2. pids[c] = {}
      <4>1. pids[c] \subseteq Pids
        BY <1>1 DEF ServiceInv, RegistryInv, TypeOK
      <4> QED
        BY <1>1, <2>1, <4>1 DEF PodEnded, LifetimeInv, PidsInUse, Registered, InUse
    <3> QED  BY <1>1, <3>1, <3>2 DEF LifetimeInv, RecordInUse
  <2>3. \A n \in Networks, a \in IPs : byIp[n][a] # c
    <3>1. ifs[c] = {} /\ pending = NoReg
      BY <1>1, <2>2 DEF ServiceInv, RegistryInv, UnrecordedIsEmpty, Quiescent, Unlocked
    <3> QED  BY <1>1, <3>1 DEF LifetimeInv, AddressesBacked, Backs
  <2>4. \A m \in ports : m.cid # c
    BY <1>1, <2>2 DEF ServiceInv, RegistryInv, PortsBacked
  <2>5. CliRules = {} => \A a \in active : a.cid # c
    <3>1. \A a \in active : a.mapping.pid \in Pids
      BY <1>1 DEF ServiceInv, ServiceTypeOK, ActivePublish, PortMapping
    <3> QED
      BY <1>1, <3>1 DEF PodEnded, LifetimeInv, ForwardersInUse, ForwarderInUse
  <2> QED  BY <2>2, <2>3, <2>4, <2>5
<1>2. ServiceInv /\ LifetimeInv => EndedPodsHoldNothing
  BY <1>1 DEF EndedPodsHoldNothing
<1> QED  BY <1>2, LifetimeInvariant, PTL

(* When nobody is killed and the operator publishes nothing, a pod that is *)
(* gone has left nothing in the service.                                   *)
THEOREM GonePodsLeaveNothing == ServiceSpec => [](Undisturbed => NothingLeft)
<1>1. ASSUME ServiceInv, LifetimeInv, EndedPodsHoldNothing, Undisturbed, Quiescent,
             NEW c \in Containers, PodGone(c)
      PROVE  /\ c \notin registered /\ \A a \in IPs : byIp[PodNetwork][a] # c
             /\ \A m \in ports : m.cid # c
             /\ \A a \in active : a.cid # c
  <2>1. PodEnded(c)
    BY <1>1 DEF PodGone, PodEnded, Undisturbed, LifetimeInv, NobodyKilled
  <2>2. PodNetwork \in Networks
    BY ServiceAssumption
  <2> QED  BY <1>1, <2>1, <2>2 DEF EndedPodsHoldNothing, Undisturbed
<1>2. ServiceInv /\ LifetimeInv /\ EndedPodsHoldNothing => (Undisturbed => NothingLeft)
  BY <1>1 DEF NothingLeft
<1> QED  BY <1>2, LifetimeInvariant, EndedPodsLeaveNothing, PTL
=============================================================================
