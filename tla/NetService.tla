------------------------------ MODULE NetService ------------------------------
(***************************************************************************)
(* VirtualNetworkService of netservice/server.py with its clients.  Each   *)
(* client connection has a handler thread; a handler is a sequence of      *)
(* sections, each under the registry lock or under _publish_lock, and the  *)
(* sections of different handlers interleave.  The registry is NetRegistry:*)
(* a registry section is one of its actions.                               *)
(*                                                                         *)
(* Clients: one tracer per pid (run_tracee: register, binds, unregister),  *)
(* the CRI runtime, which allocates a pod's network and releases it, one   *)
(* call at a time, and the operator's CLI.  A tracer may be killed at any  *)
(* moment (ContainerizedProcess.terminate signals the whole process group, *)
(* supervisor included): its request in progress is still served, but      *)
(* nothing more is sent, and the service does nothing when it disconnects. *)
(*                                                                         *)
(* connect_request and the list requests change no state of the service    *)
(* (RouteConnect in NetRegistry is what a connect resolves to).            *)
(***************************************************************************)
EXTENDS NetRegistry

CONSTANTS
  Hosts,          \* (host ip, host port) a forwarder may listen on
  PodOf,          \* the namespace each tracer belongs to
  PodRules,       \* published_ports of a pod: the rules its tracers send
  PodInterface,   \* name of the interface of a pod
  PodNetwork,     \* --pod-network
  CliRules,       \* the rules the operator may publish
  CliNetworks,    \* the networks the operator may remove and define
  MayKill,        \* tracers may be killed
  MaxBinds,       \* bound on the bind requests of one tracer
  NoMapping

Rule == [host : Hosts, port : Ports]
ActivePublish == [cid : Containers, rule : Rule, mapping : PortMapping]

ASSUME ServiceAssumption ==
  /\ PodOf \in [Pids -> Containers]
  /\ PodRules \in [Containers -> SUBSET Rule]
  /\ CliRules \subseteq Rule /\ CliNetworks \subseteq Networks
  /\ PodInterface \in IfNames /\ PodNetwork \in Networks
  /\ MayKill \in BOOLEAN /\ MaxBinds \in Nat
  /\ NoMapping \notin PortMapping
  /\ <<[name |-> PodInterface, network |-> PodNetwork, ip |-> AnyIp]>> \in Requests
  /\ \A a \in IPs :
       <<[name |-> PodInterface, network |-> PodNetwork, ip |-> a]>> \in Requests

VARIABLES
  publishRules,   \* self.publish_rules
  active,         \* the values of self.active_publishes
  handler,        \* where the handler thread of each tracer's connection is
  tracer,         \* where the tracer itself is
  conf,           \* the address in the network config a tracer was forked with
  binds,          \* how many bind requests a tracer has sent
  pod,            \* the runtime's view of each pod's network
  podIp           \* sandbox["network"]["ip"]

svcVars == <<publishRules, active, handler, tracer, conf, binds, pod, podIp>>
vars == <<regVars, svcVars>>

HandlerAt == {"idle", "regClear", "regRecord", "regRules",
              "bindActivate", "bindUndo", "unregRecord", "unregClear"}

ServiceTypeOK ==
  /\ publishRules \in [Containers -> SUBSET Rule]
  /\ active \subseteq ActivePublish
  /\ handler \in [Pids -> [at : HandlerAt, had : BOOLEAN,
                           mapping : PortMapping \cup {NoMapping}]]
  /\ tracer \in [Pids -> {"new", "forked", "running", "failed", "done", "dead"}]
  /\ conf \in [Pids -> IPs \cup {AnyIp}]
  /\ binds \in [Pids -> 0..MaxBinds]
  /\ pod \in [Containers -> {"none", "allocating", "ready", "releasing", "removed"}]
  /\ podIp \in [Containers -> IPs \cup {AnyIp}]

Idle == [at |-> "idle", had |-> FALSE, mapping |-> NoMapping]

ServiceInit ==
  /\ Init
  /\ publishRules = [c \in Containers |-> {}]
  /\ active = {}
  /\ handler = [t \in Pids |-> Idle]
  /\ tracer = [t \in Pids |-> "new"]
  /\ conf = [t \in Pids |-> AnyIp]
  /\ binds = [t \in Pids |-> 0]
  /\ pod = [c \in Containers |-> "none"]
  /\ podIp = [c \in Containers |-> AnyIp]

-----------------------------------------------------------------------------
(* Publishing: the operations under _publish_lock.                         *)

(* The forwarder of a rule listens: nothing else has that host port.       *)
HostFree(host) == \A a \in active : a.rule.host # host

IsActive(c, rule) == \E a \in active : a.cid = c /\ a.rule = rule

(* Mutant: the forwarder is recorded under the pid that bound the port.    *)
PublishForPid(c, rule, m) == [cid |-> m.pid, rule |-> rule, mapping |-> m]

Publish(c, rule, m) == [cid |-> c, rule |-> rule, mapping |-> m]

RemovePublishedPorts(c) ==
  /\ active' = {a \in active : a.cid # c}
  /\ publishRules' = [publishRules EXCEPT ![c] = {}]

(* The rules activate_published_ports has to start a forwarder for.        *)
RulesToStart(m) ==
  {r \in publishRules[m.cid] : r.port = m.port /\ ~IsActive(m.cid, r)}

CanListen(rules) ==
  /\ \A r \in rules : HostFree(r.host)
  /\ \A r, q \in rules : r.host = q.host => r = q

Go(t, at) == handler' = [handler EXCEPT ![t] = [@ EXCEPT !.at = at]]
Answer(t) == handler' = [handler EXCEPT ![t] = Idle]

-----------------------------------------------------------------------------
(* A tracer's requests and their handlers.                                 *)

PodRequest(address) ==
  <<[name |-> PodInterface, network |-> PodNetwork, ip |-> address]>>

(* container_network_config, then fork: the config carries the pod's       *)
(* address, and is not looked at again.                                    *)
Fork(t) ==
  /\ tracer[t] = "new" /\ pod[PodOf[t]] = "ready"
  /\ tracer' = [tracer EXCEPT ![t] = "forked"]
  /\ conf' = [conf EXCEPT ![t] = podIp[PodOf[t]]]
  /\ UNCHANGED <<regVars, publishRules, active, handler, binds, pod, podIp>>

(* handle_register_container, up to reading had_record, without a lock.    *)
RegisterStart(t) ==
  /\ tracer[t] = "forked" /\ handler[t].at = "idle"
  /\ handler' = [handler EXCEPT ![t] =
       [at |-> "regClear", had |-> PodOf[t] \in registered, mapping |-> NoMapping]]
  /\ UNCHANGED <<regVars, publishRules, active, tracer, conf, binds, pod, podIp>>

Replaces(t) == PodRules[PodOf[t]] # {} \/ ~handler[t].had

RegisterClear(t) ==
  /\ handler[t].at = "regClear"
  /\ IF Replaces(t) THEN RemovePublishedPorts(PodOf[t])
     ELSE UNCHANGED <<active, publishRules>>
  /\ Go(t, "regRecord")
  /\ UNCHANGED <<regVars, tracer, conf, binds, pod, podIp>>

(* registry.register_container on a known namespace, or its first step.    *)
RegisterRecord(t) ==
  /\ handler[t].at = "regRecord"
  /\ \/ EnsureKnown(PodOf[t], t, PodRequest(conf[t])) /\ Go(t, "regRules")
     \/ BeginEnsure(PodOf[t], t, PodRequest(conf[t])) /\ UNCHANGED handler
  /\ UNCHANGED <<publishRules, active, tracer, conf, binds, pod, podIp>>

RegisterRecorded(t) ==
  /\ ~Unlocked /\ pending.pid = t
  /\ \/ RegisterInterface /\ UNCHANGED handler
     \/ FinishEnsure /\ Go(t, "regRules")
  /\ UNCHANGED <<publishRules, active, tracer, conf, binds, pod, podIp>>

(* RegistryError: the tracer kills its tracee and unregisters.             *)
Failed(t) == IF tracer[t] = "forked" THEN [tracer EXCEPT ![t] = "failed"] ELSE tracer

RegisterDenied(t) ==
  /\ \/ /\ handler[t].at = "regRecord" /\ Unlocked
        /\ PodOf[t] \in registered /\ ~SameInterfaces(PodOf[t], PodRequest(conf[t]))
        /\ UNCHANGED regVars
     \/ ~Unlocked /\ pending.pid = t /\ RefuseInterface
  /\ Answer(t)
  /\ tracer' = Failed(t)
  /\ UNCHANGED <<publishRules, active, conf, binds, pod, podIp>>

RegisterRules(t) ==
  /\ handler[t].at = "regRules"
  /\ publishRules' = IF Replaces(t)
                     THEN [publishRules EXCEPT ![PodOf[t]] = PodRules[PodOf[t]]]
                     ELSE publishRules
  /\ Answer(t)
  /\ tracer' = IF tracer[t] = "forked" THEN [tracer EXCEPT ![t] = "running"] ELSE tracer
  /\ UNCHANGED <<regVars, active, conf, binds, pod, podIp>>

(* handle_bind_request: bind_port; a denied bind changes nothing.          *)
Bind(t, i, address, port) ==
  /\ tracer[t] = "running" /\ handler[t].at = "idle" /\ binds[t] < MaxBinds
  /\ BindPort(PodOf[t], t, i, address, port)
  /\ binds' = [binds EXCEPT ![t] = @ + 1]
  /\ handler' = [handler EXCEPT ![t] = [at |-> "bindActivate", had |-> FALSE,
        mapping |-> MappingFor(PodOf[t], t, i, address, port)]]
  /\ UNCHANGED <<publishRules, active, tracer, conf, pod, podIp>>

(* activate_published_ports: every forwarder starts, or none, be it only   *)
(* that another program has the host port or that it is a privileged one.  *)
BindActivate(t) ==
  LET m == handler[t].mapping
      rules == RulesToStart(m) IN
  /\ handler[t].at = "bindActivate"
  /\ \/ /\ CanListen(rules)
        /\ active' = active \cup {Publish(m.cid, r, m) : r \in rules}
        /\ Answer(t)
     \/ rules # {} /\ Go(t, "bindUndo") /\ UNCHANGED active
  /\ UNCHANGED <<regVars, publishRules, tracer, conf, binds, pod, podIp>>

BindUndo(t) ==
  /\ handler[t].at = "bindUndo"
  /\ ReleasePortMapping(handler[t].mapping)
  /\ Answer(t)
  /\ UNCHANGED <<publishRules, active, tracer, conf, binds, pod, podIp>>

(* Mutant: the ports of the pid are dropped here, outside registry.lock.   *)
UnregisterStartDropsPorts(t) ==
  /\ tracer[t] \in {"running", "failed"} /\ handler[t].at = "idle"
  /\ tracer' = [tracer EXCEPT ![t] = "done"]
  /\ active' = {a \in active : ~(a.mapping.cid = PodOf[t] /\ a.mapping.pid = t)}
  /\ ports' = {m \in ports : m.pid # t}
  /\ Go(t, "unregRecord")
  /\ UNCHANGED <<networks, byIp, registered, pids, leased, ifs, peers, pending,
                 publishRules, conf, binds, pod, podIp>>

(* run_tracee's finally clause: handle_unregister_container, with the pid. *)
UnregisterStart(t) ==
  /\ tracer[t] \in {"running", "failed"} /\ handler[t].at = "idle"
  /\ tracer' = [tracer EXCEPT ![t] = "done"]
  /\ active' = {a \in active : ~(a.mapping.cid = PodOf[t] /\ a.mapping.pid = t)}
  /\ Go(t, "unregRecord")
  /\ UNCHANGED <<regVars, publishRules, conf, binds, pod, podIp>>

UnregisterRecord(t) ==
  /\ handler[t].at = "unregRecord"
  /\ \/ UnregisterPid(PodOf[t], t) /\ Answer(t)
     \/ UnregisterLast(PodOf[t], t) /\ Go(t, "unregClear")
     \/ Unlocked /\ PodOf[t] \notin registered /\ UNCHANGED regVars /\ Answer(t)
  /\ UNCHANGED <<publishRules, active, tracer, conf, binds, pod, podIp>>

UnregisterClear(t) ==
  /\ handler[t].at = "unregClear"
  /\ RemovePublishedPorts(PodOf[t])
  /\ Answer(t)
  /\ UNCHANGED <<regVars, tracer, conf, binds, pod, podIp>>

(* The process group of a container or exec is signalled.                  *)
Kill(t) ==
  /\ MayKill /\ tracer[t] \in {"forked", "running", "failed"}
  /\ tracer' = [tracer EXCEPT ![t] = "dead"]
  /\ UNCHANGED <<regVars, publishRules, active, handler, conf, binds, pod, podIp>>

-----------------------------------------------------------------------------
(* The runtime: allocate_pod_network of a new pod id, release_pod_network. *)

RuntimeFree == \A c \in Containers : pod[c] \notin {"allocating", "releasing"}

AllocateStart(c) ==
  /\ RuntimeFree /\ pod[c] = "none"
  /\ BeginEnsure(c, NoPid, PodRequest(AnyIp))
  /\ pod' = [pod EXCEPT ![c] = "allocating"]
  /\ UNCHANGED <<publishRules, active, handler, tracer, conf, binds, podIp>>

AllocateStep(c) ==
  /\ pod[c] = "allocating" /\ ~Unlocked /\ pending.pid = NoPid
  /\ \/ RegisterInterface /\ UNCHANGED <<pod, podIp>>
     \/ /\ FinishEnsure
        /\ pod' = [pod EXCEPT ![c] = "ready"]
        /\ podIp' = [podIp EXCEPT ![c] = (CHOOSE i \in pending.done : TRUE).ip]
     \/ /\ RefuseInterface
        /\ pod' = [pod EXCEPT ![c] = "removed"] /\ UNCHANGED podIp
  /\ UNCHANGED <<publishRules, active, handler, tracer, conf, binds>>

ReleaseStart(c) ==
  /\ RuntimeFree /\ pod[c] = "ready"
  /\ RemovePublishedPorts(c)
  /\ pod' = [pod EXCEPT ![c] = "releasing"]
  /\ UNCHANGED <<regVars, handler, tracer, conf, binds, podIp>>

ReleaseRecord(c) ==
  /\ pod[c] = "releasing"
  /\ \/ ReleaseContainer(c)
     \/ Unlocked /\ c \notin registered /\ UNCHANGED regVars
  /\ pod' = [pod EXCEPT ![c] = "removed"]
  /\ UNCHANGED <<publishRules, active, handler, tracer, conf, binds, podIp>>

-----------------------------------------------------------------------------
(* The operator: handle_publish_port, handle_unpublish_port.  find_mapping *)
(* waits for the registry lock.                                            *)

PublishPort(c, rule) ==
  LET found == {m \in ports : m.cid = c /\ m.port = rule.port} IN
  /\ Unlocked /\ rule \in CliRules \ publishRules[c]
  /\ IF found = {} \/ IsActive(c, rule)
     THEN UNCHANGED active
     ELSE HostFree(rule.host) /\ \E m \in found : active' = active \cup {Publish(c, rule, m)}
  /\ publishRules' = [publishRules EXCEPT ![c] = @ \cup {rule}]
  /\ UNCHANGED <<regVars, handler, tracer, conf, binds, pod, podIp>>

UnpublishPort(c, host) ==
  /\ CliRules # {}
  /\ publishRules' = [publishRules EXCEPT ![c] = {r \in @ : r.host # host}]
  /\ active' = {a \in active : ~(a.cid = c /\ a.rule.host = host)}
  /\ UNCHANGED <<regVars, handler, tracer, conf, binds, pod, podIp>>

UnpublishAll(c) ==
  /\ CliRules # {}
  /\ RemovePublishedPorts(c)
  /\ UNCHANGED <<regVars, handler, tracer, conf, binds, pod, podIp>>

OperatorNetwork(n) ==
  /\ RemoveNetwork(n) \/ \E d \in Definitions : DefineNetwork(n, d)
  /\ UNCHANGED svcVars

-----------------------------------------------------------------------------
TracerStep(t) ==
  \/ Fork(t) \/ RegisterStart(t) \/ RegisterClear(t) \/ RegisterRecord(t)
  \/ RegisterRecorded(t) \/ RegisterDenied(t) \/ RegisterRules(t)
  \/ \E i \in ifs[PodOf[t]], address \in {AnyIp, Loopback}, port \in Ports :
        Bind(t, i, address, port)
  \/ BindActivate(t) \/ BindUndo(t)
  \/ UnregisterStart(t) \/ UnregisterRecord(t) \/ UnregisterClear(t)
  \/ Kill(t)

RuntimeStep(c) ==
  AllocateStart(c) \/ AllocateStep(c) \/ ReleaseStart(c) \/ ReleaseRecord(c)

OperatorStep(c) ==
  \/ \E rule \in CliRules : PublishPort(c, rule)
  \/ \E host \in Hosts : UnpublishPort(c, host)
  \/ UnpublishAll(c)

ServiceNext ==
  \/ \E t \in Pids : TracerStep(t)
  \/ \E c \in Containers : RuntimeStep(c) \/ OperatorStep(c)
  \/ \E n \in CliNetworks : OperatorNetwork(n)

ServiceSpec == ServiceInit /\ [][ServiceNext]_vars

-----------------------------------------------------------------------------
(* Properties.                                                             *)

(* No handler is between two of its sections.                              *)
Quiescent == Unlocked /\ RuntimeFree /\ \A t \in Pids : handler[t].at = "idle"

(* Whatever the sections of the handlers do in any order, the registry     *)
(* only ever takes steps of its own methods.                               *)
RegistrySpec == Spec

(* A pod's network lasts as long as its sandbox: while the runtime has the *)
(* pod, the namespace is recorded, leased, and holds exactly the address   *)
(* the runtime was told and passes on to every tracer, however many of the *)
(* pod's processes registered, unregistered or died.  Only an operator who *)
(* removes the network takes it away.                                      *)
PodKeepsAddress ==
  \A c \in Containers : pod[c] = "ready" =>
    /\ c \in registered /\ c \in leased
    /\ \/ ifs[c] = {[name |-> PodInterface, network |-> PodNetwork, ip |-> podIp[c]]}
       \/ PodNetwork \in CliNetworks /\ ifs[c] = {}

(* A published port that is bound is reachable: when no request is in      *)
(* progress, the rule of a bound port has its forwarder, unless another    *)
(* one has the host port.                                                  *)
BoundIsActive ==
  Quiescent => \A m \in ports : \A r \in publishRules[m.cid] :
    r.port = m.port => IsActive(m.cid, r) \/ ~HostFree(r.host)

(* A virtual port lasts no longer than the process that bound it, and      *)
(* neither does the host listener that forwards to it.                     *)
PortsOfLivePids == Quiescent =>
  /\ \A m \in ports : tracer[m.pid] = "running"
  /\ \A a \in active : tracer[a.mapping.pid] = "running"

(* When a pod is gone and its processes have ended, the service holds      *)
(* nothing for it: no record, no address, no port, no listener.  (A rule   *)
(* may stay, pending for a container that will never come back: a tracer   *)
(* that was registering while the pod was released leaves it.)             *)
PodGone(c) ==
  /\ pod[c] = "removed"
  /\ \A t \in Pids : PodOf[t] = c => tracer[t] \in {"new", "done", "dead"}

NothingLeft ==
  Quiescent => \A c \in Containers : PodGone(c) =>
    /\ c \notin registered /\ \A a \in IPs : byIp[PodNetwork][a] # c
    /\ \A m \in ports : m.cid # c
    /\ \A a \in active : a.cid # c
=============================================================================
