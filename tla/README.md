# TLA+ models of pnfroot

pnfroot is a container runtime that needs no privileges: a CRI server
(`pnfroot.py`) runs the processes of pods under a ptrace supervisor
(`ptrace_syscalls.py`) that rewrites their system calls, and a network service
(`netservice/`) hands out virtual addresses and ports that the supervisors map
to real loopback sockets.  This directory holds TLA+ modules of its core, the
TLC configurations that check them, and TLAPS proofs.

* `tlc -workers 2 -config X.cfg M.tla` runs a check (the table below says which
  module goes with which configuration);
* `tlapm NetRegistry_proofs.tla`, and the same for `NetService_proofs`,
  `ContainerRuntime_proofs` (ten minutes or more), `ExecStream_proofs`,
  `TcpProxy_proofs`, `Tracer_proofs`, `VirtualPaths_proofs` and `VirtualSockets_proofs`,
  checks the proofs.

## 1. Inventory

| part | state | operations | hard because |
| --- | --- | --- | --- |
| registry (`netservice/registry.py`) | networks with the holder of each address, namespaces with their pids and interfaces, port mappings, peerings | define, remove, peer, allocate, register, unregister, release, bind, route | several tables that four methods keep consistent; partial failure of a registration |
| service (`netservice/server.py`) | the registry, publish rules, active host listeners | the requests of clients, one thread per connection | a handler takes the registry lock and `_publish_lock` one after the other, never together (except publish): handlers interleave at every release |
| runtime (`pnfroot.py`) | sandboxes, containers (dicts shared with threads), the state file, bundles on disk | the CRI calls, rootfs threads, start threads | handlers block the event loop, threads outlive requests, saves read dicts that change, the daemon restarts |
| supervisor (`ptrace_syscalls.py`) | the set of traced pids, whether each is inside a call, the record of that call | the stops and ends that `waitpid` reports | ptrace does not tell an entry from an exit; first stops and events come in any order; tasks are killed while they are handled |
| tracer's network (`virtual_network.py`) | table of sockets by pid and fd | entry and exit of socket calls | dup, fork, close, exec; answers of the service come between entry and exit |
| virtual ids (`virtual_ids.py`) | credentials per pid | the setuid family, chown, fork and exec | set at the exit of calls that were neutralised at their entry; inherited by an event, not by the kernel |
| virtual paths (`virtual_paths.py`) | bind mounts; cwd and directory descriptors per pid; modes and files to restore after a call | path rewriting, mount and umount | links and mounts resolved by this code and again by the kernel; what a call prepares at its entry is used or undone at its exit, with calls of other tasks in between |
| TCP proxy (`netservice/tcp_proxy.py`) | listeners and connections | one-shot proxies, forwarders, stop | two threads per connection that close each other's sockets; a stop beside an accept |
| streaming (`streaming.py`) | exec tokens, sessions | WebSocket and SPDY exec | up to six threads per session, each wait with another timeout; clients that leave; tokens that expire |
| image store (`image_store.py`, `image_service.py`) | images on disk and in memory | pull, unpack, remove | failure half way |

The runtime calls the service when a pod is created and removed; every supervisor
calls it to register, for each bind and connect, and to unregister; the operator's
CLI calls it to publish ports and manage networks.  The service makes a one-shot
proxy for every connect it routes and forwarders for published ports.  The Exec call
leaves a token with the streaming server, whose session starts the process through
the runtime.  The runtime starts and signals supervisors; a supervisor is a session
of its own and survives the runtime.

What would make each part correct: one holder per address, routes that only
reach live holders, nothing left of a removed network, port, process or pod;
one process per container, none that is out of the runtime's reach, a state
file that catches up with memory, requests that return; calls of tracees
paired with their exits, ids that are those the program's own calls made, a table of
sockets that says what is behind each fd, no address that gets past the service;
paths that lead where a kernel with the same mounts would go, calls that leave
nothing behind; connections that lose nothing but what a closing end may lose; an
exec whose client gets all output, then one status, and whose process ends with it.

## 2. Modules

| module | models | checked by |
| --- | --- | --- |
| `NetRegistry` | `VirtualNetworkRegistry`, alone, called in any order | `MCNetRegistry`, `NetRegistry_proofs` |
| `NetService` | `VirtualNetworkService` with its clients; EXTENDS `NetRegistry` and refines it | `MCNetService`, `NetService_proofs` |
| `ContainerRuntime` | `RuntimeService` with its threads, its state file and the processes | `MCContainerRuntime`, `ContainerRuntime_proofs` |
| `VirtualIds` | what each call of the setuid family does to a credential; operators only | `Tracer_proofs`, and through `Tracer` |
| `Tracer` | `trace()` and the tasks it traces; EXTENDS `VirtualIds` | `MCTracer`, `Tracer_proofs` |
| `VirtualSockets` | the table of sockets and the calls on them, with the kernel's fd tables | `MCVirtualSockets`, `VirtualSockets_proofs` |
| `VirtualPaths` | path resolution, mounts, the tables of directories, what a call prepares and cleans up | `MCVirtualPaths`, `VirtualPaths_proofs` |
| `PathLookup` | how a kernel with the same mounts finds a path, as the reference for `host_path`; EXTENDS `VirtualPaths` | through `MCVirtualPaths` |
| `Relay` | what a TCP connection through the service promises; the abstract specification | through `TcpProxy` |
| `TcpProxy` | `OneShotTcpProxy`, `TcpForwarder` and `pipe`; implements `Relay` | `MCTcpProxy`, `TcpProxy_proofs` |
| `ExecStream` | a token of `Exec` and the session `serve_exec` runs for it | `MCExecStream`, `ExecStream_proofs` |

**NetRegistry.** A public method holds the lock from start to end and is one
action.  `_ensure_container` on an unknown container is a sequence
(`BeginEnsure`, `RegisterInterface`..., `FinishEnsure` or `RefuseInterface`)
because an exception between two interfaces leaves what the first ones did; no
other action is possible meanwhile (`Unlocked`).  `byIp` stands for the
`interfaces_by_ip` of all networks, `registered`, `pids`, `leased`, `ifs` for the
fields of the container records.  A port is a port with its protocol; subnets
are sets of addresses and the first free address is the lowest; the real
loopback address behind a mapping, MAC, MTU, DNS and prefix length are left out.
`route_connect` changes nothing and is the operator `RouteConnect`, the set of
the mappings it may return.

**NetService.** A handler is cut where it gives up a lock (`handler[t].at` says
before which section it is).  A tracer is `run_tracee`: forked with the network
config of its pod, it registers, binds, unregisters; `Kill` is the signal to its
process group, after which it sends nothing more, while the request in progress
is served.  The runtime allocates and releases, one call at a time, because it
does so on its event loop.  Ids of pods are used once.  `RegistrySpec` (the
specification of `NetRegistry`) is a property of `NetService`: whatever the
sections do in any order, the registry takes steps of its own methods.

**ContainerRuntime.** `loop` is what the event loop is busy with, `rootfsThread`
and `starter` where the two kinds of threads are, `saving` the save that holds
`_state_lock`.  The container's dict (`mem`) stays when `RemoveContainer` takes it
out of `order`, because threads hold it.  `save_runtime_state` is modelled as it
runs: the pods, then the keys, then the containers one by one; it raises when
the size of the dict it iterates has changed (the model takes every change of
the keys for one of the size: ids are never reused, and an insert that exactly
balances a removal inside one save is the only difference), and the exception
ends up in the thread's own `except` clause.  A supervisor is `forked` until it
has called `setsid`: until then a signal to its process group is lost.  A
process without a supervisor (`host`) may ignore SIGTERM.  `Restart` is
`load_runtime_state` and the save that ends it.  `overruled` is a history variable: a
start thread whose save raises says `error` of the container in its `except` clause
(pnfroot.py:1358-1369), however late; when another start has begun by then, the
handler that waits for that one takes the `error` for its own and answers.  From then
on the container may be removed, or started again, while its process is being
started.  A bundle is `absent`, `partial` while it is unpacked, `complete`, or
`torn`: `rmtree` takes a file at a time and skips what it cannot delete
(pnfroot.py:1607), so from its first file (`RemoveDelete`) to its end (`RemoveFinish`),
and after a crash in between, anything may be missing, the metadata or what it
vouches for.  `removing` is the history of the containers this has begun for.
`RemovalCut` names the other exception: a removal that a crash cut, at any point
before its save, recovers a container whose rootfs is `ready` in the file and torn or
gone on disk, and a start takes a directory that is there for a rootfs (906); the
same if an overruled start goes on while the container is removed.  `NoStrayProcess`
and `OneProcess` except the overruled containers, `StartsOnCompleteRootfs` those of
`RemovalCut`, and no others.

**VirtualIds.** Operators from a credential and arguments to the new credential and
the result the tracee sees; the code's pairs of methods for uids and gids are one
operator with the kind `k`.  An id is an element of `Ids`, and `NoId` is the argument
-1.

**Tracer.** `task` and `group` are the kernel's side, `alive`, `inSyscall`, `active`,
`cred`, `exitCode` and `result` the variables of `trace()` and the table of
`virtual_ids.py`.  An action of the tracer is one round of the loop: one report of
`waitpid` and all that is done for it, up to the resume.  `Disappeared` is a
SIGKILL between the report and a ptrace call, which fails with ESRCH.  A child's
first stop and its parent's event are reported in any order.  The kernel's rules
that the code depends on are kept: execve ends the other threads and goes on under
the pid of the process, the zombie of a process comes after those of its threads,
the tasks die with the supervisor (PTRACE_O_EXITKILL).  `ideal` is what a program
may expect its ids to be, from its own calls alone; `followed` is a history
variable, the tasks whose parent's event was handled before anything but their
first stop happened (the tracer takes an early child for one it has always known
and forgets it is in a call when the event comes late, which `FollowsChildren`
states and section 5 tells how to see).  A thread that takes over the pid of its process by
execve leaves `followed` with it, since the tables are not moved.  Left out:
signals other than SIGKILL, vfork's suspension of the parent, the interrupt of the
supervisor itself, the calls that the other virtual parts handle.  `exit` of
the first thread is taken for `exit_group`.

**VirtualSockets.** `fds`, `cloexec`, `desc` and `memory` are the kernel's side: the fd
table and the memory of each process (`space`), shared by its threads, and the open
files.  `rows` is `SocketTable._sockets`, by task and fd.  A call is three steps, and
those of other tasks come between them: the entry (`rewrite_syscall_entry`, with the
service's answer, which the tracer waits for), the kernel's part (`K...`, or
`Neutralised` for a call that became getpid), the exit (`handle_syscall_exit`).  A
program's buffer for addresses is one per process; the entry rewrites it, the
kernel reads it when it binds or connects, the exit writes it back.  `message`
stands for write, sendto, sendmsg and recvmsg, of which only who answers matters
here; dup3 is dup2.  An address is the class it belongs to and the virtual port it
stands for.  Two history variables say what the table cannot know.  `left`: the rows that an
execve left behind, since it closes the close-on-exec fds and nothing tells the table
(a copy of such a row is in `left` too).  `untold`: the fds of a file that was bound or
connected through another fd (after dup, dup2, fork or accept), or by a connect that
answered EINPROGRESS or EINTR and goes on; the row of such an fd is not told, and
getsockname makes up the interface's address with the real port for it
(`mixed`, virtual_network.py:1115-1146).  `RowsTellTruth` says of every row that is not
`left` that it is there just when the socket is, and that a virtual address in it is
the one behind which the service put the kernel's; and, but for the `untold` fds, that
the address is in the row whenever the service gave one.  A child is known before it runs;
`Tracer` has the other order.  Left out: getpeername, which changes nothing; fcntl,
pipes and sockets received in messages, which the code does not follow either; the
queue of netlink answers; sockets other than TCP and route sockets, whose addresses the
code lets through.

**VirtualPaths.** `binds`, `cwd` and `fds` are `self.binds`, `cwd_by_pid` and
`fd_paths_by_pid`; `kcwd` and `kfds` are the kernel's side, `mode` the permissions of
guarded directories.  A virtual path is a sequence of names, a host path begins
with the directory it is in, and `Tree` is what exists.  A call is `Enter`
(`rewrite_syscall_entry`: paths resolved, parents made writable, a mount checked),
`Run` (the kernel), `Exit` (`handle_syscall_exit_record` and both clean-ups), and
other tasks' steps come between.  `HostPath` is `host_path`, which starts again from
the root after each link: `Followed` is one round, `AfterLinks` (a recursive function of
the number of rounds) all of them.  `Walk` of PathLookup, which the property compares it
with, resolves component by component as a kernel does.  `ProgramCalls` is which calls
there are and what they take: only the *at calls have a descriptor to start from.
`process` says whose thread a task is: `inherit_pid` copies the tables for a new task of
either kind (virtual_paths.py:334-338), and the kernel copies them for a `Fork` but lets a
`Clone` share them (`KernelHas`).  `Unfollowed` is any call that changes a descriptor and
that the exit does not look at: fcntl(F_DUPFD), openat2, close_range, an execve that
closes, a descriptor in a message.  History variables say where the tables cannot
follow: `stray` (a working directory after fchdir, what another thread or an unfollowed
call changed, `dup2(n, n)`, directories reached behind an unknown descriptor, and
copies of all of these), `raced` (what another thread changes between the kernel's part
of a call and its exit), `spoiled` (a directory whose mode another call or a chmod
changed meanwhile, or whose call was killed), `remounted`.  Resolution of `..` is by
names in the code, so paths or links' targets with `..` behind a link are compared
for the others only.

**Relay** and **TcpProxy.** `Relay` counts the chunks an end `sent`, those that are `due`
and those its peer `got`; a chunk stays due unless `MayLose` allows its loss: the
connection is refused, the peer has finished or left, or the end itself has
finished while its peer had sent something.  The last is what `pipe` makes of
half-closed connections: each direction closes both sockets when its own source
ends.  `TcpProxy` has a thread per direction (`pipe[k]`: reading, sending, and the two
closings), the kernel's queues on both sides of the proxy (`inq`, `outq`) and the
chunk in between (`hold`), the listening thread (`loop`), `stop` (`stopping`) and the
failures of accept, dial and thread start.  `Due` is the refinement mapping: what of
the data in the queues can still arrive.  `kind` chooses between the two classes.

**ExecStream.** `handler` is where `serve_exec` is, `receiver`, `out[o]` and `reader` are its
threads, `request` the token's entry.  `wire` is what the client sent and nobody
has read, `incoming` the queue between the SPDY reader and the receiver.  A send is two
steps, the look at `closed` (or, over SPDY, at the stream) and the write under the
lock.  `proc`, `heirs`, `pipe` are the process, the children it may leave behind and
the pipes they hold; a process under a supervisor is `forked` until its `setsid`, and
a signal before that is lost.  `late` is a history variable, the outputs whose thread
the handler stopped waiting for.

Each mutant (`...Unchecked`, `...Only`, ...) is an operator right before the
definition it is a wrong version of; nothing uses it but the mutation checks
listed in `PROJECT.json`.

## 3. Runs

| configuration | module | result | what it shows |
| --- | --- | --- | --- |
| `MCNetRegistry` | MCNetRegistry | holds | `TypeOK`, `AddressHeldOnce`, `RouteReachesHolder`, `FreshNetworkIsEmpty`, `LeaseKeepsAddresses` |
| `MCServicePods` | MCNetService | holds | `ServiceTypeOK`, `PortsOfLivePids`, `NothingLeft`, when no tracer is killed and no operator interferes |
| `MCServiceOperator` | MCNetService | holds | `PodKeepsAddress`, `RegistrySpec` (a refinement), with killed tracers and an operator who publishes ports and removes and redefines the pod network |
| `MCRuntimeCrash` | MCContainerRuntime | holds | `TypeOK`, `Durable`, `NoStrayProcess`, `StartsOnCompleteRootfs` of a container with an image, with a crash at any point, inside of its removal too |
| `MCRuntimeRestarts` | MCContainerRuntime | holds | `OneProcess`, `LoopAnswers` of a container started twice, crash included |
| `MCTracer` | MCTracer | holds | `TypeOK`, `PairsCalls`, `IdsAreThePrograms`, `StopsAnswered`, with forks, threads, execs and a SIGKILL |
| `MCVirtualSockets` | MCVirtualSockets | holds | `TypeOK`, `RowsTellTruth`, `KernelSeesReal`, `MemoryIntact`, `HostStaysHidden` of processes with one thread each |
| `MCVirtualPaths` | MCVirtualPaths | holds | `TypeOK`, `TablesAgree`, `CallsCleanUp`, `ResolvesLikeKernel`, `MountsTakeEffect`, with overlapping calls of processes or threads, calls that are not followed and a SIGKILL |
| `MCTcpProxy` | MCTcpProxy | holds | `TypeOK`, `Relays` (a refinement), `EndsTogether`, `ClientAnswered`, of a one-shot proxy or a forwarder that may be stopped |
| `MCExecStream` | MCExecStream | holds | `TypeOK`, `OutputThenStatus`, `ClientIsTold`, `NothingLeftRunning`, `SessionEnds`, `LeaverStopsCommand`, of each kind of session |
| `MCExecUnpublishes` | MCNetService | `BoundIsActive` violated | a second process of a pod drops the first one's host listener |
| `MCCommandStatus` | MCTracer | `ReturnsCommandStatus` violated | the status is that of the last pid to end, not the command's |

The findings in `PROJECT.json` quote, for each violated property, the sentence of
the repository it comes from.

**Bounds.** `MCNetRegistry`: two namespaces (a conflict needs two), two networks
(a peering, and a second interface in one request), three addresses: a gateway,
one automatic address in a network created on first use, two in a defined one,
so that exhaustion, explicit and automatic addresses and refusals all happen;
one port and one pid, as no method relates two of them other than by equality.
`MCServicePods`: two pods that want the same host port, three tracers, two of
them in one pod; one bind each (`MaxBinds`).  `MCServiceOperator`: a tracer in each
of two pods, one rule of the operator.  The violation runs use one pod with one
or two tracers.  `MaxBinds` is the only bound on a counter of NetService.
ContainerRuntime: one container and one pod; the interference is between the
threads of a container, the handlers and the saves, and a pod's and a
container's key are enough to change each dict during a save.  `MaxStarts` bounds
the start threads of a container (two: a start and the one that races with its
last save), `MaxCrashes` the crashes.  `WithImage` and `Plain` say whether the
container has an image to unpack and may run on the host.  Tracer: three tasks (a
process, a thread or child of it, and one more that either of them makes), three
calls in all (`MaxCalls`: enough for a thread to be made and to call execve while
the first task is in another call, or for a setuid, a fork and a call of the
child), one SIGKILL (`MaxKills`), two ids.  VirtualSockets: two processes (or threads), two
fds and two open files, so that fds are used again, tables get full and files are
shared; four calls in all (`MaxCalls`), enough to open a socket, replace, copy or
inherit it, close it, and use what is there then; one port, since rows with a
different address can only be of different files.  VirtualPaths: two processes,
three calls (`MaxCalls`: one that sets a table up, one that uses it, one that comes in
between), one SIGKILL, two descriptors, `MaxLinks` 3 for the code's 40 (the tree's longest
chain is 2 but for the link to itself, which reaches the limit); the tree has a
relative link, an absolute one, a link to itself and a link inside of a bind; a directory
and a file are bound from the start, and mounts come to lie above the relative link
and behind it.  The two tasks are processes or threads of one; one call is not followed
(`MaxUnfollowed`), and makes a copy of a descriptor or closes one (`Given`, what else a
descriptor may come to be, is empty in the run: the theorems have any).
TcpProxy: two clients, of which the listener may serve one, none or both; one
sends two chunks in each direction, so that one can be under way while the other
is lost, the other none.  ExecStream: one session, as sessions share the token
table only; one chunk per output and one stdin message (`MaxOut`, `MaxIn`), all the
combinations of transport, supervisor and terminal, with stdin and one output or
both outputs.  Deadlock is not checked: the instances
end when their pods, ids, binds or calls are used up.

**Fairness** is assumed in the `FairSpec` of ContainerRuntime, Tracer, TcpProxy and
ExecStream. Tracer: the loop as a whole goes on (one weakly fair action,
`TracerStep`; nothing says which report `waitpid` takes first, and `StopsAnswered`
holds because the tasks' calls are bounded, so that no task can keep the tracer busy
for ever), and an execve that only waits for zombies ends.  Tasks owe nothing.
TcpProxy: the listening thread, the thread in `stop` and each pipe go on; accept has
a timeout, and so has `create_connection`, if only the kernel's own for a connect.
Clients and servers owe nothing.  ExecStream: the threads go on and the handler's
waits with a timeout return; a forked process reaches `setsid`, a killed one dies.
Nothing is assumed of the client, nor that a command or what it leaves behind ends
by itself. ContainerRuntime, for `LoopAnswers` and `RemoveAnswers`: threads and the
event loop go on, a save under the lock ends, a process that was killed (or a
supervisor that got SIGTERM) dies, a forked supervisor reaches `setsid`, and waits
with a timeout return.  All of these are steps of running threads or of the kernel.
Not assumed: that clients ask for anything, that a process ends by itself, that a
daemon that went down is started again; nor that pulling an image succeeds (it
succeeds or raises). `RootfsPull` and `RootfsUnpack` are in the fairness: a registry
that never answers would block StartContainer for longer than the model says.

## 4. Proofs

`NetRegistry_proofs`: for any sets of networks, namespaces, addresses, requests
and definitions that satisfy the named assumptions of `NetRegistry` (addresses
are numbers, the two special addresses are no host addresses, the None values
are outside the sets they are None of).  The inductive invariant `RegistryInv` adds
to `TypeOK` what ties the tables together: an interface of a recorded namespace, or
one already done by the registration in progress, is listed in `byIp` under its
network (so addresses are unique), a mapping that is not in the loopback scope
belongs to a namespace that holds its address, unrecorded namespaces have no
interfaces and no leases, peerings and interfaces only name defined networks.
`AddressHeldOnce` is not inductive by itself: `_register_interface` only looks at
`byIp`, so uniqueness rests on `byIp` being complete, which release and removal must
preserve.  Each property then follows from `RegistryInv` or from a step that
satisfies it.  `PeeringsConsistent` (peerings only join defined networks) is proved of
`PeersDefined`, which no run repeats.

`NetService_proofs`: every step of `NetService` is a step of `NetRegistry` or leaves
the registry alone (`ServiceImplementsRegistry`), which carries the registry's
invariant over; `ServiceInv` adds that a handler that is about to undo a bind has a
mapping, that a registration in progress is of the one interface pods have, and
that the runtime has one call in progress.  From it follow `ServiceTypeCorrect`,
`ServiceAddressesUnique` and `PodsKeepTheirAddress`.

`LifetimeInv` is the second inductive invariant of the service, on top of `ServiceInv`:
what each thing the service holds is held for.  A record is leased or has a pid
(`RecordInUse`); a lease is that of a pod the runtime has (`LeaseOfPod`); a pid is that of
a tracer that runs, was killed, has just registered, or is about to be unregistered
(`PidsInUse`), and so is the owner of a port (`PortsInUse`); the mapping of a listener is
of a tracer that runs or was killed (`ForwardersInUse`); an address is that of an
interface of its holder (`AddressesBacked`, the converse of what `RegistryInv` says, and
true only because pods ask for one interface: a request for several that fails at a later
one would keep the addresses of the earlier ones).  It needs to know
where a handler can be for a tracer (`HandlerServes`, `PendingRequest`).  From it follow,
with no assumption on kills or networks, `PortsOutlivedByTheKilled` and
`EndedPodsLeaveNothing`, which are stronger than what the run checks: a tracer killed in
one pod leaves nothing behind in another.  Only of host listeners they speak
without an operator.  `PortsLastWithTheirProcess` and `GonePodsLeaveNothing` are the two
properties of `MCServicePods`, for the same case as the run: nobody is killed, no
operator publishes.  (`LifetimeInv`, `OnlyKilledLinger` and `EndedPodsHoldNothing` were
also checked with TLC on the three instances of the service, and with kills.)

Of `VirtualIds`, at the head of `Tracer_proofs`, for any set of ids: every call
keeps credentials credentials (`IdsTyped`), and `GivenUpForGood`: a credential
without root among its real, effective, saved and filesystem uids stays so through
any call of the family; only the execve of a set-uid file of root changes that.

`TcpProxy_proofs`: for any number of connections, and of chunks each end sends, the
proxy implements `Relay` (`ProxyImplementsRelay`) and its state has its types
(`ProxyTypeCorrect`).  The inductive invariant `ProxyInv` adds to `TypeOK`:
`Opening`, the sockets and threads a connection has at each point of its setup, and
that nothing is carried before it has threads; `Closing`, that a thread at work
finds its source closed only after its destination, since the other thread closes in
that order; `Reason`, that nothing is taken down before an end has finished or left;
`Conserved`, that what is read, under way, held and waiting adds up to no more than
what was sent, and to just that while both sockets and the thread between them are
at work.  `Reason` is what `Relay` needs to allow a loss, `Conserved` what it needs
to count the next chunk as due, and `Closing` what shows that a chunk a thread sends
was still due.  One lemma for each kind of step then says that `Relay` sees nothing
(`Silent*`), a refusal, a loss, a chunk, an end or an arrival.

`ContainerRuntime_proofs`: for any sets of pods and containers, with and without
images, any bound on the starts of a container and on the crashes, from
`RuntimeAssumption` (the two None values are outside the sets they are None of).  No
property of it is inductive by itself; `RuntimeInv` has a part for each thing they
rest on:

* `Lists` and `Dicts`: the keys in memory, in the file and in the snapshot are distinct,
  and whatever is listed, or has a thread, has a dict (ids are drawn once);
* `Down`: a daemon that is down has no threads, and the processes there are were born
  before its crash;
* `Starting`: while a start thread is at work the loop waits for it and the process of
  the container has ended, so no two are at work for one container, unless it is
  overruled;
* `Owned`: a process this daemon started and has not signalled is that of its
  container, or its start thread still holds it; a handler that waits for a process
  waits for that one;
* `Preparing`: a rootfs is `preparing` just while its thread works;
* `Unpacked`: a rootfs said to be `ready`, in memory, in the file or in the snapshot, is
  complete, or that of a container whose removal had begun (`removing`), and a torn bundle
  is always one of these;
* `Removed`: unless `RemovalCut`, a removal that has begun ends before anything is started:
  no start thread is at work, and none goes on over a rootfs that is not complete;
* `Saver` and `Saved`: who saves is at its save; and what the file does not say yet is
  about to be saved by somebody, or is in the snapshot as far as it was read.

`OneProcess` follows from `Starting` and `Owned` together (a process in the dict has
ended when a thread holds another), `NoStrayProcess` from `Owned`, `Durable` from
`Saved` with `Preparing` and `Starting` (the two states that are not saved as they
are do not occur at rest), `StartsOnCompleteRootfs` from `Removed`, which takes what
a start found from `Unpacked`. The lemmas `...Does` say what an action does to the
dict and the threads of its container, and the steps are proved from those,
container by container.

`ExecStream_proofs`: for any requests, any set of outputs and any number of chunks and
messages, from `StreamAssumption`.  `StreamInv` adds to `TypeOK`: `Stages`, what the place of
the handler says of the process and of where it raised; `Socket`, that only the
`finally` clause or the client closes it; `Copying`, that past the join a thread is done
or given up; `Delivered`, that what was written is in a pipe, in a thread's hands or with
the client; `Told` and `Stopped`, that from the end of the `try` on the status was sent
once and the process was dealt with.  `OutputThenStatus` needs `Copying` to hand
`Delivered` over from the join to the status; `ClientIsTold` and `NothingLeftRunning` are
`Told` and `Stopped` at the end.

`Tracer_proofs`: for any pids, ids and set of calls, and any bounds on calls and kills,
from `TracerAssumption`.  `TracerInv` adds to `TypeOK`:

* `CallsKnown`: a task that is in a call has one, and only fork, clone and exec fail;
* `Families`: the group of a task is that of a process that was born, which an execve
  of another thread needs to give the leader's pid to the right task;
* `Children`: until the fork event of a task is handled, its child is nobody else's and
  is not followed, and while it has not run it has the ids its parent has.  This is
  what makes the reset of the child's tables in the fork event harmless;
* `FollowedAreBorn` and `FollowedInTables`: a followed task was born, and while it is
  there it is in the tables, in step, with the call it is in and the ids it has.

`PairsCalls` and `IdsAreThePrograms` are parts of `FollowedInTables`; neither is
inductive without the other four, since the child that a fork event starts to follow
takes its ids from the parent's table.  The kernel's steps (`TaskTables`) and the
tracer's (`TracerTables`) are lemmas of their own.

`VirtualSockets_proofs`: for any processes, fds, files, ports and number of calls, from
`SocketsAssumption`, `NonesAssumption` and, as in `MCVirtualSockets`, `OneThreadEach`: no
task makes the call `clone`.  With threads the statements are wrong (section 5), so this
is a hypothesis of the theorems and no assumption of the model.  `SocketsInv` adds to
`TypeOK` and `KernelSeesReal`:

* `Alone`: a task has its own process, and before it is born or after it ended, no fds,
  rows or call;
* `FilesOpen`: an fd stands for an open file, so a new file is nobody else's;
* `Underway`: what a call carries from its entry to its exit.  The address in memory is
  the program's, or during a redirected call the rewritten one, with the program's in
  the record; what is let through goes elsewhere; a bind or connect that the tracer did
  not look at is on a route socket, which has no address of this kind;
* `TableTells`: not the rows, but what they will be at the exit of the call a task is in
  (`NextRows`, `NextLeft`), tell the truth of the fds as they are now.  The kernel's part of
  a call moves the files and `NextRows` together, and the exit changes neither; this is
  what makes a property that only holds between calls inductive.

A bind or connect changes a file that other processes have: it may only set an address
that was not set (`Grows`), so no row for that file had a virtual one there; the rows of
its other fds become `untold` (`OnlyTold`), which leaves just that to show of them
(`GrownDescribes`).  `Min` of the free fds exists since `<` on the naturals is well-founded
(`MinOfNaturals`).

`VirtualPaths_proofs`: for any processes, descriptors, tree, binds and calls, and any
bounds on calls, kills and links, from `PathsAssumption`: host paths are sequences of
names, the rootfs is a directory, what `--bind` names exists, is at a normalised path
(`parse_bind_mount`) and is a directory if it is bound to / (a child cannot chdir to
it otherwise), the two results that are no directory are none, and the calls are among
`ProgramCalls`.  `CliBinds` has one bind per place, the first of those that the command
line gives: `bind_for` finds no other, since the sort is stable, and `add_bind` and
`remove_bind` take out all of a place.  `PathsInv` is

* `Typed` and `CallsRecorded`: the tables hold normalised paths and one bind per place,
  and so does the record of a call, which the exit puts into the tables;
* `FilesOwned`: a generated file is that of a call its process is in;
* `ModesKept`: a directory that nothing has spoiled is writable just while one call has
  made it so, and read-only to the processes all that time.  `CallsCleanUp` says only the
  last part, what holds when no call has it; that two calls never share it is needed for
  the exit of the first;
* `TablesFollow`: what the tables will be at the exit of the call a process is in (`NextCwd`,
  `NextFds`, `NextStray`) leads where the kernel is, and so does the path in the record of a
  chdir or open.  As in VirtualSockets, the kernel's step changes both sides together and
  the exit neither.  A thread's call changes what the others have, and `KernelHas` puts
  just that into `raced` or `stray` of each (`OthersFollow`).

`MountsTakeEffect` rests on `NewBindCounts`: of binds that are the only one at their place,
the new one is the longest over its own path, and so the one that `bind_for` finds; and on
`LinkFreeIsFound`: a path with no links is found where `raw_host_path` has it.

What recursive functions compute (`Normalized`, `AfterLinks`) is proved by the least number
of steps for which a claim fails (`UpwardFromZero`), as the induction theorems of the
library cannot be instantiated here.

Two things came out of the proof of VirtualPaths.  A mount that fails on or behind a
link of the rootfs stays in the table, and may be in effect, since `add_bind` sorts
the bind in before it makes its mount point (virtual_paths.py:388-393): the property
now leaves those targets out. And chdir never starts from a descriptor
(`PATH_ARG_SPECS`, line 173), as the model had let it do.

Only model-checked: `ResolvesLikeKernel`, whose reference `Walk` is a RECURSIVE operator,
and liveness (`LoopAnswers`, `SessionEnds`, `LeaverStopsCommand`, `EndsTogether`,
`ClientAnswered`, `StopsAnswered`), which this prover does not do.

## 5. Not modelled, and known limits

* `connect_request` itself (what it starts is in TcpProxy), the list requests, the
  framing of the socket protocol, the service's shutdown.
* ExecSync (with timeout 0 it waits for its command for ever on the event loop,
  pnfroot.py:1705); the mounts of a container (they are not saved: one recovered after a
  restart has none); users, commands, environments.
* Paths: absolute ones that name the rootfs by its host path, /dev and /proc, the
  text of generated files, interpreters of scripts, and calls on two paths (rename,
  link), whose paths are rewritten as those of any other call.  `posixpath.normpath` keeps
  two slashes at the start of a path (virtual_paths.py:218-222): a bind at `//a` is never
  found, and no sequence of names says so.  A clone that shares only the working directory
  or only the descriptors.
* Streaming: frames and headers, terminal sizes, pings, the older protocols, a client
  that stays and never reads, shutdown of the server.
* The image store, `ptrace_common.py` and `cri_common.py`, generated code and tools.
* Failures of the state file itself (OSError): a save fails only as the iteration
  does.
* The network lease is in NetService and not in ContainerRuntime: what a crash
  between `allocate_pod_network` and the save leaves is for their composition.
* A killed tracer (`StopPodSandbox` signals its process group) never unregisters:
  its ports stay bound until the pod is released.  A registration of a tracer that
  comes after the release of its pod makes the namespace again and nothing removes
  it.  `MCServicePods` has neither, and the properties hold there.
* RemoveContainer right after a start: the kill reaches no process group before the
  supervisor's `setsid` and the event loop waits for ever (pnfroot.py:1604, 1201).
  `RemoveAnswers` of ContainerRuntime states the opposite and fails in `MCRuntimeRestarts`
  with one start and no crash.
* A child whose first calls come before its parent's fork event is reset in the
  middle of a call (ptrace_syscalls.py:691): `FollowsChildren`, added to `MCTracer.cfg`, fails.
* A socket that one thread opens has no row in another's table
  (virtual_network.py:269): `RowsTellTruth` and `HostStaysHidden` fail in `MCVirtualSockets` with
  `Names <- Threads` and without close-on-exec.
* `remove_network` drops mappings but not the active publishes that forward to them
  (server.py:498); StartContainer answers RUNNING before that is on disk
  (pnfroot.py:1356), so a crash recovers the container as CREATED.
* Paths: a mount on a target behind a link succeeds and no path leads to it, behind
  an absolute one it fails and stays in the table, in effect once the link is gone;
  a task killed in a call leaves its generated file and never restores the mode of
  the directory; a chmod by a program during such a call is overwritten; a working
  directory set by fchdir is not followed; threads share their working directory and
  descriptors and the tracer keeps a copy for each (virtual_paths.py:334-338), so
  that what one changes is wrong for the others; a copy made by fcntl(F_DUPFD), a
  descriptor of openat2 or of a message is not in the table, one that close_range or
  an execve closed still is (1113-1139).  The properties of VirtualPaths name these
  exceptions (`stray`, `spoiled`).
* Exec: a client that leaves before the threads have started leaves the process
  running, as the status that cannot be sent raises in the `except` clause before
  its kill; a terminate before `setsid` is lost; output that children of a host
  process hold back is lost when the join times out; over SPDY a failure before
  the error stream is open is told to nobody.
* TCP: a forwarder whose thread cannot start a client's thread ends and leaves its
  listener open; any error of accept ends a forwarder whose publish stays listed.
* RemoveContainer while the rootfs thread unpacks: the thread makes the bundle again
  and nothing deletes it.  A save that is cut short in the rootfs thread turns a
  complete rootfs into a failed one.  Both are in the model of the runtime.
* A crash while `RemoveContainer` deletes a bundle leaves a part of the rootfs, and the
  container `ready` in the state file: the next start runs over that part
  (pnfroot.py:906, 1607).  `StartsOnCompleteRootfs` fails in `MCRuntimeCrash` without
  `RemovalCut`.  An image that is replaced under its name between a crash and the restart
  is left out; for a start a rootfs of the earlier image is a complete one.
* Threads that share a sockaddr find it rewritten by each other's calls; a file that
  gets the number of a route socket an execve closed is taken for it; a bind to port
  0 is recorded and reported as port 0.  Of a socket that was bound through one fd,
  getsockname on another (after dup or fork) tells the interface's address with the real
  port on the host; a connect that answers EINPROGRESS is not recorded, so getpeername
  tells the address on the host.  The property leaves these fds out by name (`untold`).
* Sockets other than TCP and route sockets are not modelled: the address a UDP program
  gives is let through to the kernel (virtual_network.py:710, 946).  A second connect on
  one in progress is left out.
* An overruled start (section 2): a process escapes `RemoveContainer`, because its start
  thread forks after the removal has looked, and nothing kills it any more.
  `NoStrayProcess` without its exception fails in `MCRuntimeCrash` with `MaxStarts = 2` and
  no crash, `OneProcess` without its own with `MaxStarts = 3`, `StartsOnCompleteRootfs`
  with `MaxStarts = 2` and no crash.
* When the last traced pid is killed between its report and a ptrace call the
  supervisor returns 0, whatever ended the command (`Disappeared` sets no code).
* With an operator, `publish_port` between the two halves of an unregistration
  starts a listener for a process that is gone; `MCServicePods` leaves the operator
  out for that reason.
* StopPodSandbox only sends SIGTERM and RemovePodSandbox leaves containers alone;
  the model does the same and no property says otherwise.

## 6. Plan

1. `VirtualSockets` composed with the service: mappings that outlive their sockets,
   routes to them; its netlink queues.
2. The runtime composed with the leases of the service, for crashes between the
   two; an abstract container life cycle that ContainerRuntime implements.
3. `ImageStore`: pull, remove and unpack side by side.
4. Proofs: the sockets of processes with threads, as far as they do not share
   an address or a file; what `Relay` promises of a whole connection.
