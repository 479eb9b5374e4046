--------------------------- MODULE ContainerRuntime ---------------------------
(***************************************************************************)
(* RuntimeService of pnfroot.py: pods, containers, and the state file.     *)
(*                                                                         *)
(* The gRPC handlers are coroutines that never await anything but the      *)
(* answer, so they run one at a time on the event loop and block it: while *)
(* StartContainer waits for its thread, StopContainer for a process, or a  *)
(* save for _state_lock, no other handler runs (`loop`).  Two kinds of     *)
(* threads run beside it: one prepares the rootfs of a container, one      *)
(* starts its process.  They share the container's dict with the handlers  *)
(* and keep it after RemoveContainer took it out of self.containers.       *)
(*                                                                         *)
(* save_runtime_state reads the dicts entry by entry under _state_lock; the*)
(* handlers change them without it, and Python's iterator raises when the  *)
(* size of its dict has changed.                                           *)
(*                                                                         *)
(* The daemon may crash and be started again; supervisors of containers    *)
(* are sessions of their own and live on.  The images, the network service *)
(* and the processes themselves are outside: they answer as they like.     *)
(***************************************************************************)
EXTENDS Naturals, Sequences, FiniteSets

CONSTANTS
  Containers,   \* container ids, drawn at random and never twice
  Sandboxes,    \* pod ids, likewise
  WithImage,    \* the containers whose config names an image
  Plain,        \* the containers without a user, which may run on the host
  PodNetworking,\* --netservice-socket and --pod-network were given
  MaxStarts,    \* bound on the start threads of one container
  MaxCrashes,   \* bound on the crashes of the daemon
  NoContainer, NoSave

Starts == 1..MaxStarts
Record == [pod    : Sandboxes,
           state  : {"created", "running", "exited"},
           code   : {0, 1, 125, 255},     \* 1 stands for every other status
           rootfs : {"none", "preparing", "ready", "fallback", "error"},
           start  : {"none", "starting", "running", "stopped", "error", "recovered"},
           stop   : BOOLEAN,              \* stop_requested
           proc   : {0} \cup Starts]      \* the process, by its start; 0: None
SavedRecord == [pod : Sandboxes, state : {"created", "running", "exited"},
                code : {0, 1, 125, 255},
                rootfs : {"none", "ready", "fallback", "error"},
                start : {"none", "running", "stopped", "error", "recovered"}]
Process == [at : {"none", "forked", "live", "dying", "done", "failed"},
            host : BOOLEAN,               \* start_host_process: no supervisor
            born : 0..MaxCrashes]         \* the daemon that started it

Savers == {<<"loop">>} \cup ({"rootfs"} \X Containers) \cup ({"start"} \X Containers \X Starts)
Snapshot == [pods : [Sandboxes -> {"none", "ready", "notready"}],
             keys : Seq(Containers), conts : Seq(SavedRecord)]

SaveInProgress ==
  [by : Savers, pods : [Sandboxes -> {"none", "ready", "notready"}],
   listed : BOOLEAN, keys : Seq(Containers), conts : Seq(SavedRecord)]

ASSUME RuntimeAssumption ==
  /\ WithImage \subseteq Containers /\ Plain \subseteq Containers
  /\ PodNetworking \in BOOLEAN
  /\ MaxStarts \in Nat \ {0} /\ MaxCrashes \in Nat
  /\ NoContainer \notin Record /\ NoSave \notin SaveInProgress

VARIABLES
  sandboxes,    \* self.sandboxes: state of each pod, "none" when not a key
  order,        \* the keys of self.containers, in the order of the dict
  mem,          \* the container dicts, those only threads still hold included
  loop,         \* what the event loop is doing
  rootfsThread, \* where the rootfs thread of each container is
  starter,      \* where each start thread of each container is
  procs,        \* the process each start thread started
  saving,       \* the save that holds _state_lock
  disk,         \* the state file
  bundle,       \* the bundle directory of each container
  fresh,        \* ids not drawn yet
  daemon, crashes,
  overruled,    \* history: whose start an earlier start's thread declared failed
  removing      \* history: whose bundle RemoveContainer began to delete

memVars == <<sandboxes, order, mem>>
threadVars == <<loop, rootfsThread, starter, saving>>
worldVars == <<procs, disk, bundle, fresh, daemon, crashes, overruled, removing>>
vars == <<memVars, threadVars, worldVars>>

Idle == [op |-> "idle"]
LoopState == [op : {"idle", "save"}] \cup [op : {"insert", "release"}, pod : Sandboxes]
             \cup [op : {"createSave", "start"}, cid : Containers]
             \cup [op : {"stop", "remove", "rmtree"}, cid : Containers, proc : {0} \cup Starts]
RootfsAt == {"none", "pull", "unpack", "metadata", "save", "raised", "errorSave"}
StarterAt == {"none", "rootfs", "unpack", "spawn", "bare", "check", "assign", "stopping",
              "save", "raised", "errorSave", "done"}

TypeOK ==
  /\ sandboxes \in [Sandboxes -> {"none", "ready", "notready"}]
  /\ order \in Seq(Containers)
  /\ mem \in [Containers -> Record \cup {NoContainer}]
  /\ loop \in LoopState
  /\ rootfsThread \in [Containers -> RootfsAt]
  /\ starter \in [Containers -> [Starts -> StarterAt]]
  /\ procs \in [Containers -> [Starts -> Process]]
  /\ saving \in {NoSave} \cup SaveInProgress
  /\ disk \in Snapshot
  /\ bundle \in [Containers -> {"absent", "partial", "torn", "complete"}]
  /\ fresh \subseteq Containers \cup Sandboxes
  /\ daemon \in {"up", "down"} /\ crashes \in 0..MaxCrashes
  /\ overruled \subseteq Containers /\ removing \subseteq Containers

Init ==
  /\ sandboxes = [s \in Sandboxes |-> "none"]
  /\ order = <<>>
  /\ mem = [c \in Containers |-> NoContainer]
  /\ loop = Idle
  /\ rootfsThread = [c \in Containers |-> "none"]
  /\ starter = [c \in Containers |-> [k \in Starts |-> "none"]]
  /\ procs = [c \in Containers |-> [k \in Starts |->
                [at |-> "none", host |-> FALSE, born |-> 0]]]
  /\ saving = NoSave
  /\ disk = [pods |-> sandboxes, keys |-> <<>>, conts |-> <<>>]
  /\ bundle = [c \in Containers |-> "absent"]
  /\ fresh = Containers \cup Sandboxes
  /\ daemon = "up" /\ crashes = 0 /\ overruled = {} /\ removing = {}

-----------------------------------------------------------------------------
(* Helpers.                                                                *)

Listed(c) == \E k \in DOMAIN order : order[k] = c

ProcessAt(c, k) == IF k = 0 THEN [at |-> "none"] ELSE procs[c][k]
ProcessOf(c) == ProcessAt(c, mem[c].proc)
Ended(p) == p.at \in {"none", "done", "failed"}

(* terminate of the processes in P: SIGTERM ends a supervisor, a process   *)
(* on the host may ignore it.  A supervisor that has not called setsid yet *)
(* leads no process group: killpg fails, and _signal ignores that.         *)
Terminated(P) == \E deaf \in SUBSET {p \in P : procs[p[1]][p[2]].host} :
  procs' = [c \in Containers |-> [k \in Starts |->
              IF <<c, k>> \in P \ deaf /\ procs[c][k].at = "live"
              THEN [procs[c][k] EXCEPT !.at = "dying"] ELSE procs[c][k]]]

Becomes(c, k, at) == procs' = [procs EXCEPT ![c][k].at = at]

Killed(c, k) == IF procs[c][k].at = "live" THEN Becomes(c, k, "dying") ELSE UNCHANGED procs

(* Mutant: what only a live thread can bring to an end is saved.           *)
ToStateAsIs(r) ==
  [pod |-> r.pod, state |-> r.state, code |-> r.code, rootfs |-> r.rootfs, start |-> r.start]

(* container_to_state, container_from_state.                               *)
ToState(r) ==
  [pod |-> r.pod, state |-> r.state, code |-> r.code,
   rootfs |-> IF r.rootfs = "preparing" THEN "none" ELSE r.rootfs,
   start |-> IF r.start = "starting" THEN "none" ELSE r.start]

FromState(d) ==
  LET running == d.state = "running" IN
  [pod |-> d.pod, state |-> IF running THEN "exited" ELSE d.state,
   code |-> IF running /\ d.code = 0 THEN 255 ELSE d.code,
   rootfs |-> d.rootfs, start |-> IF running THEN "recovered" ELSE d.start,
   stop |-> FALSE, proc |-> 0]

Set(c, r) == mem' = [mem EXCEPT ![c] = r]
Then(op) == loop' = [op |-> op]
ThenFor(op, c) == loop' = [op |-> op, cid |-> c]
ThenWait(op, c) == loop' = [op |-> op, cid |-> c, proc |-> mem[c].proc]
Rootfs(c, at) == rootfsThread' = [rootfsThread EXCEPT ![c] = at]
Starter(c, k, at) == starter' = [starter EXCEPT ![c][k] = at]
Free == daemon = "up" /\ loop = Idle

-----------------------------------------------------------------------------
(* save_runtime_state, called by the loop or by a thread.                  *)

PodKeys(pods) == {s \in Sandboxes : pods[s] # "none"}

AtSave(by) ==
  CASE by[1] = "loop"   -> loop.op \in {"save", "createSave"}
    [] by[1] = "rootfs" -> rootfsThread[by[2]] \in {"save", "errorSave"}
    [] by[1] = "start"  -> starter[by[2]][by[3]] \in {"save", "errorSave"}

SaveBegin(by) ==
  /\ AtSave(by) /\ saving = NoSave
  /\ saving' = [by |-> by, pods |-> sandboxes, listed |-> FALSE,
                keys |-> <<>>, conts |-> <<>>]
  /\ UNCHANGED <<memVars, loop, rootfsThread, starter, worldVars>>

SavePods ==
  /\ saving # NoSave /\ ~saving.listed /\ PodKeys(saving.pods) = PodKeys(sandboxes)
  /\ saving' = [saving EXCEPT !.pods = sandboxes, !.listed = TRUE, !.keys = order]
  /\ UNCHANGED <<memVars, loop, rootfsThread, starter, worldVars>>

SaveNext ==
  LET n == Len(saving.conts) + 1 IN
  /\ saving # NoSave /\ saving.listed /\ saving.keys = order
  /\ n <= Len(saving.keys)
  /\ saving' = [saving EXCEPT !.conts = Append(@, ToState(mem[saving.keys[n]]))]
  /\ UNCHANGED <<memVars, loop, rootfsThread, starter, worldVars>>

(* Where the one that saved, or failed to, goes on.                        *)
PrepareRootfs(c) ==
  /\ Set(c, [mem[c] EXCEPT !.rootfs = "preparing"])
  /\ Rootfs(c, "pull")

LoopSaved ==
  /\ loop' = Idle
  /\ IF loop.op = "createSave" /\ loop.cid \in WithImage
     THEN PrepareRootfs(loop.cid)
     ELSE UNCHANGED <<mem, rootfsThread>>
  /\ UNCHANGED starter

SaveCommit ==
  /\ saving # NoSave /\ saving.listed /\ saving.keys = order
  /\ Len(saving.conts) = Len(saving.keys)
  /\ disk' = [pods |-> saving.pods, keys |-> saving.keys, conts |-> saving.conts]
  /\ saving' = NoSave
  /\ \/ saving.by[1] = "loop" /\ LoopSaved
     \/ /\ saving.by[1] = "rootfs" /\ Rootfs(saving.by[2], "none")
        /\ UNCHANGED <<mem, loop, starter>>
     \/ /\ saving.by[1] = "start" /\ Starter(saving.by[2], saving.by[3], "done")
        /\ UNCHANGED <<mem, loop, rootfsThread>>
  /\ UNCHANGED <<sandboxes, order, procs, bundle, fresh, daemon, crashes,
                 overruled, removing>>

(* RuntimeError: dictionary changed size during iteration.  The thread     *)
(* takes it for a failure of its work and, the lock released, says so and  *)
(* saves once more; a failure of that save ends the thread.                *)
SaveRaise ==
  LET by == saving.by IN
  /\ saving # NoSave /\ by[1] # "loop"
  /\ IF saving.listed THEN saving.keys # order
     ELSE PodKeys(saving.pods) # PodKeys(sandboxes)
  /\ saving' = NoSave
  /\ \/ /\ by[1] = "rootfs" /\ UNCHANGED starter
        /\ Rootfs(by[2], IF rootfsThread[by[2]] = "save" THEN "raised" ELSE "none")
     \/ /\ by[1] = "start" /\ UNCHANGED rootfsThread
        /\ Starter(by[2], by[3], IF starter[by[2]][by[3]] = "save" THEN "raised" ELSE "done")
  /\ UNCHANGED <<sandboxes, order, mem, loop, worldVars>>

(* The except clauses of the two threads.                                  *)
RootfsError(c) ==
  /\ Set(c, [mem[c] EXCEPT !.rootfs = "error"])
  /\ Rootfs(c, "errorSave")

StartError(c, k) ==
  /\ Set(c, [mem[c] EXCEPT !.start = "error", !.state = "exited", !.code = 125])
  /\ Starter(c, k, "errorSave")

-----------------------------------------------------------------------------
(* Pods.                                                                   *)

(* allocate_pod_network; when it raises, the answer is UNAVAILABLE.        *)
RunPodSandbox(s) ==
  /\ Free /\ s \in fresh
  /\ fresh' = fresh \ {s}
  /\ \/ loop' = [op |-> "insert", pod |-> s]
     \/ PodNetworking /\ UNCHANGED loop
  /\ UNCHANGED <<memVars, rootfsThread, starter, saving,
                 procs, disk, bundle, daemon, crashes, overruled, removing>>

(* Mutant: the new pod is not saved.                                       *)
InsertPodUnsaved ==
  /\ loop.op = "insert"
  /\ sandboxes' = [sandboxes EXCEPT ![loop.pod] = "ready"]
  /\ loop' = Idle
  /\ UNCHANGED <<order, mem, rootfsThread, starter, saving, worldVars>>

InsertPod ==
  /\ loop.op = "insert"
  /\ sandboxes' = [sandboxes EXCEPT ![loop.pod] = "ready"]
  /\ Then("save")
  /\ UNCHANGED <<order, mem, rootfsThread, starter, saving, worldVars>>

StopPodSandbox(s) ==
  LET inPod == {c \in Containers : Listed(c) /\ mem[c].pod = s} IN
  /\ Free /\ sandboxes[s] # "none"
  /\ Terminated({<<c, mem[c].proc>> : c \in {d \in inPod : ~Ended(ProcessOf(d))}})
  /\ mem' = [c \in Containers |->
       IF c \in inPod THEN [mem[c] EXCEPT !.state = "exited"] ELSE mem[c]]
  /\ sandboxes' = [sandboxes EXCEPT ![s] = "notready"]
  /\ Then("save")
  /\ UNCHANGED <<order, rootfsThread, starter, saving,
                 disk, bundle, fresh, daemon, crashes, overruled, removing>>

RemovePodSandbox(s) ==
  /\ Free /\ sandboxes[s] # "none"
  /\ sandboxes' = [sandboxes EXCEPT ![s] = "none"]
  /\ loop' = [op |-> "release", pod |-> s]
  /\ UNCHANGED <<order, mem, rootfsThread, starter, saving, worldVars>>

(* release_pod_network; when it raises, the error is only logged.          *)
ReleasePodNetwork ==
  /\ loop.op = "release"
  /\ Then("save")
  /\ UNCHANGED <<memVars, rootfsThread, starter, saving, worldVars>>

-----------------------------------------------------------------------------
(* Containers.                                                             *)

NewContainer(s) == [pod |-> s, state |-> "created", code |-> 0, rootfs |-> "none",
                    start |-> "none", stop |-> FALSE, proc |-> 0]

CreateContainer(c, s) ==
  /\ Free /\ c \in fresh /\ sandboxes[s] # "none"
  /\ fresh' = fresh \ {c}
  /\ Set(c, NewContainer(s))
  /\ order' = Append(order, c)
  /\ ThenFor("createSave", c)
  /\ UNCHANGED <<sandboxes, rootfsThread, starter, saving,
                 procs, disk, bundle, daemon, crashes, overruled, removing>>

(* The next start thread of c, when its bound allows one more.             *)
NextStart(c) == {k \in Starts : starter[c][k] = "none" /\ \A j \in 1..(k-1) : starter[c][j] # "none"}

(* Mutant: it is not checked that the process still runs.                  *)
StartContainerAgain(c) ==
  /\ Free /\ Listed(c) /\ mem[c].rootfs # "error" /\ mem[c].start # "starting"
  /\ \E k \in NextStart(c) : Starter(c, k, "rootfs")
  /\ Set(c, [mem[c] EXCEPT !.stop = FALSE, !.start = "starting"])
  /\ ThenFor("start", c)
  /\ UNCHANGED <<sandboxes, order, rootfsThread, saving, worldVars>>

StartContainer(c) ==
  /\ Free /\ Listed(c) /\ Ended(ProcessOf(c)) /\ mem[c].rootfs # "error"
  /\ \/ /\ mem[c].start # "starting"
        /\ \E k \in NextStart(c) : Starter(c, k, "rootfs")
        /\ Set(c, [mem[c] EXCEPT !.stop = FALSE, !.start = "starting"])
     \/ mem[c].start = "starting" /\ UNCHANGED <<mem, starter>>
  /\ ThenFor("start", c)
  /\ UNCHANGED <<sandboxes, order, rootfsThread, saving, worldVars>>

StartAnswer ==
  /\ loop.op = "start" /\ mem[loop.cid].start # "starting"
  /\ loop' = Idle
  /\ UNCHANGED <<memVars, rootfsThread, starter, saving, worldVars>>

StopContainer(c) ==
  /\ Free /\ Listed(c)
  /\ Set(c, [mem[c] EXCEPT !.stop = TRUE])
  /\ IF Ended(ProcessOf(c)) THEN UNCHANGED procs ELSE Terminated({<<c, mem[c].proc>>})
  /\ ThenWait("stop", c)
  /\ UNCHANGED <<sandboxes, order, rootfsThread, starter, saving,
                 disk, bundle, fresh, daemon, crashes, overruled, removing>>

(* The grace period is over (it is seconds: the supervisor has its session *)
(* by then).                                                               *)
StopKill ==
  /\ loop.op = "stop" /\ ProcessAt(loop.cid, loop.proc).at = "live"
  /\ Killed(loop.cid, loop.proc)
  /\ UNCHANGED <<memVars, threadVars,
                 disk, bundle, fresh, daemon, crashes, overruled, removing>>

StopAnswer ==
  /\ loop.op = "stop" /\ Ended(ProcessAt(loop.cid, loop.proc))
  /\ Set(loop.cid, [mem[loop.cid] EXCEPT !.state = "exited", !.code = 0])
  /\ Then("save")
  /\ UNCHANGED <<sandboxes, order, rootfsThread, starter, saving, worldVars>>

(* Mutant: a running container is removed and its process forgotten.       *)
RemoveContainerOnly(c) ==
  /\ Free /\ Listed(c)
  /\ Set(c, [mem[c] EXCEPT !.stop = TRUE])
  /\ loop' = [op |-> "remove", cid |-> c, proc |-> 0]
  /\ UNCHANGED <<sandboxes, order, rootfsThread, starter, saving, worldVars>>

RemoveContainer(c) ==
  /\ Free /\ Listed(c)
  /\ Set(c, [mem[c] EXCEPT !.stop = TRUE])
  /\ IF Ended(ProcessOf(c)) THEN UNCHANGED procs ELSE Killed(c, mem[c].proc)
  /\ ThenWait("remove", c)
  /\ UNCHANGED <<sandboxes, order, rootfsThread, starter, saving,
                 disk, bundle, fresh, daemon, crashes, overruled, removing>>

(* rmtree takes a file at a time; what it cannot delete it leaves, with    *)
(* whatever a thread still unpacks under it.                               *)
RemoveDelete ==
  /\ loop.op = "remove" /\ Ended(ProcessAt(loop.cid, loop.proc))
  /\ bundle' = [bundle EXCEPT ![loop.cid] = IF @ = "absent" THEN @ ELSE "torn"]
  /\ removing' = removing \cup {loop.cid}
  /\ loop' = [loop EXCEPT !.op = "rmtree"]
  /\ UNCHANGED <<memVars, rootfsThread, starter, saving,
                 procs, disk, fresh, daemon, crashes, overruled>>

RemoveFinish ==
  /\ loop.op = "rmtree" /\ Ended(ProcessAt(loop.cid, loop.proc))
  /\ \E left \in {"absent", "torn"} :
       /\ bundle[loop.cid] = "absent" => left = "absent"
       /\ bundle' = [bundle EXCEPT ![loop.cid] = left]
  /\ \E i \in DOMAIN order :
       /\ order[i] = loop.cid
       /\ order' = SubSeq(order, 1, i - 1) \o SubSeq(order, i + 1, Len(order))
  /\ Then("save")
  /\ UNCHANGED <<sandboxes, mem, rootfsThread, starter, saving,
                 procs, disk, fresh, daemon, crashes, overruled, removing>>

(* refresh_container_state, by ContainerStatus and Exec.                   *)
RefreshContainerState(c) ==
  /\ Free /\ Listed(c) /\ ProcessOf(c).at \in {"done", "failed"}
  /\ Set(c, [mem[c] EXCEPT !.state = "exited",
                           !.code = IF ProcessOf(c).at = "done" THEN 0 ELSE 1])
  /\ IF mem[c].state # "exited" THEN Then("save") ELSE UNCHANGED loop
  /\ UNCHANGED <<sandboxes, order, rootfsThread, starter, saving, worldVars>>

-----------------------------------------------------------------------------
(* _prepare_container_rootfs.                                              *)

RootfsDone(c, status) ==
  /\ Set(c, [mem[c] EXCEPT !.rootfs = status])
  /\ Rootfs(c, "save")

(* What is there of the bundle while the image is unpacked to it, after the*)
(* unpacking failed, and when the metadata is written.  A bundle is "torn" *)
(* when a removal has begun to delete it: any part of it may be missing.   *)
Unpacking(c) == IF bundle[c] = "torn" THEN "torn" ELSE "partial"
Failing(c) == IF bundle[c] = "torn" THEN {"torn"} ELSE {"partial", "absent"}
Sealed(c) == CASE bundle[c] = "absent" -> {"torn"}
               [] bundle[c] = "torn" -> {"torn", "complete"}
               [] OTHER -> {"complete"}
Bundle(c, is) == bundle' = [bundle EXCEPT ![c] = is]

(* rootfs_matches_image: the metadata is the last thing written.           *)
MayMatch(c) == bundle[c] \in {"complete", "torn"}

(* Mutant: a rootfs directory is taken for a rootfs.                       *)
RootfsPullAny(c) ==
  /\ rootfsThread[c] = "pull"
  /\ \/ bundle[c] # "absent" /\ RootfsDone(c, "ready")
     \/ bundle[c] # "complete" /\ Rootfs(c, "unpack") /\ UNCHANGED mem
     \/ RootfsDone(c, "fallback")
     \/ RootfsError(c)
  /\ UNCHANGED <<sandboxes, order, loop, starter, saving, worldVars>>

(* ensure_image_pulled, then rootfs_matches_image.                         *)
RootfsPull(c) ==
  /\ rootfsThread[c] = "pull"
  /\ \/ MayMatch(c) /\ RootfsDone(c, "ready")
     \/ bundle[c] # "complete" /\ Rootfs(c, "unpack") /\ UNCHANGED mem
     \/ RootfsDone(c, "fallback")
     \/ RootfsError(c)
  /\ UNCHANGED <<sandboxes, order, loop, starter, saving, worldVars>>

(* mkdir and unpack_image_to_rootfs, which may fail half way.              *)
RootfsUnpack(c) ==
  /\ rootfsThread[c] = "unpack"
  /\ \/ Bundle(c, Unpacking(c)) /\ Rootfs(c, "metadata") /\ UNCHANGED mem
     \/ (\E left \in Failing(c) : Bundle(c, left)) /\ RootfsError(c)
  /\ UNCHANGED <<sandboxes, order, loop, starter, saving,
                 procs, disk, fresh, daemon, crashes, overruled, removing>>

(* write_container_rootfs_metadata makes the directory again if need be.   *)
RootfsMetadata(c) ==
  /\ rootfsThread[c] = "metadata"
  /\ \/ (\E is \in Sealed(c) : Bundle(c, is)) /\ RootfsDone(c, "ready")
     \/ UNCHANGED bundle /\ RootfsError(c)
  /\ UNCHANGED <<sandboxes, order, loop, starter, saving,
                 procs, disk, fresh, daemon, crashes, overruled, removing>>

RootfsRaised(c) ==
  /\ rootfsThread[c] = "raised"
  /\ RootfsError(c)
  /\ UNCHANGED <<sandboxes, order, loop, starter, saving, worldVars>>

-----------------------------------------------------------------------------
(* _start_container_process.                                               *)

(* wait_for_container_rootfs; after a restart nothing prepares the rootfs  *)
(* before this.  The start goes on with a rootfs ("spawn"), without        *)
(* ("bare"), or, when what was ready is gone, unpacks it in this thread.   *)
StartRootfs(c, k) ==
  /\ starter[c][k] = "rootfs"
  /\ \/ c \in WithImage /\ mem[c].rootfs = "none" /\ PrepareRootfs(c) /\ UNCHANGED starter
     \/ mem[c].rootfs = "error" /\ StartError(c, k) /\ UNCHANGED rootfsThread
     \/ /\ c \in WithImage
        /\ \/ mem[c].rootfs = "ready" /\ bundle[c] # "absent"
           \/ mem[c].rootfs = "fallback" /\ MayMatch(c)
        /\ Starter(c, k, "spawn") /\ UNCHANGED <<mem, rootfsThread>>
     \/ /\ c \in WithImage => mem[c].rootfs = "fallback"
        /\ Starter(c, k, "bare") /\ UNCHANGED <<mem, rootfsThread>>
  /\ UNCHANGED <<sandboxes, order, loop, saving, worldVars>>

(* ensure_container_rootfs in this thread: the image is not to be had, is  *)
(* not there any more, or is unpacked,                                     *)
StartEnsure(c, k) ==
  /\ starter[c][k] = "rootfs" /\ c \in WithImage
  /\ mem[c].rootfs = "ready" /\ bundle[c] \in {"absent", "torn"}
  /\ \/ StartError(c, k) /\ UNCHANGED bundle
     \/ Starter(c, k, "bare") /\ UNCHANGED <<mem, bundle>>
     \/ Starter(c, k, "unpack") /\ Bundle(c, Unpacking(c)) /\ UNCHANGED mem
  /\ UNCHANGED <<sandboxes, order, loop, rootfsThread, saving,
                 procs, disk, fresh, daemon, crashes, overruled, removing>>

(* which may fail half way.                                                *)
StartUnpack(c, k) ==
  /\ starter[c][k] = "unpack"
  /\ \/ (\E is \in Sealed(c) : Bundle(c, is)) /\ Starter(c, k, "spawn") /\ UNCHANGED mem
     \/ (\E left \in Failing(c) : Bundle(c, left)) /\ StartError(c, k)
  /\ UNCHANGED <<sandboxes, order, loop, rootfsThread, saving,
                 procs, disk, fresh, daemon, crashes, overruled, removing>>

(* start_process: container_network_config finds the pod, or None.         *)
OnHost(c, k) ==
  /\ c \in Plain /\ starter[c][k] = "bare"
  /\ ~PodNetworking \/ sandboxes[mem[c].pod] = "none"

StartSpawn(c, k) ==
  /\ starter[c][k] \in {"spawn", "bare"}
  /\ \/ /\ procs' = [procs EXCEPT ![c][k] =
                       [at |-> IF OnHost(c, k) THEN "live" ELSE "forked",
                        host |-> OnHost(c, k), born |-> crashes]]
        /\ Starter(c, k, "check") /\ UNCHANGED mem
     \/ StartError(c, k) /\ UNCHANGED procs
  /\ UNCHANGED <<sandboxes, order, loop, rootfsThread, saving,
                 disk, bundle, fresh, daemon, crashes, overruled, removing>>

StartCheck(c, k) ==
  /\ starter[c][k] = "check"
  /\ IF mem[c].stop THEN Terminated({<<c, k>>}) /\ Starter(c, k, "stopping")
     ELSE Starter(c, k, "assign") /\ UNCHANGED procs
  /\ UNCHANGED <<memVars, loop, rootfsThread, saving,
                 disk, bundle, fresh, daemon, crashes, overruled, removing>>

StartRunning(c, k) ==
  /\ starter[c][k] = "assign"
  /\ Set(c, [mem[c] EXCEPT !.proc = k, !.state = "running", !.start = "running"])
  /\ Starter(c, k, "save")
  /\ UNCHANGED <<sandboxes, order, loop, rootfsThread, saving, worldVars>>

StartKill(c, k) ==
  /\ starter[c][k] = "stopping" /\ procs[c][k].at = "live"
  /\ Killed(c, k)
  /\ UNCHANGED <<memVars, threadVars,
                 disk, bundle, fresh, daemon, crashes, overruled, removing>>

StartStopped(c, k) ==
  /\ starter[c][k] = "stopping" /\ Ended(procs[c][k])
  /\ Set(c, [mem[c] EXCEPT !.state = "exited", !.start = "stopped"])
  /\ Starter(c, k, "save")
  /\ UNCHANGED <<sandboxes, order, loop, rootfsThread, saving, worldVars>>

(* The thread of a start that was answered may say this of a later one.    *)
StartRaised(c, k) ==
  /\ starter[c][k] = "raised"
  /\ StartError(c, k)
  /\ overruled' = IF mem[c].start = "starting" THEN overruled \cup {c} ELSE overruled
  /\ UNCHANGED <<sandboxes, order, loop, rootfsThread, saving,
                 procs, disk, bundle, fresh, daemon, crashes, removing>>

-----------------------------------------------------------------------------
(* The world.                                                              *)

(* The supervisor, forked, calls setsid; Popen has done so when it returns.*)
SetSid(c, k) ==
  /\ procs[c][k].at = "forked"
  /\ Becomes(c, k, "live")
  /\ UNCHANGED <<memVars, threadVars,
                 disk, bundle, fresh, daemon, crashes, overruled, removing>>

Exit(c, k) ==
  /\ procs[c][k].at \in {"forked", "live", "dying"}
  /\ \E how \in {"done", "failed"} :
       (procs[c][k].at # "live" => how = "failed") /\ Becomes(c, k, how)
  /\ UNCHANGED <<memVars, threadVars,
                 disk, bundle, fresh, daemon, crashes, overruled, removing>>

(* The daemon dies: its threads and its memory are gone (the dicts are     *)
(* kept here only to compare them with what is loaded).                    *)
Crash ==
  /\ daemon = "up" /\ crashes < MaxCrashes
  /\ daemon' = "down" /\ crashes' = crashes + 1
  /\ loop' = Idle /\ saving' = NoSave
  /\ rootfsThread' = [c \in Containers |-> "none"]
  /\ starter' = [c \in Containers |-> [k \in Starts |->
                   IF starter[c][k] = "none" THEN "none" ELSE "done"]]
  /\ UNCHANGED <<memVars, procs, disk, bundle, fresh, overruled, removing>>

(* load_runtime_state; what it loaded it saves again.                      *)
Restart ==
  LET recovered == [k \in DOMAIN disk.conts |-> FromState(disk.conts[k])] IN
  /\ daemon = "down"
  /\ daemon' = "up"
  /\ sandboxes' = disk.pods /\ order' = disk.keys
  /\ mem' = [c \in Containers |->
       IF \E k \in DOMAIN disk.keys : disk.keys[k] = c
       THEN recovered[CHOOSE k \in DOMAIN disk.keys : disk.keys[k] = c]
       ELSE NoContainer]
  /\ disk' = [disk EXCEPT !.conts = [k \in DOMAIN recovered |-> ToState(recovered[k])]]
  /\ UNCHANGED <<threadVars, procs, bundle, fresh, crashes, overruled, removing>>

-----------------------------------------------------------------------------
PodStep ==
  \/ \E s \in Sandboxes : RunPodSandbox(s) \/ StopPodSandbox(s) \/ RemovePodSandbox(s)
  \/ InsertPod \/ ReleasePodNetwork

ContainerStep(c) ==
  \/ \E s \in Sandboxes : CreateContainer(c, s)
  \/ StartContainer(c) \/ StopContainer(c) \/ RemoveContainer(c)
  \/ RefreshContainerState(c)

(* The loop goes on with the request it is busy with.                      *)
LoopStep ==
  StartAnswer \/ StopKill \/ StopAnswer \/ RemoveDelete \/ RemoveFinish

RootfsStep(c) == RootfsPull(c) \/ RootfsUnpack(c) \/ RootfsMetadata(c) \/ RootfsRaised(c)

StarterStep(c, k) ==
  \/ StartRootfs(c, k) \/ StartEnsure(c, k) \/ StartUnpack(c, k)
  \/ StartSpawn(c, k) \/ StartCheck(c, k)
  \/ StartRunning(c, k) \/ StartKill(c, k) \/ StartStopped(c, k)
  \/ StartRaised(c, k)

SaveStep == SavePods \/ SaveNext \/ SaveCommit \/ SaveRaise

Next ==
  \/ PodStep \/ LoopStep \/ SaveStep
  \/ \E by \in Savers : SaveBegin(by)
  \/ \E c \in Containers :
       \/ ContainerStep(c) \/ RootfsStep(c)
       \/ \E k \in Starts : StarterStep(c, k) \/ SetSid(c, k) \/ Exit(c, k)
  \/ Crash \/ Restart

Spec == Init /\ [][Next]_vars

-----------------------------------------------------------------------------
(* Fairness: threads and the loop run on, Popen.wait and waits with a      *)
(* timeout return, a signalled process ends.  What clients ask, whether a  *)
(* process ends by itself and whether the daemon crashes is up to them.    *)

Dies(c, k) == procs[c][k].at = "dying" /\ Exit(c, k)

Fairness ==
  /\ WF_vars(LoopStep) /\ WF_vars(InsertPod) /\ WF_vars(ReleasePodNetwork)
  /\ WF_vars(SaveStep)
  /\ \A by \in Savers : WF_vars(SaveBegin(by))
  /\ \A c \in Containers :
       /\ WF_vars(RootfsStep(c))
       /\ \A k \in Starts : /\ WF_vars(StarterStep(c, k))
                             /\ WF_vars(SetSid(c, k)) /\ WF_vars(Dies(c, k))

FairSpec == Spec /\ Fairness

-----------------------------------------------------------------------------
(* Properties.                                                             *)

(* No request is being served and no thread runs.                          *)
Quiescent ==
  /\ daemon = "up" /\ loop = Idle /\ saving = NoSave
  /\ \A c \in Containers : /\ rootfsThread[c] = "none"
                           /\ \A k \in Starts : starter[c][k] \in {"none", "done"}

(* Whatever saves were cut short by a change of the dicts, the last one to *)
(* succeed saw everything: at rest the state file holds the pods, the      *)
(* containers and their states.  (Not the exit code: a refresh of an       *)
(* exited container changes it without a save.)                            *)
SavedFields(r) == <<r.pod, r.state, r.rootfs, r.start>>

Durable ==
  Quiescent =>
    /\ disk.pods = sandboxes /\ disk.keys = order
    /\ \A k \in DOMAIN order : SavedFields(disk.conts[k]) = SavedFields(mem[order[k]])

(* A process this daemon started and has not signalled.                    *)
Mine(c, k) == procs[c][k].at \in {"forked", "live"} /\ procs[c][k].born = crashes

(* At rest the daemon can still signal every process it started: it is the *)
(* process of a container that has not been removed.  (Not so for one of a *)
(* start that was overruled: it could be removed while it was starting.)   *)
NoStrayProcess ==
  Quiescent => \A c \in Containers \ overruled, k \in Starts : Mine(c, k) =>
     Listed(c) /\ mem[c].proc = k

(* However starts, failed starts and stops of a container interleave, the  *)
(* daemon never runs it twice, unless a start was overruled; and a         *)
(* container listed as running has a process to wait for, also when the    *)
(* daemon was restarted over a state file that says it runs: otherwise     *)
(* nothing would refresh its state.                                        *)
OneProcess == \A c \in Containers :
  /\ c \notin overruled => Cardinality({k \in Starts : Mine(c, k)}) <= 1
  /\ daemon = "up" /\ Listed(c) /\ mem[c].state = "running" => mem[c].proc # 0

(* A removal of c began to delete its bundle and something went on as if it*)
(* had not: a daemon that crashed before the removal was saved, or a start *)
(* whose handler an earlier start's thread had sent away.                  *)
RemovalCut(c) == c \in removing /\ (crashes > 0 \/ c \in overruled)

(* A process is only started over a rootfs that is there completely, also  *)
(* when the daemon died while it was unpacking, or when unpacking failed;  *)
(* but for a container whose removal was cut short: what is there of its   *)
(* bundle is taken for the rootfs the state file says is ready.            *)
StartsOnCompleteRootfs ==
  [][\A c \in Containers, k \in Starts :
       procs[c][k].at = "none" /\ procs'[c][k].at # "none" /\ starter[c][k] = "spawn"
         => bundle[c] = "complete" \/ RemovalCut(c)]_vars

(* No request blocks the event loop for ever: a thread that fails tells    *)
(* the handler that waits for it, a restart forgets starts in progress, a  *)
(* process that ignores SIGTERM is killed, the state lock is given back.   *)
(* (RemoveContainer is the exception.)                                     *)
LoopAnswers == (loop # Idle /\ loop.op # "remove") ~> (loop = Idle)

(* RemoveContainer of a container that was just started returns.  This does*)
(* not hold: a kill before the supervisor's setsid is lost.                *)
RemoveAnswers == (loop.op = "remove") ~> (loop = Idle)
=============================================================================
