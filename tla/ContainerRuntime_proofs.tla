------------------------ MODULE ContainerRuntime_proofs ------------------------
(***************************************************************************)
(* Proofs about ContainerRuntime: what it saves, which processes it runs   *)
(* and what they run on, for any number of pods, containers, starts and    *)
(* crashes.                                                                *)
(***************************************************************************)
EXTENDS ContainerRuntime, SequenceTheorems, FiniteSetTheorems, TLAPS

(* A container has a dict, in self.containers or held by a thread.         *)
Known(c) == mem[c] # NoContainer
Active == {"pull", "unpack", "metadata"}         \* a rootfs thread at work
Busy(c, k) ==
  starter[c][k] \in {"rootfs", "unpack", "spawn", "bare", "check", "assign", "stopping"}
Over(c, k) == starter[c][k] \in {"save", "raised", "errorSave", "done"}
(* A list without duplicates, and one that holds an element.               *)
Distinct(s) == \A i, j \in DOMAIN s : s[i] = s[j] => i = j
Holds(s, c) == \E i \in DOMAIN s : s[i] = c

(* The keys of self.containers, of the state file and of the snapshot      *)
(* being saved are distinct, and each saved container has a key.           *)
Lists ==
  /\ Distinct(order) /\ Distinct(disk.keys) /\ Len(disk.conts) = Len(disk.keys)
  /\ saving # NoSave =>
       /\ Distinct(saving.keys) /\ Len(saving.conts) <= Len(saving.keys)
       /\ ~saving.listed => saving.keys = <<>>

(* A container that is listed, or that a thread works for, has its dict,   *)
(* one that is still to come has nothing.                                  *)
Dicts ==
  /\ \A c \in Containers :
       /\ Listed(c) => Known(c)
       /\ rootfsThread[c] # "none" => Known(c)
       /\ \A k \in Starts : starter[c][k] \notin {"none", "done"} => Known(c)
       /\ c \in fresh =>
            /\ ~Known(c) /\ rootfsThread[c] = "none"
            /\ \A k \in Starts : starter[c][k] = "none"
            /\ ~Holds(disk.keys, c) /\ (saving # NoSave => ~Holds(saving.keys, c))
  /\ loop.op \in {"createSave", "start", "stop", "remove", "rmtree"} => Listed(loop.cid)

(* A daemon that is down does nothing, and none of the processes is its.   *)
Down ==
  /\ \A c \in Containers, k \in Starts : procs[c][k].born <= crashes
  /\ daemon = "down" =>
       /\ crashes > 0 /\ loop = Idle /\ saving = NoSave
       /\ \A c \in Containers : rootfsThread[c] = "none"
       /\ \A c \in Containers, k \in Starts :
            starter[c][k] \in {"none", "done"} /\ procs[c][k].born < crashes

(* The handler of a start waits for the thread it began, so that one start *)
(* of a container is under way at a time, and none while a process of the  *)
(* container runs; when the thread fails it says so.  An overruled start   *)
(* is one whose handler was told so by an earlier thread and went away.    *)
StartingOf(c) ==
  /\ c \notin overruled => \A k \in Starts : Busy(c, k) =>
       /\ loop.op = "start" /\ loop.cid = c /\ mem[c].start = "starting"
       /\ Ended(ProcessOf(c))
       /\ \A j \in Starts : Busy(c, j) => j = k
  /\ daemon = "up" /\ Known(c) /\ mem[c].start = "starting" => \E k \in Starts : Busy(c, k)
  /\ c \in overruled => \E k \in Starts : starter[c][k] \in {"errorSave", "done"}
Starting == \A c \in Containers : StartingOf(c)

(* A process that this daemon started and has not signalled is the process *)
(* of its container, or about to be: its thread still has it in hand.      *)
OwnedOf(c) ==
  /\ Known(c) => /\ mem[c].proc # 0 => Over(c, mem[c].proc)
                 /\ mem[c].state = "running" => mem[c].proc # 0
  /\ \A k \in Starts : starter[c][k] \in {"none", "rootfs", "unpack", "spawn", "bare"} => procs[c][k].at = "none"
  /\ c \notin overruled => \A k \in Starts : Mine(c, k) =>
       Listed(c) /\ (mem[c].proc = k \/ starter[c][k] \in {"check", "assign", "stopping"})
  /\ c \notin overruled /\ loop.op \in {"stop", "remove", "rmtree"} /\ loop.cid = c
       => loop.proc = mem[c].proc
Owned == \A c \in Containers : OwnedOf(c)

(* The rootfs of a container is "preparing" just when a thread prepares    *)
(* it, and a start goes on when that is over.                              *)
PreparingOf(c) ==
  /\ rootfsThread[c] \in Active => mem[c].rootfs = "preparing"
  /\ daemon = "up" /\ Known(c) /\ mem[c].rootfs = "preparing" => rootfsThread[c] \in Active
  /\ Known(c) /\ mem[c].rootfs = "none" => rootfsThread[c] = "none"
  /\ loop.op = "createSave" /\ loop.cid = c =>
       mem[c].rootfs = "none" /\ \A k \in Starts : starter[c][k] = "none"
  /\ \A k \in Starts : starter[c][k] \in {"unpack", "spawn"} =>
       mem[c].rootfs \notin {"none", "preparing"}
Preparing == \A c \in Containers : PreparingOf(c)

(* A rootfs that is said to be ready, in memory or in a file, is complete, *)
(* unless a removal has begun to delete it.                                *)
SavedReady(s, c) == \E i \in DOMAIN s.conts : s.keys[i] = c /\ s.conts[i].rootfs = "ready"
Good(c) == bundle[c] = "complete" \/ c \in removing

UnpackedOf(c) ==
  /\ SavedReady(disk, c) \/ (saving # NoSave /\ SavedReady(saving, c)) =>
       Known(c) /\ mem[c].rootfs \in {"ready", "error"} /\ Good(c)
  /\ Known(c) /\ mem[c].rootfs = "ready" => Good(c)
  /\ rootfsThread[c] = "metadata" => bundle[c] = "partial" \/ c \in removing
  /\ bundle[c] = "torn" => c \in removing
Unpacked == \A c \in Containers : UnpackedOf(c)

(* Once a removal has begun to delete the bundle of a container, no start  *)
(* of it is under way, and it is listed only until the removal is through; *)
(* but for a removal that was cut.  A start goes on with a complete rootfs.*)
Removing(c) == loop.op = "rmtree" /\ loop.cid = c

RemovedOf(c) ==
  /\ Removing(c) => c \in removing
  /\ c \in removing => c \notin fresh
  /\ c \in removing /\ ~RemovalCut(c) =>
       (\A k \in Starts : ~Busy(c, k)) /\ (Listed(c) => Removing(c))
  /\ \A k \in Starts :
       /\ starter[c][k] = "unpack" => RemovalCut(c)
       /\ starter[c][k] = "spawn" => bundle[c] = "complete" \/ RemovalCut(c)
Removed == \A c \in Containers : RemovedOf(c)

(* Who saves is at its save.                                               *)
Saver == saving # NoSave => AtSave(saving.by)

(* What is not on disk, or in the snapshot being saved, will be saved by   *)
(* somebody else.                                                          *)
Saves(kind) == saving # NoSave /\ saving.by[1] = kind
PendingLoop ==
  \/ loop.op \in {"insert", "release", "stop", "remove", "rmtree", "rmtree"}
  \/ loop.op \in {"save", "createSave"} /\ ~Saves("loop")
PendingRootfs(c) ==
  rootfsThread[c] # "none" /\ ~(Saves("rootfs") /\ saving.by[2] = c)
PendingStart(c, k) ==
  /\ starter[c][k] \notin {"none", "done"}
  /\ ~(Saves("start") /\ saving.by[2] = c /\ saving.by[3] = k)
Pending ==
  \/ PendingLoop
  \/ \E c \in Containers : PendingRootfs(c)
  \/ \E c \in Containers, k \in Starts : PendingStart(c, k)

Agrees(s) ==
  /\ s.pods = sandboxes /\ s.keys = order
  /\ \A i \in DOMAIN s.conts : SavedFields(s.conts[i]) = SavedFields(ToState(mem[order[i]]))

Saved == daemon = "up" =>
  \/ Pending
  \/ saving = NoSave /\ Agrees(disk)
  \/ saving # NoSave /\ saving.listed /\ Agrees(saving)
  \/ saving # NoSave /\ ~saving.listed /\ PodKeys(saving.pods) = PodKeys(sandboxes)

(* TypeOK, by variable.                                                    *)
MemT == mem \in [Containers -> Record \cup {NoContainer}]
ProcsT == procs \in [Containers -> [Starts -> Process]]
StarterT == starter \in [Containers -> [Starts -> StarterAt]]
RootfsT == rootfsThread \in [Containers -> RootfsAt]
LoopT == loop \in LoopState
SavingT == saving \in {NoSave} \cup SaveInProgress
ListsT ==
  /\ sandboxes \in [Sandboxes -> {"none", "ready", "notready"}]
  /\ order \in Seq(Containers) /\ disk \in Snapshot
RestT ==
  /\ bundle \in [Containers -> {"absent", "partial", "torn", "complete"}]
  /\ fresh \subseteq Containers \cup Sandboxes
  /\ daemon \in {"up", "down"} /\ crashes \in 0..MaxCrashes
  /\ overruled \subseteq Containers /\ removing \subseteq Containers

(* The inductive invariant.                                                *)
RuntimeInv ==
  TypeOK /\ Lists /\ Dicts /\ Down /\ Starting /\ Owned /\ Preparing /\ Unpacked
    /\ Removed /\ Saver /\ Saved
-----------------------------------------------------------------------------
(* The parts are all of TypeOK.                                            *)
LEMMA Types ==
  TypeOK <=> MemT /\ ProcsT /\ StarterT /\ RootfsT /\ LoopT /\ SavingT /\ ListsT /\ RestT
BY DEF TypeOK, MemT, ProcsT, StarterT, RootfsT, LoopT, SavingT, ListsT, RestT

(* What is saved of a container can be saved, and what is loaded of it     *)
(* neither runs nor starts nor has its rootfs prepared.                    *)
LEMMA RecordTypes ==
  /\ \A r \in Record : ToState(r) \in SavedRecord
  /\ \A d \in SavedRecord :
       /\ FromState(d) \in Record
       /\ FromState(d).state # "running" /\ FromState(d).start # "starting"
       /\ FromState(d).rootfs = d.rootfs /\ FromState(d).rootfs # "preparing"
       /\ FromState(d).proc = 0
  /\ \A r \in Record : ToState(r).rootfs = "ready" <=> r.rootfs = "ready"
BY DEF ToState, FromState, Record, SavedRecord

(* What the loop may be doing, and for whom.                               *)
LEMMA LoopTypes ==
  ASSUME LoopT
  PROVE  /\ loop.op \in {"idle", "save", "insert", "release", "createSave",
                      "start", "stop", "remove", "rmtree"}
         /\ loop.op \in {"insert", "release"} => loop.pod \in Sandboxes
         /\ loop.op \in {"createSave", "start", "stop", "remove", "rmtree"} => loop.cid \in Containers
         /\ loop.op \in {"stop", "remove", "rmtree"} => loop.proc \in {0} \cup Starts
BY DEF LoopT, LoopState

(* The values the handlers give to loop.                                   *)
LEMMA LoopValues ==
  /\ Idle \in LoopState /\ [op |-> "save"] \in LoopState
  /\ \A s \in Sandboxes : /\ [op |-> "insert", pod |-> s] \in LoopState
                           /\ [op |-> "release", pod |-> s] \in LoopState
  /\ \A c \in Containers : /\ [op |-> "createSave", cid |-> c] \in LoopState
                            /\ [op |-> "start", cid |-> c] \in LoopState
                            /\ \A k \in {0} \cup Starts :
                                 /\ [op |-> "stop", cid |-> c, proc |-> k] \in LoopState
                                 /\ [op |-> "remove", cid |-> c, proc |-> k] \in LoopState
                                 /\ [op |-> "rmtree", cid |-> c, proc |-> k] \in LoopState
BY DEF LoopState, Idle

(* A removal goes on to delete the bundle of its container.                *)
LEMMA RemoveDeleteDoes ==
  ASSUME LoopT, RemoveDelete
  PROVE  /\ loop.op = "remove" /\ loop.cid \in Containers /\ loop' \in LoopState
         /\ loop'.op = "rmtree" /\ loop'.cid = loop.cid /\ loop'.proc = loop.proc
<1>1. loop \in [op : {"stop", "remove", "rmtree"}, cid : Containers, proc : {0} \cup Starts]
  BY DEF LoopT, LoopState, RemoveDelete
<1>2. loop' = [loop EXCEPT !.op = "rmtree"]
  BY DEF RemoveDelete
<1>3. /\ loop' \in [op : {"stop", "remove", "rmtree"}, cid : Containers, proc : {0} \cup Starts]
      /\ loop'.op = "rmtree" /\ loop'.cid = loop.cid /\ loop'.proc = loop.proc
  BY <1>1, <1>2
<1>4. QED
  BY <1>1, <1>3 DEF LoopState, RemoveDelete

(* Who saves: the loop, a rootfs thread or a start thread.                 *)
LEMMA SaverTypes ==
  ASSUME NEW by \in Savers
  PROVE  \/ by = <<"loop">> /\ by[1] = "loop"
         \/ by[1] = "rootfs" /\ by[2] \in Containers /\ by = <<"rootfs", by[2]>>
         \/ /\ by[1] = "start" /\ by[2] \in Containers /\ by[3] \in Starts
            /\ by = <<"start", by[2], by[3]>>
BY DEF Savers

(* A save in progress.                                                     *)
LEMMA SavingTypes ==
  ASSUME SavingT, saving # NoSave
  PROVE  /\ saving \in SaveInProgress /\ saving.by \in Savers
         /\ saving.pods \in [Sandboxes -> {"none", "ready", "notready"}]
         /\ saving.listed \in BOOLEAN
         /\ saving.keys \in Seq(Containers) /\ saving.conts \in Seq(SavedRecord)
         /\ saving.by[1] \in {"loop", "rootfs", "start"}
         /\ saving.by[1] \in {"rootfs", "start"} => saving.by[2] \in Containers
         /\ saving.by[1] = "start" => saving.by[3] \in Starts
<1>1. saving \in SaveInProgress
  BY DEF SavingT
<1>2. /\ saving.by \in Savers
      /\ saving.pods \in [Sandboxes -> {"none", "ready", "notready"}]
      /\ saving.listed \in BOOLEAN
      /\ saving.keys \in Seq(Containers) /\ saving.conts \in Seq(SavedRecord)
  BY <1>1 DEF SaveInProgress
<1>3. QED
  BY <1>1, <1>2, SaverTypes

(* What the handlers and the threads do to a dict leaves a dict.           *)
LEMMA Updates ==
  ASSUME NEW r \in Record
  PROVE  /\ [r EXCEPT !.stop = TRUE] \in Record
         /\ [r EXCEPT !.stop = FALSE, !.start = "starting"] \in Record
         /\ [r EXCEPT !.state = "exited"] \in Record
         /\ \A n \in {0, 1} : [r EXCEPT !.state = "exited", !.code = n] \in Record
         /\ \A a \in {"preparing", "ready", "fallback", "error"} :
              [r EXCEPT !.rootfs = a] \in Record
         /\ \A k \in Starts :
              [r EXCEPT !.proc = k, !.state = "running", !.start = "running"] \in Record
         /\ [r EXCEPT !.state = "exited", !.start = "stopped"] \in Record
         /\ [r EXCEPT !.start = "error", !.state = "exited", !.code = 125] \in Record
<1>1. [r EXCEPT !.stop = TRUE] \in Record
  BY DEF Record
<1>2. [r EXCEPT !.stop = FALSE, !.start = "starting"] \in Record
  BY DEF Record
<1>3. [r EXCEPT !.state = "exited"] \in Record
  BY DEF Record
<1>4. \A n \in {0, 1} : [r EXCEPT !.state = "exited", !.code = n] \in Record
  BY DEF Record
<1>5. \A a \in {"preparing", "ready", "fallback", "error"} :
        [r EXCEPT !.rootfs = a] \in Record
  BY DEF Record
<1>6. \A k \in Starts :
        [r EXCEPT !.proc = k, !.state = "running", !.start = "running"] \in Record
  BY DEF Record
<1>7. [r EXCEPT !.state = "exited", !.start = "stopped"] \in Record
  BY DEF Record
<1>8. [r EXCEPT !.start = "error", !.state = "exited", !.code = 125] \in Record
  BY DEF Record
<1>9. QED
  BY <1>1, <1>2, <1>3, <1>4, <1>5, <1>6, <1>7, <1>8

(* A thread works, and the loop waits, for a container whose dict is there.*)
LEMMA DictsThere ==
  ASSUME MemT, Dicts
  PROVE  /\ \A c \in Containers : Known(c) => mem[c] \in Record
         /\ \A c \in Containers : Listed(c) \/ rootfsThread[c] # "none" => mem[c] \in Record
         /\ \A c \in Containers, k \in Starts :
              starter[c][k] \notin {"none", "done"} => mem[c] \in Record
         /\ loop.op \in {"createSave", "start", "stop", "remove", "rmtree"} /\ LoopT =>
              loop.cid \in Containers /\ mem[loop.cid] \in Record
BY LoopTypes DEF MemT, Dicts, Known

(* A sequence without its i-th element.                                    *)
LEMMA Cut ==
  ASSUME NEW S, NEW s \in Seq(S), NEW i \in DOMAIN s
  PROVE  LET t == SubSeq(s, 1, i - 1) \o SubSeq(s, i + 1, Len(s))
         IN  /\ t \in Seq(S) /\ Len(t) = Len(s) - 1
             /\ \A j \in 1..(Len(s) - 1) : t[j] = IF j < i THEN s[j] ELSE s[j + 1]
<1>1. Len(s) \in Nat /\ i \in 1..Len(s) /\ \A j \in 1..Len(s) : s[j] \in S
  OBVIOUS
<1>2. PICK a, b : a = SubSeq(s, 1, i - 1) /\ b = SubSeq(s, i + 1, Len(s))
  OBVIOUS
<1>3. a \in Seq(S) /\ Len(a) = i - 1 /\ \A j \in 1..(i - 1) : a[j] = s[j]
  BY <1>1, <1>2, SubSeqProperties
<1>4. b \in Seq(S) /\ Len(b) = Len(s) - i /\ \A j \in 1..(Len(s) - i) : b[j] = s[i + j]
  <2>1. \A j \in (i + 1)..Len(s) : s[j] \in S
    BY <1>1
  <2>2. /\ b \in Seq(S) /\ Len(b) = IF i + 1 <= Len(s) THEN Len(s) - (i + 1) + 1 ELSE 0
        /\ \A j \in 1..(Len(s) - (i + 1) + 1) : b[j] = s[i + 1 + j - 1]
    BY <1>1, <1>2, <2>1, SubSeqProperties
  <2>3. ASSUME NEW j \in 1..(Len(s) - i) PROVE b[j] = s[i + j]
    <3>1. i + 1 + j - 1 = i + j /\ j \in 1..(Len(s) - (i + 1) + 1)
      BY <1>1
    <3>2. QED
      BY <2>2, <3>1
  <2>4. QED
    BY <1>1, <2>2, <2>3
<1>5. a \in Seq(S) /\ b \in Seq(S)
  BY <1>3, <1>4
<1>6. /\ a \o b \in Seq(S) /\ Len(a \o b) = Len(a) + Len(b)
      /\ \A j \in 1..(Len(a) + Len(b)) : (a \o b)[j] = IF j <= Len(a) THEN a[j] ELSE b[j - Len(a)]
  BY <1>5, ConcatProperties
<1>7. Len(a) + Len(b) = Len(s) - 1
  BY <1>1, <1>3, <1>4
<1>8. ASSUME NEW j \in 1..(Len(s) - 1) PROVE (a \o b)[j] = IF j < i THEN s[j] ELSE s[j + 1]
  <2>1. CASE j < i
    BY <2>1, <1>1, <1>3, <1>6, <1>7
  <2>2. CASE ~(j < i)
    <3>1. j - Len(a) \in 1..(Len(s) - i) /\ i + (j - Len(a)) = j + 1
      BY <2>2, <1>1, <1>3
    <3>2. (a \o b)[j] = b[j - Len(a)]
      BY <2>2, <1>1, <1>3, <1>6, <1>7
    <3>3. QED
      BY <2>2, <3>1, <3>2, <1>4
  <2>3. QED
    BY <2>1, <2>2
<1>9. QED
  BY <1>2, <1>6, <1>7, <1>8

(* What a step does to a process: it is born, or grows older, or it stays. *)
Older(p, q) ==
  /\ q \in Process /\ q.born = p.born /\ q.host = p.host
  /\ q.at = "none" <=> p.at = "none"
  /\ q.at \in {"forked", "live"} => p.at \in {"forked", "live"}
  /\ Ended(p) => q = p

(* A step starts no process, and ends none twice.                          *)
Age == ProcsT' /\ \A c \in Containers, k \in Starts : Older(procs[c][k], procs'[c][k])

(* SIGTERM to several processes lets them grow older,                      *)
LEMMA TerminatedAge ==
  ASSUME ProcsT, NEW P, Terminated(P)
  PROVE  Age
<1>1. PICK deaf : procs' = [c \in Containers |-> [k \in Starts |->
              IF <<c, k>> \in P \ deaf /\ procs[c][k].at = "live"
              THEN [procs[c][k] EXCEPT !.at = "dying"] ELSE procs[c][k]]]
  BY DEF Terminated
<1>2. ASSUME NEW c \in Containers, NEW k \in Starts
      PROVE  Older(procs[c][k], procs'[c][k])
  <2>1. procs[c][k] \in Process
    BY DEF ProcsT
  <2>2. \/ procs'[c][k] = procs[c][k]
        \/ procs[c][k].at = "live" /\ procs'[c][k] = [procs[c][k] EXCEPT !.at = "dying"]
    BY <1>1
  <2>3. QED
    BY <2>1, <2>2 DEF Older, Process, Ended
<1>3. procs' \in [Containers -> [Starts -> Process]]
  BY <1>1, <1>2 DEF Older
<1>4. QED
  BY <1>2, <1>3 DEF Age, ProcsT

(* and so do the end of one and its setsid,                                *)
LEMMA BecomesAge ==
  ASSUME ProcsT, NEW c \in Containers, NEW k \in Starts,
         NEW at \in {"live", "dying", "done", "failed"}, Becomes(c, k, at),
         procs[c][k].at \in {"forked", "live", "dying"},
         at = "live" => procs[c][k].at = "forked"
  PROVE  Age
<1>1. ASSUME NEW d \in Containers, NEW j \in Starts
      PROVE  Older(procs[d][j], procs'[d][j])
  BY DEF Becomes, ProcsT, Older, Process, Ended
<1>2. procs' \in [Containers -> [Starts -> Process]]
  BY <1>1 DEF Becomes, ProcsT, Older
<1>3. QED
  BY <1>1, <1>2 DEF Age, ProcsT

(* a step that leaves the processes alone,                                 *)
LEMMA SameAge ==
  ASSUME ProcsT, UNCHANGED procs
  PROVE  Age
BY DEF ProcsT, Age, Older, Process

(* and SIGKILL.                                                            *)
LEMMA KilledAge ==
  ASSUME ProcsT, NEW c \in Containers, NEW k \in Starts, Killed(c, k)
  PROVE  Age
BY BecomesAge, SameAge DEF Killed

(* Every step but the start of a process lets processes grow older.        *)
LEMMA ProcessSteps ==
  ASSUME ProcsT, MemT, LoopT, Dicts
  PROVE  /\ \A s \in Sandboxes : StopPodSandbox(s) => Age
         /\ \A c \in Containers : StopContainer(c) \/ RemoveContainer(c) => Age
         /\ StopKill => Age
         /\ \A c \in Containers, k \in Starts :
              StartCheck(c, k) \/ StartKill(c, k) \/ SetSid(c, k) \/ Exit(c, k) => Age
<1>1. ASSUME NEW s \in Sandboxes, StopPodSandbox(s) PROVE Age
  BY <1>1, TerminatedAge DEF StopPodSandbox
<1>2. ASSUME NEW c \in Containers, StopContainer(c) PROVE Age
  BY <1>2, TerminatedAge, SameAge DEF StopContainer
<1>3. ASSUME NEW c \in Containers, RemoveContainer(c) PROVE Age
  <2>1. mem[c] \in Record /\ mem[c].proc \in {0} \cup Starts
    BY <1>3, DictsThere DEF RemoveContainer, Record
  <2>2. mem[c].proc = 0 => Ended(ProcessOf(c))
    BY DEF Ended, ProcessOf, ProcessAt
  <2>3. QED
    BY <1>3, <2>1, <2>2, KilledAge, SameAge DEF RemoveContainer
<1>4. CASE StopKill
  <2>1. loop.cid \in Containers /\ loop.proc \in Starts
    BY <1>4, LoopTypes DEF StopKill, ProcessAt
  <2>2. QED
    BY <1>4, <2>1, KilledAge DEF StopKill
<1>5. ASSUME NEW c \in Containers, NEW k \in Starts, StartCheck(c, k) PROVE Age
  BY <1>5, TerminatedAge, SameAge DEF StartCheck
<1>6. ASSUME NEW c \in Containers, NEW k \in Starts, StartKill(c, k) PROVE Age
  BY <1>6, KilledAge DEF StartKill
<1>7. ASSUME NEW c \in Containers, NEW k \in Starts, SetSid(c, k) PROVE Age
  BY <1>7, BecomesAge DEF SetSid
<1>8. ASSUME NEW c \in Containers, NEW k \in Starts, Exit(c, k) PROVE Age
  BY <1>8, BecomesAge DEF Exit
<1>9. QED
  BY <1>1, <1>2, <1>3, <1>4, <1>5, <1>6, <1>7, <1>8

(* Every step keeps the type of the dicts: a handler or a thread changes   *)
(* the dict of a container that has one, a restart loads what a save       *)
(* wrote.                                                                  *)
LEMMA MemStep ==
  ASSUME MemT, Dicts, LoopT, ListsT, Lists, [Next]_vars
  PROVE  MemT'
<1> USE DEF MemT, memVars, threadVars, worldVars
<1>1. ASSUME NEW s \in Sandboxes, StopPodSandbox(s) PROVE MemT'
  <2>1. \A c \in Containers : Listed(c) => [mem[c] EXCEPT !.state = "exited"] \in Record
    BY DictsThere, Updates
  <2>2. QED
    BY <1>1, <2>1 DEF StopPodSandbox
<1>2. ASSUME NEW s \in Sandboxes, RunPodSandbox(s) \/ RemovePodSandbox(s) PROVE MemT'
  BY <1>2 DEF RunPodSandbox, RemovePodSandbox
<1>3. CASE InsertPod \/ ReleasePodNetwork
  BY <1>3 DEF InsertPod, Then, ReleasePodNetwork
<1>4. ASSUME NEW c \in Containers, NEW s \in Sandboxes, CreateContainer(c, s) PROVE MemT'
  <2>1. NewContainer(s) \in Record
    BY DEF NewContainer, Record
  <2>2. QED
    BY <1>4, <2>1 DEF CreateContainer, Set
<1>5. ASSUME NEW c \in Containers, StartContainer(c) PROVE MemT'
  <2>1. mem[c] \in Record
    BY <1>5, DictsThere DEF StartContainer
  <2>2. QED
    BY <1>5, <2>1, Updates DEF StartContainer, Set
<1>6. ASSUME NEW c \in Containers, StopContainer(c) PROVE MemT'
  <2>1. mem[c] \in Record
    BY <1>6, DictsThere DEF StopContainer
  <2>2. QED
    BY <1>6, <2>1, Updates DEF StopContainer, Set
<1>7. ASSUME NEW c \in Containers, RemoveContainer(c) PROVE MemT'
  <2>1. mem[c] \in Record
    BY <1>7, DictsThere DEF RemoveContainer
  <2>2. QED
    BY <1>7, <2>1, Updates DEF RemoveContainer, Set
<1>8. ASSUME NEW c \in Containers, RefreshContainerState(c) PROVE MemT'
  <2>1. mem[c] \in Record
    BY <1>8, DictsThere DEF RefreshContainerState
  <2>2. QED
    BY <1>8, <2>1, Updates DEF RefreshContainerState, Set
<1>9. CASE StopAnswer
  <2>1. mem[loop.cid] \in Record
    BY <1>9, DictsThere DEF StopAnswer
  <2>2. QED
    BY <1>9, <2>1, Updates, LoopTypes DEF StopAnswer, Set
<1>10. CASE StartAnswer \/ StopKill \/ RemoveDelete \/ RemoveFinish
  BY <1>10 DEF StartAnswer, StopKill, RemoveDelete, RemoveFinish, Then
<1>11. ASSUME NEW c \in Containers, RootfsPull(c) PROVE MemT'
  <2>1. mem[c] \in Record
    BY <1>11, DictsThere DEF RootfsPull
  <2>2. QED
    BY <1>11, <2>1, Updates DEF RootfsPull, RootfsDone, RootfsError, Set
<1>12. ASSUME NEW c \in Containers, RootfsUnpack(c) PROVE MemT'
  <2>1. mem[c] \in Record
    BY <1>12, DictsThere DEF RootfsUnpack
  <2>2. QED
    BY <1>12, <2>1, Updates DEF RootfsUnpack, RootfsError, Set
<1>13. ASSUME NEW c \in Containers, RootfsMetadata(c) PROVE MemT'
  <2>1. mem[c] \in Record
    BY <1>13, DictsThere DEF RootfsMetadata
  <2>2. QED
    BY <1>13, <2>1, Updates DEF RootfsMetadata, RootfsDone, RootfsError, Set
<1>14. ASSUME NEW c \in Containers, RootfsRaised(c) PROVE MemT'
  <2>1. mem[c] \in Record
    BY <1>14, DictsThere DEF RootfsRaised
  <2>2. QED
    BY <1>14, <2>1, Updates DEF RootfsRaised, RootfsError, Set
<1>15. ASSUME NEW c \in Containers, NEW k \in Starts, StartRootfs(c, k) PROVE MemT'
  <2>1. mem[c] \in Record
    BY <1>15, DictsThere DEF StartRootfs
  <2>2. QED
    BY <1>15, <2>1, Updates DEF StartRootfs, PrepareRootfs, StartError, Set
<1>16. ASSUME NEW c \in Containers, NEW k \in Starts, StartEnsure(c, k) \/ StartUnpack(c, k) PROVE MemT'
  <2>1. mem[c] \in Record
    BY <1>16, DictsThere DEF StartEnsure, StartUnpack
  <2>2. QED
    BY <1>16, <2>1, Updates DEF StartEnsure, StartUnpack, StartError, Set
<1>17. ASSUME NEW c \in Containers, NEW k \in Starts, StartSpawn(c, k) PROVE MemT'
  <2>1. mem[c] \in Record
    BY <1>17, DictsThere DEF StartSpawn
  <2>2. QED
    BY <1>17, <2>1, Updates DEF StartSpawn, StartError, Set
<1>18. ASSUME NEW c \in Containers, NEW k \in Starts, StartRunning(c, k) PROVE MemT'
  <2>1. mem[c] \in Record
    BY <1>18, DictsThere DEF StartRunning
  <2>2. QED
    BY <1>18, <2>1, Updates DEF StartRunning, Set
<1>19. ASSUME NEW c \in Containers, NEW k \in Starts, StartStopped(c, k) PROVE MemT'
  <2>1. mem[c] \in Record
    BY <1>19, DictsThere DEF StartStopped
  <2>2. QED
    BY <1>19, <2>1, Updates DEF StartStopped, Set
<1>20. ASSUME NEW c \in Containers, NEW k \in Starts, StartRaised(c, k) PROVE MemT'
  <2>1. mem[c] \in Record
    BY <1>20, DictsThere DEF StartRaised
  <2>2. QED
    BY <1>20, <2>1, Updates DEF StartRaised, StartError, Set
<1>21. ASSUME NEW c \in Containers, NEW k \in Starts,
              StartCheck(c, k) \/ StartKill(c, k) \/ SetSid(c, k) \/ Exit(c, k)
       PROVE  MemT'
  BY <1>21 DEF StartCheck, Starter, StartKill, SetSid, Exit
<1>22. ASSUME NEW by \in Savers, SaveBegin(by) PROVE MemT'
  BY <1>22 DEF SaveBegin
<1>23. CASE SaveCommit
  <2>1. CASE loop.op = "createSave" /\ PrepareRootfs(loop.cid)
    BY <1>23, <2>1, DictsThere, Updates DEF PrepareRootfs, Set
  <2>2. QED
    BY <1>23, <2>1 DEF SaveCommit, LoopSaved
<1>24. CASE SavePods \/ SaveNext \/ SaveRaise
  BY <1>24 DEF SavePods, SaveNext, SaveRaise, Rootfs, Starter
<1>25. CASE Restart
  <2>1. ASSUME NEW k \in DOMAIN disk.keys PROVE FromState(disk.conts[k]) \in Record
    BY RecordTypes DEF ListsT, Snapshot, Lists
  <2>2. QED
    BY <1>25, <2>1 DEF Restart, ListsT, Snapshot, Lists
<1>26. CASE Crash
  BY <1>26 DEF Crash
<1>27. CASE UNCHANGED vars
  BY <1>27 DEF vars
<1>28. QED
  BY <1>1, <1>2, <1>3, <1>4, <1>5, <1>6, <1>7, <1>8, <1>9, <1>10, <1>11, <1>12, <1>13,
     <1>14, <1>15, <1>16, <1>17, <1>18, <1>19, <1>20, <1>21, <1>22, <1>23, <1>24, <1>25,
     <1>26, <1>27
   DEF Next, PodStep, LoopStep, SaveStep, ContainerStep, RootfsStep, StarterStep

(* Every step keeps the type of the start threads.                         *)
LEMMA StartersStep ==
  ASSUME StarterT, SavingT, [Next]_vars
  PROVE  StarterT'
<1> USE DEF StarterT, StarterAt, memVars, threadVars, worldVars
<1>1. ASSUME NEW s \in Sandboxes,
             RunPodSandbox(s) \/ StopPodSandbox(s) \/ RemovePodSandbox(s)
      PROVE  StarterT'
  BY <1>1 DEF RunPodSandbox, StopPodSandbox, Then, RemovePodSandbox
<1>2. CASE InsertPod \/ ReleasePodNetwork
  BY <1>2 DEF InsertPod, Then, ReleasePodNetwork
<1>3. ASSUME NEW c \in Containers, NEW s \in Sandboxes,
             CreateContainer(c, s)
      PROVE  StarterT'
  BY <1>3 DEF CreateContainer, NewContainer, Set, ThenFor
<1>4. ASSUME NEW c \in Containers, StartContainer(c) PROVE StarterT'
  BY <1>4 DEF StartContainer, Set, Starter, ThenFor, NextStart
<1>5. ASSUME NEW c \in Containers,
             StopContainer(c) \/ RemoveContainer(c) \/ RefreshContainerState(c)
      PROVE  StarterT'
  BY <1>5 DEF StopContainer, Set, ThenWait, RemoveContainer, RefreshContainerState, Then
<1>6. CASE StartAnswer \/ StopKill \/ StopAnswer \/ RemoveDelete \/ RemoveFinish
  BY <1>6 DEF StartAnswer, StopKill, StopAnswer, Set, Then, RemoveDelete, RemoveFinish
<1>7. ASSUME NEW c \in Containers,
             RootfsPull(c) \/ RootfsUnpack(c) \/ RootfsMetadata(c) \/ RootfsRaised(c)
      PROVE  StarterT'
  BY <1>7 DEF RootfsPull, RootfsDone, RootfsError, Rootfs, Set, RootfsUnpack,
              RootfsMetadata, RootfsRaised
<1>8. ASSUME NEW c \in Containers, NEW k \in Starts, StartRootfs(c, k) PROVE StarterT'
  BY <1>8 DEF StartRootfs, PrepareRootfs, StartError, Rootfs, Starter, Set
<1>9. ASSUME NEW c \in Containers, NEW k \in Starts, StartEnsure(c, k) \/ StartUnpack(c, k) PROVE StarterT'
  BY <1>9 DEF StartEnsure, StartUnpack, StartError, Starter, Set
<1>10. ASSUME NEW c \in Containers, NEW k \in Starts, StartSpawn(c, k) PROVE StarterT'
  BY <1>10 DEF StartSpawn, StartError, Starter, Set
<1>11. ASSUME NEW c \in Containers, NEW k \in Starts, StartCheck(c, k) PROVE StarterT'
  BY <1>11 DEF StartCheck, Starter
<1>12. ASSUME NEW c \in Containers, NEW k \in Starts, StartRunning(c, k) PROVE StarterT'
  BY <1>12 DEF StartRunning, Starter, Set
<1>13. ASSUME NEW c \in Containers, NEW k \in Starts, StartStopped(c, k) PROVE StarterT'
  BY <1>13 DEF StartStopped, Starter, Set
<1>14. ASSUME NEW c \in Containers, NEW k \in Starts, StartRaised(c, k) PROVE StarterT'
  BY <1>14 DEF StartRaised, StartError, Starter, Set
<1>15. ASSUME NEW c \in Containers, NEW k \in Starts,
              StartKill(c, k) \/ SetSid(c, k) \/ Exit(c, k)
       PROVE  StarterT'
  BY <1>15 DEF StartKill, SetSid, Exit
<1>16. ASSUME NEW by \in Savers, SaveBegin(by) PROVE StarterT'
  BY <1>16 DEF SaveBegin
<1>17. CASE SaveCommit
  <2>1. CASE saving.by[1] = "start"
    <3>1. saving.by[2] \in Containers /\ saving.by[3] \in Starts
      BY <1>17, <2>1, SavingTypes DEF SaveCommit
    <3>2. \E at \in StarterAt : Starter(saving.by[2], saving.by[3], at)
      BY <1>17, <2>1 DEF SaveCommit
    <3>3. QED
      BY <3>1, <3>2 DEF Starter
  <2>2. CASE saving.by[1] # "start"
    BY <1>17, <2>2 DEF SaveCommit, LoopSaved
  <2>3. QED
    BY <2>1, <2>2
<1>18. CASE SaveRaise
  <2>1. CASE saving.by[1] = "start"
    <3>1. saving.by[2] \in Containers /\ saving.by[3] \in Starts
      BY <1>18, <2>1, SavingTypes DEF SaveRaise
    <3>2. \E at \in StarterAt : Starter(saving.by[2], saving.by[3], at)
      BY <1>18, <2>1 DEF SaveRaise
    <3>3. QED
      BY <3>1, <3>2 DEF Starter
  <2>2. CASE saving.by[1] # "start"
    BY <1>18, <2>2 DEF SaveRaise
  <2>3. QED
    BY <2>1, <2>2
<1>19. CASE SavePods \/ SaveNext
  BY <1>19 DEF SavePods, SaveNext
<1>20. CASE Crash
  BY <1>20 DEF Crash
<1>21. CASE Restart
  BY <1>21 DEF Restart
<1>22. CASE UNCHANGED vars
  BY <1>22 DEF vars
<1>23. QED
  BY <1>1, <1>2, <1>3, <1>4, <1>5, <1>6, <1>7, <1>8, <1>9, <1>10, <1>11, <1>12, <1>13,
     <1>14, <1>15, <1>16, <1>17, <1>18, <1>19, <1>20, <1>21, <1>22
   DEF Next, PodStep, LoopStep, SaveStep, ContainerStep, RootfsStep, StarterStep

(* Every step keeps the type of the rootfs threads.                        *)
LEMMA RootfsThreadStep ==
  ASSUME RootfsT, SavingT, LoopT, [Next]_vars
  PROVE  RootfsT'
<1> USE DEF RootfsT, RootfsAt, memVars, threadVars, worldVars
<1>1. ASSUME NEW s \in Sandboxes,
             RunPodSandbox(s) \/ StopPodSandbox(s) \/ RemovePodSandbox(s)
      PROVE  RootfsT'
  BY <1>1 DEF RunPodSandbox, StopPodSandbox, Then, RemovePodSandbox
<1>2. CASE InsertPod \/ ReleasePodNetwork
  BY <1>2 DEF InsertPod, Then, ReleasePodNetwork
<1>3. ASSUME NEW c \in Containers, NEW s \in Sandboxes,
             CreateContainer(c, s)
      PROVE  RootfsT'
  BY <1>3 DEF CreateContainer, NewContainer, Set, ThenFor
<1>4. ASSUME NEW c \in Containers,
             StartContainer(c) \/ StopContainer(c) \/ RemoveContainer(c)
             \/ RefreshContainerState(c)
      PROVE  RootfsT'
  BY <1>4 DEF StartContainer, Set, Starter, ThenFor, NextStart, StopContainer, ThenWait,
              RemoveContainer, RefreshContainerState, Then
<1>5. CASE StartAnswer \/ StopKill \/ StopAnswer \/ RemoveDelete \/ RemoveFinish
  BY <1>5 DEF StartAnswer, StopKill, StopAnswer, Set, Then, RemoveDelete, RemoveFinish
<1>6. ASSUME NEW c \in Containers, RootfsPull(c) PROVE RootfsT'
  BY <1>6 DEF RootfsPull, RootfsDone, RootfsError, Rootfs, Set
<1>7. ASSUME NEW c \in Containers, RootfsUnpack(c) PROVE RootfsT'
  BY <1>7 DEF RootfsUnpack, RootfsError, Rootfs, Set
<1>8. ASSUME NEW c \in Containers, RootfsMetadata(c) PROVE RootfsT'
  BY <1>8 DEF RootfsMetadata, RootfsDone, RootfsError, Rootfs, Set
<1>9. ASSUME NEW c \in Containers, RootfsRaised(c) PROVE RootfsT'
  BY <1>9 DEF RootfsRaised, RootfsError, Rootfs, Set
<1>10. ASSUME NEW c \in Containers, NEW k \in Starts, StartRootfs(c, k) PROVE RootfsT'
  BY <1>10 DEF StartRootfs, PrepareRootfs, StartError, Rootfs, Starter, Set
<1>11. ASSUME NEW c \in Containers, NEW k \in Starts,
              StartEnsure(c, k) \/ StartUnpack(c, k) \/ StartSpawn(c, k) \/ StartCheck(c, k)
              \/ StartRunning(c, k) \/ StartKill(c, k) \/ StartStopped(c, k)
              \/ StartRaised(c, k) \/ SetSid(c, k) \/ Exit(c, k)
       PROVE  RootfsT'
  BY <1>11 DEF StartEnsure, StartUnpack, StartError, Starter, Set, StartSpawn, StartCheck,
               StartRunning, StartKill, StartStopped, StartRaised, SetSid, Exit
<1>12. ASSUME NEW by \in Savers, SaveBegin(by) PROVE RootfsT'
  BY <1>12 DEF SaveBegin
<1>13. CASE SaveCommit
  BY <1>13, SavingTypes, LoopTypes
     DEF SaveCommit, LoopSaved, PrepareRootfs, Rootfs, Starter, Set
<1>14. CASE SaveRaise
  BY <1>14, SavingTypes, LoopTypes DEF SaveRaise, Rootfs, Starter
<1>15. CASE SavePods \/ SaveNext
  BY <1>15 DEF SavePods, SaveNext
<1>16. CASE Crash
  BY <1>16 DEF Crash
<1>17. CASE Restart
  BY <1>17 DEF Restart
<1>18. CASE UNCHANGED vars
  BY <1>18 DEF vars
<1>19. QED
  BY <1>1, <1>2, <1>3, <1>4, <1>5, <1>6, <1>7, <1>8, <1>9, <1>10, <1>11, <1>12, <1>13,
     <1>14, <1>15, <1>16, <1>17, <1>18
   DEF Next, PodStep, LoopStep, SaveStep, ContainerStep, RootfsStep, StarterStep

(* Every step keeps the type of what the loop does.                        *)
LEMMA LoopStateStep ==
  ASSUME LoopT, MemT, Dicts, [Next]_vars
  PROVE  LoopT'
<1> USE DEF LoopT, memVars, threadVars, worldVars
<1>1. ASSUME NEW s \in Sandboxes, RunPodSandbox(s) PROVE LoopT'
  BY <1>1, LoopValues DEF RunPodSandbox
<1>2. ASSUME NEW s \in Sandboxes, RemovePodSandbox(s) PROVE LoopT'
  BY <1>2, LoopValues DEF RemovePodSandbox
<1>3. ASSUME NEW s \in Sandboxes, StopPodSandbox(s) PROVE LoopT'
  BY <1>3, LoopValues DEF StopPodSandbox, Then
<1>4. CASE InsertPod \/ ReleasePodNetwork
  BY <1>4, LoopValues DEF InsertPod, Then, ReleasePodNetwork
<1>5. ASSUME NEW c \in Containers, NEW s \in Sandboxes, CreateContainer(c, s) PROVE LoopT'
  BY <1>5, LoopValues DEF CreateContainer, NewContainer, Set, ThenFor
<1>6. ASSUME NEW c \in Containers, StartContainer(c) PROVE LoopT'
  BY <1>6, LoopValues DEF StartContainer, Set, Starter, ThenFor, NextStart
<1>7. ASSUME NEW c \in Containers, StopContainer(c) PROVE LoopT'
  <2>1. mem[c] \in Record /\ mem[c].proc \in {0} \cup Starts
    BY <1>7, LoopValues, DictsThere DEF StopContainer, Record
  <2>2. QED
    BY <1>7, LoopValues, <2>1, LoopValues DEF StopContainer, ThenWait
<1>8. ASSUME NEW c \in Containers, RemoveContainer(c) PROVE LoopT'
  <2>1. mem[c] \in Record /\ mem[c].proc \in {0} \cup Starts
    BY <1>8, LoopValues, DictsThere DEF RemoveContainer, Record
  <2>2. QED
    BY <1>8, LoopValues, <2>1, LoopValues DEF RemoveContainer, ThenWait
<1>9. ASSUME NEW c \in Containers, RefreshContainerState(c) PROVE LoopT'
  BY <1>9, LoopValues DEF RefreshContainerState, Set, Then
<1>10. CASE StartAnswer \/ StopKill \/ StopAnswer \/ RemoveDelete \/ RemoveFinish
  BY <1>10, LoopValues, RemoveDeleteDoes
     DEF StartAnswer, StopKill, StopAnswer, Set, Then, RemoveFinish
<1>11. ASSUME NEW c \in Containers,
              RootfsPull(c) \/ RootfsUnpack(c) \/ RootfsMetadata(c) \/ RootfsRaised(c)
       PROVE  LoopT'
  BY <1>11, LoopValues DEF RootfsPull, RootfsDone, RootfsError, Rootfs, Set, RootfsUnpack,
                           RootfsMetadata, RootfsRaised
<1>12. ASSUME NEW c \in Containers, NEW k \in Starts,
              StartRootfs(c, k) \/ StartEnsure(c, k) \/ StartUnpack(c, k) \/ StartSpawn(c, k)
              \/ StartCheck(c, k) \/ StartRunning(c, k) \/ StartKill(c, k)
              \/ StartStopped(c, k) \/ StartRaised(c, k) \/ SetSid(c, k) \/ Exit(c, k)
       PROVE  LoopT'
  BY <1>12, LoopValues DEF StartRootfs, PrepareRootfs, StartError, Rootfs, Starter, Set,
                           StartEnsure, StartUnpack, StartSpawn, StartCheck, StartRunning, StartKill,
                           StartStopped, StartRaised, SetSid, Exit
<1>13. ASSUME NEW by \in Savers, SaveBegin(by) PROVE LoopT'
  BY <1>13, LoopValues DEF SaveBegin
<1>14. CASE SavePods \/ SaveNext \/ SaveCommit \/ SaveRaise
  BY <1>14, LoopValues DEF SavePods, SaveNext, SaveCommit, LoopSaved, PrepareRootfs,
                           Rootfs, Starter, Set, SaveRaise
<1>15. CASE Crash \/ Restart
  BY <1>15, LoopValues DEF Crash, Restart
<1>16. CASE UNCHANGED vars
  BY <1>16, LoopValues DEF vars
<1>17. QED
  BY <1>1, <1>2, <1>3, <1>4, <1>5, <1>6, <1>7, <1>8, <1>9, <1>10, <1>11, <1>12, <1>13,
     <1>14, <1>15, <1>16
   DEF Next, PodStep, LoopStep, SaveStep, ContainerStep, RootfsStep, StarterStep

(* Every step keeps the type of the processes.                             *)
LEMMA ProcsStep ==
  ASSUME ProcsT, MemT, LoopT, Dicts, RestT, [Next]_vars
  PROVE  ProcsT'
<1> USE DEF ProcsT, memVars, threadVars, worldVars
<1>1. ASSUME NEW s \in Sandboxes, StopPodSandbox(s) PROVE ProcsT'
  BY <1>1, ProcessSteps DEF Age
<1>2. ASSUME NEW s \in Sandboxes, RunPodSandbox(s) \/ RemovePodSandbox(s) PROVE ProcsT'
  BY <1>2 DEF RunPodSandbox, RemovePodSandbox
<1>3. CASE InsertPod \/ ReleasePodNetwork
  BY <1>3 DEF InsertPod, Then, ReleasePodNetwork
<1>4. ASSUME NEW c \in Containers, NEW s \in Sandboxes,
             CreateContainer(c, s)
      PROVE  ProcsT'
  BY <1>4 DEF CreateContainer, NewContainer, Set, ThenFor
<1>5. ASSUME NEW c \in Containers, StopContainer(c) PROVE ProcsT'
  BY <1>5, ProcessSteps DEF Age
<1>6. ASSUME NEW c \in Containers, RemoveContainer(c) PROVE ProcsT'
  BY <1>6, ProcessSteps DEF Age
<1>7. ASSUME NEW c \in Containers,
             StartContainer(c) \/ RefreshContainerState(c)
      PROVE  ProcsT'
  BY <1>7 DEF StartContainer, Set, Starter, ThenFor, NextStart, RefreshContainerState,
              Then
<1>8. CASE StopKill
  BY <1>8, ProcessSteps DEF Age
<1>9. CASE StartAnswer \/ StopAnswer \/ RemoveDelete \/ RemoveFinish
  BY <1>9 DEF StartAnswer, StopAnswer, Set, Then, RemoveDelete, RemoveFinish
<1>10. ASSUME NEW c \in Containers,
              RootfsPull(c) \/ RootfsUnpack(c) \/ RootfsMetadata(c) \/ RootfsRaised(c)
       PROVE  ProcsT'
  BY <1>10 DEF RootfsPull, RootfsDone, RootfsError, Rootfs, Set, RootfsUnpack,
               RootfsMetadata, RootfsRaised
<1>11. ASSUME NEW c \in Containers, NEW k \in Starts, StartSpawn(c, k) PROVE ProcsT'
  <2>1. [at |-> IF OnHost(c, k) THEN "live" ELSE "forked", host |-> OnHost(c, k), born |-> crashes]
          \in Process
    BY DEF OnHost, Process, RestT
  <2>2. QED
    BY <1>11, <2>1 DEF StartSpawn
<1>12. ASSUME NEW c \in Containers, NEW k \in Starts, StartCheck(c, k) PROVE ProcsT'
  BY <1>12, ProcessSteps DEF Age
<1>13. ASSUME NEW c \in Containers, NEW k \in Starts, StartKill(c, k) PROVE ProcsT'
  BY <1>13, ProcessSteps DEF Age
<1>14. ASSUME NEW c \in Containers, NEW k \in Starts, SetSid(c, k) PROVE ProcsT'
  BY <1>14, ProcessSteps DEF Age
<1>15. ASSUME NEW c \in Containers, NEW k \in Starts, Exit(c, k) PROVE ProcsT'
  BY <1>15, ProcessSteps DEF Age
<1>16. ASSUME NEW c \in Containers, NEW k \in Starts,
              StartRootfs(c, k) \/ StartEnsure(c, k) \/ StartUnpack(c, k) \/ StartRunning(c, k)
              \/ StartStopped(c, k) \/ StartRaised(c, k)
       PROVE  ProcsT'
  BY <1>16 DEF StartRootfs, PrepareRootfs, StartError, Rootfs, Starter, Set, StartEnsure, StartUnpack,
               StartRunning, StartStopped, StartRaised
<1>17. ASSUME NEW by \in Savers, SaveBegin(by) PROVE ProcsT'
  BY <1>17 DEF SaveBegin
<1>18. CASE SavePods \/ SaveNext \/ SaveCommit \/ SaveRaise
  BY <1>18 DEF SavePods, SaveNext, SaveCommit, LoopSaved, PrepareRootfs, Rootfs, Starter,
               Set, SaveRaise
<1>19. CASE Crash \/ Restart
  BY <1>19 DEF Crash, Restart
<1>20. CASE UNCHANGED vars
  BY <1>20 DEF vars
<1>21. QED
  BY <1>1, <1>2, <1>3, <1>4, <1>5, <1>6, <1>7, <1>8, <1>9, <1>10, <1>11, <1>12, <1>13,
     <1>14, <1>15, <1>16, <1>17, <1>18, <1>19, <1>20
   DEF Next, PodStep, LoopStep, SaveStep, ContainerStep, RootfsStep, StarterStep

(* Every step keeps the type of the save in progress: it reads dicts that  *)
(* are there, entry by entry.                                              *)
LEMMA SavingStep ==
  ASSUME SavingT, ListsT, MemT, Dicts, [Next]_vars
  PROVE  SavingT'
<1> USE DEF SavingT, memVars, threadVars, worldVars
<1>1. ASSUME NEW s \in Sandboxes,
             RunPodSandbox(s) \/ StopPodSandbox(s) \/ RemovePodSandbox(s)
      PROVE  SavingT'
  BY <1>1 DEF RunPodSandbox, StopPodSandbox, Then, RemovePodSandbox
<1>2. CASE InsertPod \/ ReleasePodNetwork
  BY <1>2 DEF InsertPod, Then, ReleasePodNetwork
<1>3. ASSUME NEW c \in Containers, NEW s \in Sandboxes,
             CreateContainer(c, s)
      PROVE  SavingT'
  BY <1>3 DEF CreateContainer, NewContainer, Set, ThenFor
<1>4. ASSUME NEW c \in Containers,
             StartContainer(c) \/ StopContainer(c) \/ RemoveContainer(c)
             \/ RefreshContainerState(c)
      PROVE  SavingT'
  BY <1>4 DEF StartContainer, Set, Starter, ThenFor, NextStart, StopContainer, ThenWait,
              RemoveContainer, RefreshContainerState, Then
<1>5. CASE StartAnswer \/ StopKill \/ StopAnswer \/ RemoveDelete \/ RemoveFinish
  BY <1>5 DEF StartAnswer, StopKill, StopAnswer, Set, Then, RemoveDelete, RemoveFinish
<1>6. ASSUME NEW c \in Containers,
             RootfsPull(c) \/ RootfsUnpack(c) \/ RootfsMetadata(c) \/ RootfsRaised(c)
      PROVE  SavingT'
  BY <1>6 DEF RootfsPull, RootfsDone, RootfsError, Rootfs, Set, RootfsUnpack,
              RootfsMetadata, RootfsRaised
<1>7. ASSUME NEW c \in Containers, NEW k \in Starts,
             StartRootfs(c, k) \/ StartEnsure(c, k) \/ StartUnpack(c, k) \/ StartSpawn(c, k)
             \/ StartCheck(c, k) \/ StartRunning(c, k) \/ StartKill(c, k)
             \/ StartStopped(c, k) \/ StartRaised(c, k) \/ SetSid(c, k) \/ Exit(c, k)
      PROVE  SavingT'
  BY <1>7 DEF StartRootfs, PrepareRootfs, StartError, Rootfs, Starter, Set, StartEnsure, StartUnpack,
              StartSpawn, StartCheck, StartRunning, StartKill, StartStopped, StartRaised,
              SetSid, Exit
<1>8. ASSUME NEW by \in Savers, SaveBegin(by) PROVE SavingT'
  <2>1. <<>> \in Seq(Containers) /\ <<>> \in Seq(SavedRecord)
    OBVIOUS
  <2>2. QED
    BY <1>8, <2>1 DEF SaveBegin, SaveInProgress, ListsT
<1>9. CASE SavePods
  <2>1. saving \in SaveInProgress
    BY <1>9, SavingTypes DEF SavePods
  <2>2. QED
    BY <1>9, <2>1 DEF SavePods, SaveInProgress, ListsT
<1>10. CASE SaveNext
  <2> DEFINE n == Len(saving.conts) + 1
  <2>1. /\ saving \in SaveInProgress /\ saving.conts \in Seq(SavedRecord)
        /\ n \in DOMAIN order /\ saving.keys = order
    BY <1>10, SavingTypes DEF SaveNext, ListsT
  <2>2. mem[order[n]] \in Record
    BY <2>1, DictsThere DEF Listed, ListsT
  <2>3. Append(saving.conts, ToState(mem[order[n]])) \in Seq(SavedRecord)
    BY <2>1, <2>2, RecordTypes, AppendProperties
  <2>4. saving' = [saving EXCEPT !.conts = Append(saving.conts, ToState(mem[order[n]]))]
    BY <1>10, <2>1 DEF SaveNext
  <2> HIDE DEF n
  <2>5. QED
    BY <2>1, <2>3, <2>4 DEF SaveInProgress
<1>11. CASE SaveCommit
  BY <1>11 DEF SaveCommit, LoopSaved, PrepareRootfs, Rootfs, Starter, Set
<1>12. CASE SaveRaise
  BY <1>12 DEF SaveRaise, Rootfs, Starter
<1>13. CASE Crash
  BY <1>13 DEF Crash
<1>14. CASE Restart
  BY <1>14 DEF Restart
<1>15. CASE UNCHANGED vars
  BY <1>15 DEF vars
<1>16. QED
  BY <1>1, <1>2, <1>3, <1>4, <1>5, <1>6, <1>7, <1>8, <1>9, <1>10, <1>11, <1>12, <1>13,
     <1>14, <1>15
   DEF Next, PodStep, LoopStep, SaveStep, ContainerStep, RootfsStep, StarterStep

(* Every step keeps the types of the pods, the list of containers and the  *)
(* state file.                                                             *)
LEMMA ListsTStep ==
  ASSUME ListsT, SavingT, LoopT, [Next]_vars
  PROVE  ListsT'
<1> USE DEF ListsT, memVars, threadVars, worldVars
<1>1. ASSUME NEW s \in Sandboxes, StopPodSandbox(s) PROVE ListsT'
  BY <1>1 DEF StopPodSandbox, Then
<1>2. ASSUME NEW s \in Sandboxes, RemovePodSandbox(s) PROVE ListsT'
  BY <1>2 DEF RemovePodSandbox
<1>3. ASSUME NEW s \in Sandboxes, RunPodSandbox(s) PROVE ListsT'
  BY <1>3 DEF RunPodSandbox
<1>4. CASE InsertPod
  BY <1>4, LoopTypes DEF InsertPod
<1>5. CASE ReleasePodNetwork
  BY <1>5 DEF ReleasePodNetwork, Then
<1>6. ASSUME NEW c \in Containers, NEW s \in Sandboxes, CreateContainer(c, s)
      PROVE  ListsT'
  BY <1>6, AppendProperties DEF CreateContainer
<1>7. ASSUME NEW c \in Containers,
             StartContainer(c) \/ StopContainer(c) \/ RemoveContainer(c)
             \/ RefreshContainerState(c)
      PROVE  ListsT'
  BY <1>7 DEF StartContainer, Set, Starter, ThenFor, NextStart, StopContainer, ThenWait,
              RemoveContainer, RefreshContainerState, Then
<1>8. CASE RemoveFinish
  <2>1. PICK i \in DOMAIN order :
          order' = SubSeq(order, 1, i - 1) \o SubSeq(order, i + 1, Len(order))
    BY <1>8 DEF RemoveFinish
  <2>2. order' \in Seq(Containers)
    BY <2>1, Cut
  <2>3. UNCHANGED <<sandboxes, disk>>
    BY <1>8 DEF RemoveFinish
  <2> QED  BY <2>2, <2>3
<1>9. CASE StartAnswer \/ StopKill \/ StopAnswer \/ RemoveDelete
  BY <1>9 DEF StartAnswer, StopKill, StopAnswer, Set, Then, RemoveDelete
<1>10. ASSUME NEW c \in Containers,
              RootfsPull(c) \/ RootfsUnpack(c) \/ RootfsMetadata(c) \/ RootfsRaised(c)
       PROVE  ListsT'
  BY <1>10 DEF RootfsPull, RootfsDone, RootfsError, Rootfs, Set, RootfsUnpack,
               RootfsMetadata, RootfsRaised
<1>11. ASSUME NEW c \in Containers, NEW k \in Starts,
              StartRootfs(c, k) \/ StartEnsure(c, k) \/ StartUnpack(c, k) \/ StartSpawn(c, k)
              \/ StartCheck(c, k) \/ StartRunning(c, k) \/ StartKill(c, k)
              \/ StartStopped(c, k) \/ StartRaised(c, k) \/ SetSid(c, k) \/ Exit(c, k)
       PROVE  ListsT'
  BY <1>11 DEF StartRootfs, PrepareRootfs, StartError, Rootfs, Starter, Set, StartEnsure, StartUnpack,
               StartSpawn, StartCheck, StartRunning, StartKill, StartStopped, StartRaised,
               SetSid, Exit
<1>12. ASSUME NEW by \in Savers, SaveBegin(by) PROVE ListsT'
  BY <1>12 DEF SaveBegin
<1>13. CASE SaveCommit
  BY <1>13, SavingTypes DEF SaveCommit, Snapshot
<1>14. CASE SavePods \/ SaveNext \/ SaveRaise
  BY <1>14 DEF SavePods, SaveNext, SaveRaise, Rootfs, Starter
<1>15. CASE Restart
  <2>1. ASSUME NEW k \in DOMAIN disk.conts PROVE ToState(FromState(disk.conts[k])) \in SavedRecord
    BY RecordTypes DEF Snapshot
  <2>2. /\ disk.conts \in Seq(SavedRecord) /\ disk.keys \in Seq(Containers)
        /\ disk.pods \in [Sandboxes -> {"none", "ready", "notready"}]
    BY DEF Snapshot
  <2>3. [k \in DOMAIN disk.conts |-> ToState(FromState(disk.conts[k]))] \in Seq(SavedRecord)
    BY <2>1, <2>2
  <2>4. disk' = [disk EXCEPT !.conts =
                    [k \in DOMAIN disk.conts |-> ToState(FromState(disk.conts[k]))]]
    BY <1>15 DEF Restart
  <2>5. disk' \in Snapshot
    BY <2>3, <2>4 DEF Snapshot
  <2>6. QED
    BY <1>15, <2>2, <2>5 DEF Restart
<1>16. CASE Crash
  BY <1>16 DEF Crash
<1>17. CASE UNCHANGED vars
  BY <1>17 DEF vars
<1>18. QED
  BY <1>1, <1>2, <1>3, <1>4, <1>5, <1>6, <1>7, <1>8, <1>9, <1>10, <1>11, <1>12, <1>13,
     <1>14, <1>15, <1>16, <1>17
   DEF Next, PodStep, LoopStep, SaveStep, ContainerStep, RootfsStep, StarterStep

(* Every step keeps the types of what is left.                             *)
LEMMA RestStep ==
  ASSUME RestT, LoopT, [Next]_vars
  PROVE  RestT'
<1> USE DEF RestT, memVars, threadVars, worldVars
<1>1. ASSUME NEW s \in Sandboxes, RunPodSandbox(s) PROVE RestT'
  BY <1>1 DEF RunPodSandbox
<1>2. ASSUME NEW s \in Sandboxes, StopPodSandbox(s) \/ RemovePodSandbox(s) PROVE RestT'
  BY <1>2 DEF StopPodSandbox, Then, RemovePodSandbox
<1>3. CASE InsertPod \/ ReleasePodNetwork
  BY <1>3 DEF InsertPod, Then, ReleasePodNetwork
<1>4. ASSUME NEW c \in Containers, NEW s \in Sandboxes, CreateContainer(c, s) PROVE RestT'
  BY <1>4 DEF CreateContainer, NewContainer, Set, ThenFor
<1>5. ASSUME NEW c \in Containers,
             StartContainer(c) \/ StopContainer(c) \/ RemoveContainer(c)
             \/ RefreshContainerState(c)
      PROVE  RestT'
  BY <1>5 DEF StartContainer, Set, Starter, ThenFor, NextStart, StopContainer, ThenWait,
              RemoveContainer, RefreshContainerState, Then
<1>6. CASE RemoveDelete \/ RemoveFinish
  BY <1>6, LoopTypes DEF RemoveDelete, RemoveFinish
<1>7. CASE StartAnswer \/ StopKill \/ StopAnswer
  BY <1>7 DEF StartAnswer, StopKill, StopAnswer, Set, Then
<1>8. ASSUME NEW c \in Containers, RootfsUnpack(c) PROVE RestT'
  BY <1>8 DEF RootfsUnpack, Bundle, Unpacking, Failing, RootfsError, Rootfs, Set
<1>9. ASSUME NEW c \in Containers, RootfsMetadata(c) PROVE RestT'
  BY <1>9 DEF RootfsMetadata, Bundle, Sealed, RootfsDone, RootfsError, Rootfs, Set
<1>10. ASSUME NEW c \in Containers, RootfsPull(c) \/ RootfsRaised(c) PROVE RestT'
  BY <1>10 DEF RootfsPull, RootfsDone, RootfsError, Rootfs, Set, RootfsRaised
<1>11. ASSUME NEW c \in Containers, NEW k \in Starts, StartEnsure(c, k) \/ StartUnpack(c, k) PROVE RestT'
  BY <1>11 DEF StartEnsure, StartUnpack, Bundle, Unpacking, Failing, Sealed, StartError, Starter, Set
<1>12. ASSUME NEW c \in Containers, NEW k \in Starts, StartRaised(c, k) PROVE RestT'
  BY <1>12 DEF StartRaised, StartError, Starter, Set
<1>13. ASSUME NEW c \in Containers, NEW k \in Starts,
              StartRootfs(c, k) \/ StartSpawn(c, k) \/ StartCheck(c, k)
              \/ StartRunning(c, k) \/ StartKill(c, k) \/ StartStopped(c, k)
              \/ SetSid(c, k) \/ Exit(c, k)
       PROVE  RestT'
  BY <1>13 DEF StartRootfs, PrepareRootfs, StartError, Rootfs, Starter, Set, StartSpawn,
               StartCheck, StartRunning, StartKill, StartStopped, SetSid, Exit
<1>14. ASSUME NEW by \in Savers, SaveBegin(by) PROVE RestT'
  BY <1>14 DEF SaveBegin
<1>15. CASE SavePods \/ SaveNext \/ SaveCommit \/ SaveRaise
  BY <1>15 DEF SavePods, SaveNext, SaveCommit, LoopSaved, PrepareRootfs, Rootfs, Starter,
               Set, SaveRaise
<1>16. CASE Crash
  BY <1>16, RuntimeAssumption DEF Crash
<1>17. CASE Restart
  BY <1>17 DEF Restart
<1>18. CASE UNCHANGED vars
  BY <1>18 DEF vars
<1>19. QED
  BY <1>1, <1>2, <1>3, <1>4, <1>5, <1>6, <1>7, <1>8, <1>9, <1>10, <1>11, <1>12, <1>13,
     <1>14, <1>15, <1>16, <1>17, <1>18
   DEF Next, PodStep, LoopStep, SaveStep, ContainerStep, RootfsStep, StarterStep

(* NoContainer stands for no dict.                                         *)
LEMMA NoDict == \A r \in Record : r # NoContainer
BY RuntimeAssumption

(* A pod that stops stops its containers.                                  *)
LEMMA StoppedPod ==
  ASSUME NEW s \in Sandboxes, StopPodSandbox(s), NEW c \in Containers
  PROVE  mem'[c] = IF Listed(c) /\ mem[c].pod = s
                   THEN [mem[c] EXCEPT !.state = "exited"] ELSE mem[c]
BY DEF StopPodSandbox

(* Only a restart replaces the dicts; every other step keeps those that    *)
(* are there.                                                              *)
LoadsDicts == daemon = "down" /\ daemon' = "up"
KeepsDicts == \A c \in Containers :
  /\ Known(c) => Known(c)'
  /\ Known(c)' /\ ~Known(c) => c \in fresh /\ c \notin fresh'

(* Every step keeps the lists distinct: an id that is added was never      *)
(* used, and a save copies what is there.                                  *)
LEMMA ListsStep ==
  ASSUME Lists, Dicts, ListsT, SavingT, [Next]_vars
  PROVE  Lists'
<1> USE DEF Lists, memVars, threadVars, worldVars
<1>1. ASSUME NEW s \in Sandboxes,
             RunPodSandbox(s) \/ StopPodSandbox(s) \/ RemovePodSandbox(s)
      PROVE  Lists'
  BY <1>1 DEF RunPodSandbox, StopPodSandbox, Then, RemovePodSandbox
<1>2. CASE InsertPod \/ ReleasePodNetwork
  BY <1>2 DEF InsertPod, Then, ReleasePodNetwork
<1>3. ASSUME NEW c \in Containers, NEW s \in Sandboxes, CreateContainer(c, s) PROVE Lists'
  <2>1. ~Listed(c)
    BY <1>3 DEF CreateContainer, Dicts
  <2>2. Distinct(order')
    BY <1>3, <2>1, AppendProperties DEF CreateContainer, Distinct, Listed, ListsT
  <2>3. QED
    BY <1>3, <2>2 DEF CreateContainer
<1>4. ASSUME NEW c \in Containers,
             StartContainer(c) \/ StopContainer(c) \/ RemoveContainer(c)
             \/ RefreshContainerState(c)
      PROVE  Lists'
  BY <1>4 DEF StartContainer, Set, Starter, ThenFor, NextStart, StopContainer, ThenWait,
              RemoveContainer, RefreshContainerState, Then
<1>5. CASE RemoveFinish
  <2>1. PICK i \in DOMAIN order :
          order' = SubSeq(order, 1, i - 1) \o SubSeq(order, i + 1, Len(order))
    BY <1>5 DEF RemoveFinish
  <2>2. /\ order' \in Seq(Containers) /\ Len(order') = Len(order) - 1
        /\ \A j \in 1..(Len(order) - 1) : order'[j] = IF j < i THEN order[j] ELSE order[j + 1]
    BY <2>1, Cut DEF ListsT
  <2>3. ASSUME NEW m \in DOMAIN order', NEW n \in DOMAIN order', order'[m] = order'[n]
        PROVE  m = n
    <3>1. /\ Len(order) \in Nat /\ i \in 1..Len(order)
          /\ m \in 1..(Len(order) - 1) /\ n \in 1..(Len(order) - 1)
      BY <2>2 DEF ListsT
    <3>2. PICK p \in {m, m + 1}, q \in {n, n + 1} :
            /\ order'[m] = order[p] /\ order'[n] = order[q]
            /\ p = (IF m < i THEN m ELSE m + 1) /\ q = (IF n < i THEN n ELSE n + 1)
      BY <2>2, <3>1
    <3>3. p \in DOMAIN order /\ q \in DOMAIN order
      BY <3>1, <3>2 DEF ListsT
    <3>4. p = q
      BY <2>3, <3>2, <3>3 DEF Distinct
    <3>5. QED
      BY <3>1, <3>2, <3>4
  <2>4. Distinct(order')
    BY <2>3 DEF Distinct
  <2>5. QED
    BY <1>5, <2>4 DEF RemoveFinish
<1>6. CASE StartAnswer \/ StopKill \/ StopAnswer \/ RemoveDelete
  BY <1>6 DEF StartAnswer, StopKill, StopAnswer, Set, Then, RemoveDelete
<1>7. ASSUME NEW c \in Containers,
             RootfsPull(c) \/ RootfsUnpack(c) \/ RootfsMetadata(c) \/ RootfsRaised(c)
      PROVE  Lists'
  BY <1>7 DEF RootfsPull, RootfsDone, RootfsError, Rootfs, Set, RootfsUnpack,
              RootfsMetadata, RootfsRaised
<1>8. ASSUME NEW c \in Containers, NEW k \in Starts,
             StartRootfs(c, k) \/ StartEnsure(c, k) \/ StartUnpack(c, k) \/ StartSpawn(c, k)
             \/ StartCheck(c, k) \/ StartRunning(c, k) \/ StartKill(c, k)
             \/ StartStopped(c, k) \/ StartRaised(c, k) \/ SetSid(c, k) \/ Exit(c, k)
      PROVE  Lists'
  BY <1>8 DEF StartRootfs, PrepareRootfs, StartError, Rootfs, Starter, Set, StartEnsure, StartUnpack,
              StartSpawn, StartCheck, StartRunning, StartKill, StartStopped, StartRaised,
              SetSid, Exit
<1>9. ASSUME NEW by \in Savers, SaveBegin(by) PROVE Lists'
  BY <1>9 DEF SaveBegin, Distinct
<1>10. CASE SavePods
  <2>1. Len(saving.conts) <= Len(order)
    BY <1>10, SavingTypes DEF SavePods, ListsT
  <2>2. QED
    BY <1>10, <2>1, SavingTypes DEF SavePods, SaveInProgress
<1>11. CASE SaveNext
  <2>1. Len(saving'.conts) <= Len(saving'.keys) /\ saving'.keys = saving.keys /\ saving'.listed
    BY <1>11, SavingTypes, AppendProperties DEF SaveNext, SaveInProgress
  <2>2. QED
    BY <1>11, <2>1 DEF SaveNext
<1>12. CASE SaveCommit
  BY <1>12 DEF SaveCommit, LoopSaved, PrepareRootfs, Rootfs, Starter, Set
<1>13. CASE SaveRaise
  BY <1>13 DEF SaveRaise, Rootfs, Starter
<1>14. CASE Crash
  BY <1>14 DEF Crash
<1>15. CASE Restart
  <2>1. Len(disk'.conts) = Len(disk.conts) /\ disk'.keys = disk.keys
    BY <1>15 DEF Restart, ListsT, Snapshot
  <2>2. QED
    BY <1>15, <2>1 DEF Restart
<1>16. CASE UNCHANGED vars
  BY <1>16 DEF vars
<1>17. QED
  BY <1>1, <1>2, <1>3, <1>4, <1>5, <1>6, <1>7, <1>8, <1>9, <1>10, <1>11, <1>12, <1>13,
     <1>14, <1>15, <1>16
   DEF Next, PodStep, LoopStep, SaveStep, ContainerStep, RootfsStep, StarterStep

(* No step but a restart takes the dict of a container away.               *)
LEMMA KnownStays ==
  ASSUME MemT, LoopT, Dicts, [Next]_vars
  PROVE  (LoadsDicts \/ KeepsDicts)
<1> USE DEF MemT, Known, LoadsDicts, KeepsDicts, memVars, threadVars, worldVars
<1>1. ASSUME NEW s \in Sandboxes, StopPodSandbox(s) PROVE (LoadsDicts \/ KeepsDicts)
  <2>1. \A c \in Containers : Listed(c) => [mem[c] EXCEPT !.state = "exited"] \in Record
    BY DictsThere, Updates
  <2>2. QED
    BY <1>1, <2>1, StoppedPod, NoDict, DictsThere
<1>2. ASSUME NEW s \in Sandboxes,
             RunPodSandbox(s) \/ RemovePodSandbox(s)
      PROVE  (LoadsDicts \/ KeepsDicts)
  BY <1>2 DEF RunPodSandbox, RemovePodSandbox
<1>3. CASE InsertPod \/ ReleasePodNetwork
  BY <1>3 DEF InsertPod, Then, ReleasePodNetwork
<1>4. ASSUME NEW c \in Containers, NEW s \in Sandboxes, CreateContainer(c, s)
      PROVE  (LoadsDicts \/ KeepsDicts)
  <2>1. NewContainer(s) \in Record
    BY DEF NewContainer, Record
  <2>2. QED
    BY <1>4, <2>1, NoDict DEF CreateContainer, Set
<1>5. ASSUME NEW c \in Containers, StartContainer(c) PROVE (LoadsDicts \/ KeepsDicts)
  <2>1. mem[c] \in Record
    BY <1>5, DictsThere DEF StartContainer
  <2>2. QED
    BY <1>5, <2>1, Updates, NoDict DEF StartContainer, Set
<1>6. ASSUME NEW c \in Containers, StopContainer(c) PROVE (LoadsDicts \/ KeepsDicts)
  <2>1. mem[c] \in Record
    BY <1>6, DictsThere DEF StopContainer
  <2>2. QED
    BY <1>6, <2>1, Updates, NoDict DEF StopContainer, Set
<1>7. ASSUME NEW c \in Containers, RemoveContainer(c) PROVE (LoadsDicts \/ KeepsDicts)
  <2>1. mem[c] \in Record
    BY <1>7, DictsThere DEF RemoveContainer
  <2>2. QED
    BY <1>7, <2>1, Updates, NoDict DEF RemoveContainer, Set
<1>8. ASSUME NEW c \in Containers, RefreshContainerState(c)
      PROVE  (LoadsDicts \/ KeepsDicts)
  <2>1. mem[c] \in Record
    BY <1>8, DictsThere DEF RefreshContainerState
  <2>2. QED
    BY <1>8, <2>1, Updates, NoDict DEF RefreshContainerState, Set
<1>9. CASE StopAnswer
  <2>1. mem[loop.cid] \in Record
    BY <1>9, DictsThere DEF StopAnswer
  <2>2. QED
    BY <1>9, <2>1, Updates, NoDict DEF StopAnswer, Set
<1>10. CASE StartAnswer \/ StopKill \/ RemoveDelete \/ RemoveFinish
  BY <1>10 DEF StartAnswer, StopKill, RemoveDelete, RemoveFinish, Then
<1>11. ASSUME NEW c \in Containers, RootfsPull(c) PROVE (LoadsDicts \/ KeepsDicts)
  <2>1. mem[c] \in Record
    BY <1>11, DictsThere DEF RootfsPull
  <2>2. QED
    BY <1>11, <2>1, Updates, NoDict DEF RootfsPull, RootfsDone, RootfsError, Set
<1>12. ASSUME NEW c \in Containers, RootfsUnpack(c) PROVE (LoadsDicts \/ KeepsDicts)
  <2>1. mem[c] \in Record
    BY <1>12, DictsThere DEF RootfsUnpack
  <2>2. QED
    BY <1>12, <2>1, Updates, NoDict DEF RootfsUnpack, RootfsError, Set
<1>13. ASSUME NEW c \in Containers, RootfsMetadata(c) PROVE (LoadsDicts \/ KeepsDicts)
  <2>1. mem[c] \in Record
    BY <1>13, DictsThere DEF RootfsMetadata
  <2>2. QED
    BY <1>13, <2>1, Updates, NoDict DEF RootfsMetadata, RootfsDone, RootfsError, Set
<1>14. ASSUME NEW c \in Containers, RootfsRaised(c) PROVE (LoadsDicts \/ KeepsDicts)
  <2>1. mem[c] \in Record
    BY <1>14, DictsThere DEF RootfsRaised
  <2>2. QED
    BY <1>14, <2>1, Updates, NoDict DEF RootfsRaised, RootfsError, Set
<1>15. ASSUME NEW c \in Containers, NEW k \in Starts, StartRootfs(c, k)
      PROVE  (LoadsDicts \/ KeepsDicts)
  <2>1. mem[c] \in Record
    BY <1>15, DictsThere DEF StartRootfs
  <2>2. QED
    BY <1>15, <2>1, Updates, NoDict DEF StartRootfs, PrepareRootfs, StartError, Set
<1>16. ASSUME NEW c \in Containers, NEW k \in Starts, StartEnsure(c, k) \/ StartUnpack(c, k)
      PROVE  (LoadsDicts \/ KeepsDicts)
  <2>1. mem[c] \in Record
    BY <1>16, DictsThere DEF StartEnsure, StartUnpack
  <2>2. QED
    BY <1>16, <2>1, Updates, NoDict DEF StartEnsure, StartUnpack, StartError, Set
<1>17. ASSUME NEW c \in Containers, NEW k \in Starts, StartSpawn(c, k)
      PROVE  (LoadsDicts \/ KeepsDicts)
  <2>1. mem[c] \in Record
    BY <1>17, DictsThere DEF StartSpawn
  <2>2. QED
    BY <1>17, <2>1, Updates, NoDict DEF StartSpawn, StartError, Set
<1>18. ASSUME NEW c \in Containers, NEW k \in Starts, StartRunning(c, k)
      PROVE  (LoadsDicts \/ KeepsDicts)
  <2>1. mem[c] \in Record
    BY <1>18, DictsThere DEF StartRunning
  <2>2. QED
    BY <1>18, <2>1, Updates, NoDict DEF StartRunning, Set
<1>19. ASSUME NEW c \in Containers, NEW k \in Starts, StartStopped(c, k)
      PROVE  (LoadsDicts \/ KeepsDicts)
  <2>1. mem[c] \in Record
    BY <1>19, DictsThere DEF StartStopped
  <2>2. QED
    BY <1>19, <2>1, Updates, NoDict DEF StartStopped, Set
<1>20. ASSUME NEW c \in Containers, NEW k \in Starts, StartRaised(c, k)
      PROVE  (LoadsDicts \/ KeepsDicts)
  <2>1. mem[c] \in Record
    BY <1>20, DictsThere DEF StartRaised
  <2>2. QED
    BY <1>20, <2>1, Updates, NoDict DEF StartRaised, StartError, Set
<1>21. ASSUME NEW c \in Containers, NEW k \in Starts,
              StartCheck(c, k) \/ StartKill(c, k) \/ SetSid(c, k) \/ Exit(c, k)
       PROVE  (LoadsDicts \/ KeepsDicts)
  BY <1>21 DEF StartCheck, Starter, StartKill, SetSid, Exit
<1>22. ASSUME NEW by \in Savers, SaveBegin(by) PROVE (LoadsDicts \/ KeepsDicts)
  BY <1>22 DEF SaveBegin
<1>23. CASE SaveCommit
  <2>1. CASE loop.op = "createSave" /\ PrepareRootfs(loop.cid)
    BY <1>23, <2>1, DictsThere, Updates, NoDict DEF PrepareRootfs, Set
  <2>2. QED
    BY <1>23, <2>1 DEF SaveCommit, LoopSaved
<1>24. CASE SavePods \/ SaveNext \/ SaveRaise
  BY <1>24 DEF SavePods, SaveNext, SaveRaise, Rootfs, Starter
<1>25. CASE Crash \/ Restart
  BY <1>25 DEF Crash, Restart
<1>26. CASE UNCHANGED vars
  BY <1>26 DEF vars
<1>27. QED
  BY <1>1, <1>2, <1>3, <1>4, <1>5, <1>6, <1>7, <1>8, <1>9, <1>10, <1>11, <1>12, <1>13,
     <1>14, <1>15, <1>16, <1>17, <1>18, <1>19, <1>20, <1>21, <1>22, <1>23, <1>24, <1>25,
     <1>26
   DEF Next, PodStep, LoopStep, SaveStep, ContainerStep, RootfsStep, StarterStep

(* A thread that prepares the rootfs of c is started.                      *)
Prepares(c) ==
  /\ loop.op = "createSave" /\ loop.cid = c /\ c \in WithImage /\ loop' = Idle
  /\ rootfsThread' = [rootfsThread EXCEPT ![c] = "pull"]
  /\ mem' = [mem EXCEPT ![c] = [mem[c] EXCEPT !.rootfs = "preparing"]]

(* A save that ends moves only the one who saved.                          *)
LEMMA SaveEnds ==
  ASSUME SavingT, StarterT, RootfsT, LoopT, MemT, Saver, SaveCommit \/ SaveRaise
  PROVE  /\ saving # NoSave /\ saving' = NoSave /\ UNCHANGED <<sandboxes, order>>
         /\ \A c \in Containers, k \in Starts :
              \/ starter'[c][k] = starter[c][k]
              \/ /\ starter[c][k] \in {"save", "errorSave"} /\ starter'[c][k] \in {"raised", "done"}
                 /\ saving.by = <<"start", c, k>>
                 /\ starter[c][k] = "errorSave" => starter'[c][k] = "done"
                 /\ starter'[c][k] = "raised" => SaveRaise
         /\ \A c \in Containers :
              \/ rootfsThread'[c] = rootfsThread[c]
              \/ /\ rootfsThread[c] \in {"save", "errorSave"} /\ rootfsThread'[c] \in {"raised", "none"}
                 /\ saving.by = <<"rootfs", c>>
                 /\ rootfsThread'[c] = "raised" => SaveRaise
              \/ Prepares(c)
         /\ UNCHANGED mem \/ \E c \in Containers : Prepares(c)
         /\ loop' # loop => loop' = Idle /\ loop.op \in {"save", "createSave"}
<1>1. saving # NoSave
  BY DEF SaveCommit, SaveRaise
<1>2. CASE saving.by[1] = "loop"
  <2>1. SaveCommit /\ LoopSaved /\ loop.op \in {"save", "createSave"} /\ saving' = NoSave
    BY <1>1, <1>2 DEF SaveCommit, SaveRaise, Saver, AtSave
  <2>2. CASE loop.op = "createSave" /\ loop.cid \in WithImage
    <3>1. loop.cid \in Containers /\ Prepares(loop.cid)
      BY <2>1, <2>2, LoopTypes DEF LoopSaved, PrepareRootfs, Prepares, Set, Rootfs
    <3>2. QED
      BY <1>1, <2>1, <3>1 DEF SaveCommit, LoopSaved, RootfsT, Prepares
  <2>3. CASE ~(loop.op = "createSave" /\ loop.cid \in WithImage)
    BY <1>1, <2>1, <2>3 DEF SaveCommit, LoopSaved
  <2>4. QED
    BY <2>2, <2>3
<1>3. CASE saving.by[1] = "rootfs"
  <2>1. PICK d \in Containers : /\ saving.by = <<"rootfs", d>> /\ saving.by[2] = d
                                /\ rootfsThread[d] \in {"save", "errorSave"}
    BY <1>1, <1>3, SavingTypes, SaverTypes DEF Saver, AtSave
  <2>2. PICK at \in {"raised", "none"} : Rootfs(d, at) /\ (at = "raised" => SaveRaise)
    BY <1>3, <2>1 DEF SaveCommit, SaveRaise
  <2>3. UNCHANGED <<mem, loop, starter, sandboxes, order>> /\ saving' = NoSave
    BY <1>3 DEF SaveCommit, SaveRaise
  <2>4. \A c \in Containers : IF c = d THEN rootfsThread'[c] = at
                              ELSE rootfsThread'[c] = rootfsThread[c]
    BY <2>2 DEF Rootfs, RootfsT
  <2>5. \A c \in Containers :
          \/ rootfsThread'[c] = rootfsThread[c]
          \/ /\ rootfsThread[c] \in {"save", "errorSave"} /\ rootfsThread'[c] \in {"raised", "none"}
             /\ saving.by = <<"rootfs", c>>
             /\ rootfsThread'[c] = "raised" => SaveRaise
    BY <2>1, <2>2, <2>4
  <2>6. mem' = mem /\ loop' = loop /\ starter' = starter
    BY <2>3
  <2>7. QED
    BY <1>1, <2>3, <2>5, <2>6
<1>4. CASE saving.by[1] = "start"
  <2>1. PICK d \in Containers, j \in Starts :
          /\ saving.by = <<"start", d, j>> /\ saving.by[2] = d /\ saving.by[3] = j
          /\ starter[d][j] \in {"save", "errorSave"}
    BY <1>1, <1>4, SavingTypes, SaverTypes DEF Saver, AtSave
  <2>2. PICK at \in {"raised", "done"} :
          /\ Starter(d, j, at) /\ (at = "raised" => SaveRaise)
          /\ starter[d][j] = "errorSave" => at = "done"
    BY <1>4, <2>1 DEF SaveCommit, SaveRaise
  <2>3. UNCHANGED <<mem, loop, rootfsThread, sandboxes, order>> /\ saving' = NoSave
    BY <1>4 DEF SaveCommit, SaveRaise
  <2>4. \A c \in Containers, k \in Starts :
          IF c = d /\ k = j THEN starter'[c][k] = at ELSE starter'[c][k] = starter[c][k]
    BY <2>2 DEF Starter, StarterT
  <2>5. \A c \in Containers, k \in Starts :
          \/ starter'[c][k] = starter[c][k]
          \/ /\ starter[c][k] \in {"save", "errorSave"} /\ starter'[c][k] \in {"raised", "done"}
             /\ saving.by = <<"start", c, k>>
             /\ starter[c][k] = "errorSave" => starter'[c][k] = "done"
             /\ starter'[c][k] = "raised" => SaveRaise
    BY <2>1, <2>2, <2>4
  <2>6. mem' = mem /\ loop' = loop /\ rootfsThread' = rootfsThread
    BY <2>3
  <2>7. QED
    BY <1>1, <2>3, <2>5, <2>6
<1>5. QED
  BY <1>1, <1>2, <1>3, <1>4, SavingTypes

(* How the list of containers changes.                                     *)
LEMMA Appended ==
  ASSUME ListsT, NEW c \in Containers, order' = Append(order, c)
  PROVE  \A d \in Containers : Listed(d)' <=> Listed(d) \/ d = c
<1>1. /\ Len(order') = Len(order) + 1 /\ Len(order) \in Nat /\ order'[Len(order) + 1] = c
      /\ \A i \in 1..Len(order) : order'[i] = order[i]
      /\ DOMAIN order' = 1..(Len(order) + 1) /\ DOMAIN order = 1..Len(order)
  BY AppendProperties DEF ListsT
<1>2. ASSUME NEW d \in Containers, Listed(d) \/ d = c PROVE Listed(d)'
  BY <1>1, <1>2 DEF Listed
<1>3. ASSUME NEW d \in Containers, Listed(d)' PROVE Listed(d) \/ d = c
  BY <1>1, <1>3 DEF Listed
<1>4. QED
  BY <1>2, <1>3

(* RemoveContainer takes its container out of the list, and no other.      *)
LEMMA CutOut ==
  ASSUME ListsT, Lists, RemoveFinish
  PROVE  \A d \in Containers : Listed(d)' <=> Listed(d) /\ d # loop.cid
<1>1. PICK i \in DOMAIN order :
        /\ order[i] = loop.cid
        /\ order' = SubSeq(order, 1, i - 1) \o SubSeq(order, i + 1, Len(order))
  BY DEF RemoveFinish
<1>2. /\ order' \in Seq(Containers) /\ Len(order') = Len(order) - 1
      /\ \A j \in 1..(Len(order) - 1) : order'[j] = IF j < i THEN order[j] ELSE order[j + 1]
  BY <1>1, Cut DEF ListsT
<1>3. Len(order) \in Nat /\ i \in 1..Len(order)
      /\ DOMAIN order = 1..Len(order) /\ DOMAIN order' = 1..(Len(order) - 1)
  BY <1>2 DEF ListsT
<1>4. ASSUME NEW d \in Containers, NEW j \in DOMAIN order', order'[j] = d
      PROVE  Listed(d) /\ d # loop.cid
  <2>1. PICK p \in DOMAIN order : p # i /\ order'[j] = order[p]
    BY <1>2, <1>3
  <2>2. QED
    BY <1>1, <1>4, <2>1 DEF Listed, Lists, Distinct
<1>5. ASSUME NEW d \in Containers, d # loop.cid, NEW p \in DOMAIN order, order[p] = d
      PROVE  \E j \in DOMAIN order' : order'[j] = d
  <2>1. CASE p < i
    <3>1. p \in 1..(Len(order) - 1)
      BY <1>3, <2>1
    <3>2. QED
      BY <1>2, <1>3, <1>5, <2>1, <3>1
  <2>2. CASE p > i
    <3>1. p - 1 \in 1..(Len(order) - 1) /\ ~(p - 1 < i) /\ (p - 1) + 1 = p
      BY <1>3, <2>2
    <3>2. QED
      BY <1>2, <1>3, <1>5, <3>1
  <2>3. p # i
    BY <1>1, <1>5
  <2>4. QED
    BY <1>3, <2>1, <2>2, <2>3
<1>6. QED
  BY <1>4, <1>5 DEF Listed

(* Every step keeps Dicts: a thread is started, and a container listed,    *)
(* only when its dict is there, and an id is used once.                    *)
LEMMA DictsStep ==
  ASSUME MemT, StarterT, RootfsT, LoopT, SavingT, ListsT, Lists, Dicts, Down, Saver,
         [Next]_vars
  PROVE  Dicts'
<1> USE DEF Dicts, Down, LoadsDicts, KeepsDicts, StarterT, RootfsT, Listed, Holds,
            memVars, threadVars, worldVars
<1>1. LoadsDicts \/ KeepsDicts
  BY KnownStays
<1>2. ASSUME NEW s \in Sandboxes, RunPodSandbox(s) PROVE Dicts'
  BY <1>2, <1>1, LoopTypes DEF RunPodSandbox
<1>3. ASSUME NEW s \in Sandboxes, StopPodSandbox(s) PROVE Dicts'
  BY <1>3, <1>1, LoopTypes DEF StopPodSandbox, Then
<1>4. ASSUME NEW s \in Sandboxes, RemovePodSandbox(s) PROVE Dicts'
  BY <1>4, <1>1, LoopTypes DEF RemovePodSandbox
<1>5. CASE InsertPod
  BY <1>5, <1>1, LoopTypes DEF InsertPod, Then
<1>6. CASE ReleasePodNetwork
  BY <1>6, <1>1, LoopTypes DEF ReleasePodNetwork, Then
<1>7. ASSUME NEW c \in Containers, NEW s \in Sandboxes, CreateContainer(c, s) PROVE Dicts'
  <2>1. Known(c)' /\ \A d \in Containers : d # c => mem'[d] = mem[d]
    <3>1. NewContainer(s) \in Record
      BY DEF NewContainer, Record
    <3>2. QED
      BY <1>7, <1>1, LoopTypes, <3>1, NoDict DEF CreateContainer, Set, MemT, Known
  <2>2. \A d \in Containers : Listed(d)' <=> Listed(d) \/ d = c
    BY <1>7, <1>1, LoopTypes, Appended DEF CreateContainer
  <2>3. QED
    BY <1>7, <1>1, LoopTypes, <2>1, <2>2 DEF CreateContainer, ThenFor
<1>8. ASSUME NEW c \in Containers, StartContainer(c) PROVE Dicts'
  BY <1>8, <1>1, LoopTypes DEF StartContainer, Set, Starter, ThenFor, NextStart
<1>9. ASSUME NEW c \in Containers, StopContainer(c) PROVE Dicts'
  BY <1>9, <1>1, LoopTypes DEF StopContainer, Set, ThenWait
<1>10. ASSUME NEW c \in Containers, RemoveContainer(c) PROVE Dicts'
  BY <1>10, <1>1, LoopTypes DEF RemoveContainer, Set, ThenWait
<1>11. ASSUME NEW c \in Containers, RefreshContainerState(c) PROVE Dicts'
  BY <1>11, <1>1, LoopTypes DEF RefreshContainerState, Set, Then
<1>12. CASE StartAnswer
  BY <1>12, <1>1, LoopTypes DEF StartAnswer, Idle
<1>13. CASE StopKill
  BY <1>13, <1>1, LoopTypes DEF StopKill
<1>14. CASE StopAnswer
  BY <1>14, <1>1, LoopTypes DEF StopAnswer, Set, Then
<1>15. CASE RemoveDelete
  BY <1>15, <1>1, LoopTypes, RemoveDeleteDoes DEF RemoveDelete
<1>16. CASE RemoveFinish
  <2>1. \A d \in Containers : Listed(d)' <=> Listed(d) /\ d # loop.cid
    BY <1>16, <1>1, LoopTypes, CutOut DEF RemoveFinish
  <2>2. QED
    BY <1>16, <1>1, LoopTypes, <2>1 DEF RemoveFinish, Then
<1>17. ASSUME NEW c \in Containers, RootfsPull(c) PROVE Dicts'
  BY <1>17, <1>1, LoopTypes DEF RootfsPull, RootfsDone, RootfsError, Rootfs, Set
<1>18. ASSUME NEW c \in Containers, RootfsUnpack(c) PROVE Dicts'
  BY <1>18, <1>1, LoopTypes DEF RootfsUnpack, RootfsError, Rootfs, Set
<1>19. ASSUME NEW c \in Containers, RootfsMetadata(c) PROVE Dicts'
  BY <1>19, <1>1, LoopTypes DEF RootfsMetadata, RootfsDone, RootfsError, Rootfs, Set
<1>20. ASSUME NEW c \in Containers, RootfsRaised(c) PROVE Dicts'
  BY <1>20, <1>1, LoopTypes DEF RootfsRaised, RootfsError, Rootfs, Set
<1>21. ASSUME NEW c \in Containers, NEW k \in Starts, StartRootfs(c, k) PROVE Dicts'
  BY <1>21, <1>1, LoopTypes DEF StartRootfs, PrepareRootfs, StartError, Rootfs, Starter,
                                Set
<1>22. ASSUME NEW c \in Containers, NEW k \in Starts, StartEnsure(c, k) \/ StartUnpack(c, k) PROVE Dicts'
  BY <1>22, <1>1, LoopTypes DEF StartEnsure, StartUnpack, StartError, Starter, Set
<1>23. ASSUME NEW c \in Containers, NEW k \in Starts, StartSpawn(c, k) PROVE Dicts'
  BY <1>23, <1>1, LoopTypes DEF StartSpawn, StartError, Starter, Set
<1>24. ASSUME NEW c \in Containers, NEW k \in Starts, StartCheck(c, k) PROVE Dicts'
  BY <1>24, <1>1, LoopTypes DEF StartCheck, Starter
<1>25. ASSUME NEW c \in Containers, NEW k \in Starts, StartRunning(c, k) PROVE Dicts'
  BY <1>25, <1>1, LoopTypes DEF StartRunning, Starter, Set
<1>26. ASSUME NEW c \in Containers, NEW k \in Starts, StartKill(c, k) PROVE Dicts'
  BY <1>26, <1>1, LoopTypes DEF StartKill
<1>27. ASSUME NEW c \in Containers, NEW k \in Starts, StartStopped(c, k) PROVE Dicts'
  BY <1>27, <1>1, LoopTypes DEF StartStopped, Starter, Set
<1>28. ASSUME NEW c \in Containers, NEW k \in Starts, StartRaised(c, k) PROVE Dicts'
  BY <1>28, <1>1, LoopTypes DEF StartRaised, StartError, Starter, Set
<1>29. ASSUME NEW c \in Containers, NEW k \in Starts, SetSid(c, k) PROVE Dicts'
  BY <1>29, <1>1, LoopTypes DEF SetSid
<1>30. ASSUME NEW c \in Containers, NEW k \in Starts, Exit(c, k) PROVE Dicts'
  BY <1>30, <1>1, LoopTypes DEF Exit
<1>31. ASSUME NEW by \in Savers, SaveBegin(by) PROVE Dicts'
  BY <1>31, <1>1, LoopTypes DEF SaveBegin
<1>32. CASE SavePods
  BY <1>32, <1>1, LoopTypes, SavingTypes DEF SavePods, SaveInProgress
<1>33. CASE SaveNext
  BY <1>33, <1>1, LoopTypes, SavingTypes DEF SaveNext, SaveInProgress
<1>34. CASE SaveCommit
  <2>1. saving \in SaveInProgress /\ disk'.keys = saving.keys /\ saving' = NoSave
    BY <1>34, <1>1, LoopTypes, SavingTypes DEF SaveCommit
  <2>2. /\ \A c \in Containers : Listed(c)' = Listed(c)
        /\ loop'.op \in {"createSave", "start", "stop", "remove", "rmtree"} => loop' = loop
    BY <1>34, <1>1, LoopTypes, SaveEnds DEF Idle
  <2>3. \A c \in Containers : rootfsThread'[c] # "none" =>
          rootfsThread[c] # "none" \/ (loop.op = "createSave" /\ loop.cid = c)
    BY <1>34, <1>1, LoopTypes, SaveEnds DEF Prepares
  <2>4. \A c \in Containers, k \in Starts :
          /\ starter'[c][k] = "none" <=> starter[c][k] = "none"
          /\ starter[c][k] = "done" => starter'[c][k] = "done"
    BY <1>34, <1>1, LoopTypes, SaveEnds
  <2>5. QED
    BY <1>34, <1>1, LoopTypes, <2>1, <2>2, <2>3, <2>4 DEF SaveCommit
<1>35. CASE SaveRaise
  <2>1. /\ \A c \in Containers : rootfsThread'[c] # "none" => rootfsThread[c] # "none"
        /\ \A c \in Containers, k \in Starts :
             /\ starter'[c][k] = "none" <=> starter[c][k] = "none"
             /\ starter[c][k] = "done" => starter'[c][k] = "done"
    BY <1>35, <1>1, LoopTypes, SaveEnds DEF Prepares, SaveRaise, Idle
  <2>2. QED
    BY <1>35, <1>1, LoopTypes, <2>1 DEF SaveRaise
<1>36. CASE Crash
  BY <1>36, <1>1, LoopTypes DEF Crash, Idle
<1>37. CASE Restart
  <2>1. /\ order' = disk.keys /\ loop' = loop /\ loop.op = "idle"
        /\ saving = NoSave /\ saving' = NoSave
        /\ disk'.keys = disk.keys /\ fresh' = fresh
        /\ \A c \in Containers : /\ rootfsThread'[c] = "none"
                                /\ \A k \in Starts : starter'[c][k] = starter[c][k]
    BY <1>37, <1>1, LoopTypes DEF Restart, Idle, ListsT, Snapshot
  <2>2. ASSUME NEW k \in DOMAIN disk.keys PROVE FromState(disk.conts[k]) \in Record
    BY RecordTypes DEF ListsT, Snapshot, Lists
  <2>3. \A c \in Containers : Known(c)' <=> Holds(disk.keys, c)
    BY <1>37, <1>1, LoopTypes, <2>2, NoDict DEF Restart, Known, ListsT, Snapshot, Lists
  <2>4. QED
    BY <1>37, <1>1, LoopTypes, <2>1, <2>3
<1>38. CASE UNCHANGED vars
  BY <1>38, <1>1, LoopTypes DEF vars
<1>39. QED
  BY <1>2, <1>3, <1>4, <1>5, <1>6, <1>7, <1>8, <1>9, <1>10, <1>11, <1>12, <1>13, <1>14,
     <1>15, <1>16, <1>17, <1>18, <1>19, <1>20, <1>21, <1>22, <1>23, <1>24, <1>25, <1>26, <1>27,
     <1>28, <1>29, <1>30, <1>31, <1>32, <1>33, <1>34, <1>35, <1>36, <1>37, <1>38
   DEF Next, PodStep, LoopStep, SaveStep, ContainerStep, RootfsStep, StarterStep

(* Where a thread, or the loop, saves.                                     *)
LEMMA SaverAt ==
  ASSUME NEW by \in Savers, AtSave(by)
  PROVE  \/ by = <<"loop">> /\ loop.op \in {"save", "createSave"}
         \/ \E c \in Containers :
              by = <<"rootfs", c>> /\ rootfsThread[c] \in {"save", "errorSave"}
         \/ \E c \in Containers, k \in Starts :
              by = <<"start", c, k>> /\ starter[c][k] \in {"save", "errorSave"}
<1>1. CASE by[1] = "loop"
  BY <1>1, SaverTypes DEF AtSave
<1>2. CASE by[1] = "rootfs"
  BY <1>2, SaverTypes DEF AtSave
<1>3. CASE by[1] = "start"
  BY <1>3, SaverTypes DEF AtSave
<1>4. QED
  BY <1>1, <1>2, <1>3, SaverTypes

(* Every step keeps Down: a crash ends threads and requests, and what was  *)
(* started before is older than the daemon.                                *)
LEMMA DownStep ==
  ASSUME MemT, ProcsT, StarterT, RootfsT, LoopT, SavingT, ListsT, RestT, Dicts, Down,
         [Next]_vars
  PROVE  Down'
<1> USE DEF Down, Free, Idle, memVars, threadVars, worldVars
<1>1. ASSUME NEW s \in Sandboxes, RunPodSandbox(s) PROVE Down'
  BY <1>1 DEF RunPodSandbox
<1>2. ASSUME NEW s \in Sandboxes, StopPodSandbox(s) PROVE Down'
  <2>1. Age
    BY <1>2, ProcessSteps
  <2>2. QED
    BY <1>2, <2>1 DEF Age, Older, StopPodSandbox, Then
<1>3. ASSUME NEW s \in Sandboxes, RemovePodSandbox(s) PROVE Down'
  BY <1>3 DEF RemovePodSandbox
<1>4. CASE InsertPod
  BY <1>4 DEF InsertPod, Then
<1>5. CASE ReleasePodNetwork
  BY <1>5 DEF ReleasePodNetwork, Then
<1>6. ASSUME NEW c \in Containers, NEW s \in Sandboxes, CreateContainer(c, s) PROVE Down'
  BY <1>6 DEF CreateContainer, NewContainer, Set, ThenFor
<1>7. ASSUME NEW c \in Containers, StartContainer(c) PROVE Down'
  BY <1>7 DEF StartContainer, Set, Starter, ThenFor, NextStart
<1>8. ASSUME NEW c \in Containers, StopContainer(c) PROVE Down'
  <2>1. Age
    BY <1>8, ProcessSteps
  <2>2. QED
    BY <1>8, <2>1 DEF Age, Older, StopContainer, Set, ThenWait
<1>9. ASSUME NEW c \in Containers, RemoveContainer(c) PROVE Down'
  <2>1. Age
    BY <1>9, ProcessSteps
  <2>2. QED
    BY <1>9, <2>1 DEF Age, Older, RemoveContainer, Set, ThenWait
<1>10. ASSUME NEW c \in Containers, RefreshContainerState(c) PROVE Down'
  BY <1>10 DEF RefreshContainerState, Set, Then
<1>11. CASE StartAnswer
  BY <1>11 DEF StartAnswer
<1>12. CASE StopKill
  <2>1. Age
    BY <1>12, ProcessSteps
  <2>2. QED
    BY <1>12, <2>1 DEF Age, Older, StopKill
<1>13. CASE StopAnswer
  BY <1>13 DEF StopAnswer, Set, Then
<1>14. CASE RemoveDelete
  BY <1>14, LoopTypes DEF RemoveDelete
<1>15. CASE RemoveFinish
  BY <1>15 DEF RemoveFinish, Then
<1>16. ASSUME NEW c \in Containers, RootfsPull(c) PROVE Down'
  BY <1>16 DEF RootfsPull, RootfsDone, RootfsError, Rootfs, Set
<1>17. ASSUME NEW c \in Containers, RootfsUnpack(c) PROVE Down'
  BY <1>17 DEF RootfsUnpack, RootfsError, Rootfs, Set
<1>18. ASSUME NEW c \in Containers, RootfsMetadata(c) PROVE Down'
  BY <1>18 DEF RootfsMetadata, RootfsDone, RootfsError, Rootfs, Set
<1>19. ASSUME NEW c \in Containers, RootfsRaised(c) PROVE Down'
  BY <1>19 DEF RootfsRaised, RootfsError, Rootfs, Set
<1>20. ASSUME NEW c \in Containers, NEW k \in Starts, StartRootfs(c, k) PROVE Down'
  BY <1>20 DEF StartRootfs, PrepareRootfs, StartError, Rootfs, Starter, Set
<1>21. ASSUME NEW c \in Containers, NEW k \in Starts, StartEnsure(c, k) \/ StartUnpack(c, k) PROVE Down'
  BY <1>21 DEF StartEnsure, StartUnpack, StartError, Starter, Set
<1>22. ASSUME NEW c \in Containers, NEW k \in Starts, StartSpawn(c, k) PROVE Down'
  <2>1. \A d \in Containers, j \in Starts : procs'[d][j].born \in {procs[d][j].born, crashes}
    BY <1>22 DEF StartSpawn, ProcsT
  <2>2. daemon # "down" /\ daemon' = daemon /\ crashes' = crashes /\ crashes \in Nat
    BY <1>22 DEF StartSpawn, RestT
  <2>3. QED
    BY <1>22, <2>1, <2>2
<1>23. ASSUME NEW c \in Containers, NEW k \in Starts, StartCheck(c, k) PROVE Down'
  <2>1. Age
    BY <1>23, ProcessSteps
  <2>2. QED
    BY <1>23, <2>1 DEF Age, Older, StartCheck, Starter
<1>24. ASSUME NEW c \in Containers, NEW k \in Starts, StartRunning(c, k) PROVE Down'
  BY <1>24 DEF StartRunning, Starter, Set
<1>25. ASSUME NEW c \in Containers, NEW k \in Starts, StartKill(c, k) PROVE Down'
  <2>1. Age
    BY <1>25, ProcessSteps
  <2>2. QED
    BY <1>25, <2>1 DEF Age, Older, StartKill
<1>26. ASSUME NEW c \in Containers, NEW k \in Starts, StartStopped(c, k) PROVE Down'
  BY <1>26 DEF StartStopped, Starter, Set
<1>27. ASSUME NEW c \in Containers, NEW k \in Starts, StartRaised(c, k) PROVE Down'
  BY <1>27 DEF StartRaised, StartError, Starter, Set
<1>28. ASSUME NEW c \in Containers, NEW k \in Starts, SetSid(c, k) PROVE Down'
  <2>1. Age
    BY <1>28, ProcessSteps
  <2>2. QED
    BY <1>28, <2>1 DEF Age, Older, SetSid
<1>29. ASSUME NEW c \in Containers, NEW k \in Starts, Exit(c, k) PROVE Down'
  <2>1. Age
    BY <1>29, ProcessSteps
  <2>2. QED
    BY <1>29, <2>1 DEF Age, Older, Exit
<1>30. ASSUME NEW by \in Savers, SaveBegin(by) PROVE Down'
  <2>1. daemon # "down"
    BY <1>30, SaverAt DEF SaveBegin
  <2>2. QED
    BY <1>30, <2>1 DEF SaveBegin
<1>31. CASE SavePods
  BY <1>31 DEF SavePods
<1>32. CASE SaveNext
  BY <1>32 DEF SaveNext
<1>33. CASE SaveCommit
  BY <1>33 DEF SaveCommit, LoopSaved, PrepareRootfs, Rootfs, Starter, Set
<1>34. CASE SaveRaise
  BY <1>34 DEF SaveRaise, Rootfs, Starter
<1>35. CASE Crash
  <2>1. \A c \in Containers, k \in Starts :
          /\ procs'[c][k].born = procs[c][k].born /\ procs[c][k].born \in 0..MaxCrashes
          /\ starter'[c][k] \in {"none", "done"}
    BY <1>35 DEF Crash, ProcsT, Process
  <2>2. crashes' = crashes + 1 /\ crashes \in Nat /\ loop' = Idle /\ saving' = NoSave
        /\ \A c \in Containers : rootfsThread'[c] = "none"
    BY <1>35 DEF Crash, RestT
  <2>3. MaxCrashes \in Nat
    BY RuntimeAssumption
  <2>4. QED
    BY <2>1, <2>2, <2>3
<1>36. CASE Restart
  BY <1>36 DEF Restart
<1>37. CASE UNCHANGED vars
  BY <1>37 DEF vars
<1>38. QED
  BY <1>1, <1>2, <1>3, <1>4, <1>5, <1>6, <1>7, <1>8, <1>9, <1>10, <1>11, <1>12, <1>13,
     <1>14, <1>15, <1>16, <1>17, <1>18, <1>19, <1>20, <1>21, <1>22, <1>23, <1>24, <1>25, <1>26,
     <1>27, <1>28, <1>29, <1>30, <1>31, <1>32, <1>33, <1>34, <1>35, <1>36, <1>37
   DEF Next, PodStep, LoopStep, SaveStep, ContainerStep, RootfsStep, StarterStep

(* What a step does to the dict of c, to its threads, and that it leaves   *)
(* the others alone.                                                       *)
Changed(r, q, state, rootfs, start, proc) ==
  /\ r \in Record /\ q \in Record /\ q.pod = r.pod
  /\ q.state = state /\ q.rootfs = rootfs /\ q.start = start /\ q.proc = proc

(* What a step makes of the fields of a dict, which start thread moves on, *)
(* and what stays as it is.                                                *)
Sets(c, state, rootfs, start, proc) == Changed(mem[c], mem'[c], state, rootfs, start, proc)

Moves(c, k, at) ==
  starter'[c][k] = at /\ \A j \in Starts : j # k => starter'[c][j] = starter[c][j]

Only(c) == \A d \in Containers : d # c =>
  /\ mem'[d] = mem[d] /\ rootfsThread'[d] = rootfsThread[d]
  /\ \A j \in Starts : starter'[d][j] = starter[d][j]

Stays(c) == \A j \in Starts : starter'[c][j] = starter[c][j]

(* Set changes one dict.                                                   *)
LEMMA SetDict ==
  ASSUME MemT, NEW c \in Containers, NEW r, Set(c, r)
  PROVE  mem'[c] = r /\ \A d \in Containers : d # c => mem'[d] = mem[d]
BY DEF MemT, Set

(* A pod that stops only says of its containers that they exited.          *)
LEMMA StopPodSandboxDoes ==
  ASSUME MemT, LoopT, Dicts, NEW s \in Sandboxes, StopPodSandbox(s), NEW c \in Containers
  PROVE  \/ mem'[c] = mem[c]
         \/ Listed(c) /\ Sets(c, "exited", mem[c].rootfs, mem[c].start, mem[c].proc)
<1>1. CASE Listed(c) /\ mem[c].pod = s
  <2>1. mem[c] \in Record /\ mem'[c] = [mem[c] EXCEPT !.state = "exited"]
    BY <1>1, StoppedPod, DictsThere
  <2>2. QED
    BY <1>1, <2>1 DEF Sets, Changed, Record
<1>2. CASE ~(Listed(c) /\ mem[c].pod = s)
  BY <1>2, StoppedPod
<1>3. QED
  BY <1>1, <1>2

(* A new container was never heard of.                                     *)
LEMMA CreateContainerDoes ==
  ASSUME MemT, StarterT, RootfsT, Dicts, NEW c \in Containers, NEW s \in Sandboxes,
         CreateContainer(c, s)
  PROVE  /\ ~Known(c) /\ ~Listed(c) /\ rootfsThread[c] = "none"
         /\ \A k \in Starts : starter[c][k] = "none"
         /\ mem'[c] = NewContainer(s) /\ mem'[c] \in Record
         /\ Only(c) /\ Stays(c) /\ rootfsThread'[c] = rootfsThread[c]
<1>1. NewContainer(s) \in Record
  BY DEF NewContainer, Record
<1>2. mem'[c] = NewContainer(s) /\ \A d \in Containers : d # c => mem'[d] = mem[d]
  BY <1>1, SetDict DEF CreateContainer
<1>3. UNCHANGED <<rootfsThread, starter>>
  BY DEF CreateContainer
<1>4. c \in fresh
  BY DEF CreateContainer
<1>5. QED
  BY <1>1, <1>2, <1>3, <1>4 DEF Dicts, Only, Stays

(* A start is given a thread, or joins one.                                *)
LEMMA StartContainerDoes ==
  ASSUME MemT, StarterT, RootfsT, LoopT, Dicts,
         NEW c \in Containers, StartContainer(c)
  PROVE  /\ Only(c) /\ rootfsThread'[c] = rootfsThread[c]
         /\ \/ /\ mem[c].start # "starting"
               /\ Sets(c, mem[c].state, mem[c].rootfs, "starting", mem[c].proc)
               /\ \E k \in Starts : starter[c][k] = "none" /\ Moves(c, k, "rootfs")
            \/ mem[c].start = "starting" /\ mem'[c] = mem[c] /\ Stays(c)
<1>1. mem[c] \in Record /\ c \in Containers
  BY DictsThere DEF StartContainer
<1>2. Changed(mem[c], [mem[c] EXCEPT !.stop = FALSE, !.start = "starting"],
              mem[c].state, mem[c].rootfs, "starting", mem[c].proc)
  BY <1>1, ZenonT(60) DEF Changed, Record
<1>3. QED
  BY <1>1, <1>2, SetDict DEF StartContainer, NextStart, Starter, StarterT, RootfsT, Sets,
                             Only, Moves, Stays, memVars, threadVars, worldVars

(* A stop is requested.                                                    *)
LEMMA StopContainerDoes ==
  ASSUME MemT, StarterT, RootfsT, LoopT, Dicts,
         NEW c \in Containers, StopContainer(c) \/ RemoveContainer(c)
  PROVE  /\ Only(c) /\ rootfsThread'[c] = rootfsThread[c] /\ Stays(c)
         /\ Sets(c, mem[c].state, mem[c].rootfs, mem[c].start, mem[c].proc)
<1>1. mem[c] \in Record /\ c \in Containers
  BY DictsThere DEF StopContainer, RemoveContainer
<1>2. Changed(mem[c], [mem[c] EXCEPT !.stop = TRUE],
              mem[c].state, mem[c].rootfs, mem[c].start, mem[c].proc)
  BY <1>1 DEF Changed, Record
<1>3. QED
  BY <1>1, <1>2, SetDict DEF StopContainer, RemoveContainer, StarterT, RootfsT, Sets,
                             Only, Moves, Stays, memVars, threadVars, worldVars

(* A process that ended is noticed.                                        *)
LEMMA RefreshDoes ==
  ASSUME MemT, StarterT, RootfsT, LoopT, Dicts,
         NEW c \in Containers, RefreshContainerState(c)
  PROVE  /\ Only(c) /\ rootfsThread'[c] = rootfsThread[c] /\ Stays(c)
         /\ Sets(c, "exited", mem[c].rootfs, mem[c].start, mem[c].proc)
<1>1. mem[c] \in Record /\ c \in Containers
  BY DictsThere DEF RefreshContainerState
<1>2. /\ Changed(mem[c], [mem[c] EXCEPT !.state = "exited", !.code = 0],
                 "exited", mem[c].rootfs, mem[c].start, mem[c].proc)
      /\ Changed(mem[c], [mem[c] EXCEPT !.state = "exited", !.code = 1],
                 "exited", mem[c].rootfs, mem[c].start, mem[c].proc)
  BY <1>1, ZenonT(60) DEF Changed, Record
<1>3. QED
  BY <1>1, <1>2, SetDict DEF RefreshContainerState, StarterT, RootfsT, Sets, Only, Moves,
                             Stays, memVars, threadVars, worldVars

(* A stopped container has exited.                                         *)
LEMMA StopAnswerDoes ==
  ASSUME MemT, StarterT, RootfsT, LoopT, Dicts,
         StopAnswer
  PROVE  LET c == loop.cid IN
           /\ Only(c) /\ rootfsThread'[c] = rootfsThread[c] /\ Stays(c)
           /\ Sets(c, "exited", mem[c].rootfs, mem[c].start, mem[c].proc)
<1>1. mem[loop.cid] \in Record /\ loop.cid \in Containers
  BY DictsThere DEF StopAnswer
<1>2. Changed(mem[loop.cid], [mem[loop.cid] EXCEPT !.state = "exited", !.code = 0],
              "exited", mem[loop.cid].rootfs, mem[loop.cid].start, mem[loop.cid].proc)
  BY <1>1 DEF Changed, Record
<1>3. QED
  BY <1>1, <1>2, SetDict DEF StopAnswer, StarterT, RootfsT, Sets, Only, Moves, Stays,
                             memVars, threadVars, worldVars

(* A rootfs thread goes on, and says how the rootfs is when it is done.    *)
LEMMA RootfsStepDoes ==
  ASSUME MemT, StarterT, RootfsT, LoopT, Dicts,
         NEW c \in Containers, RootfsStep(c)
  PROVE  /\ Only(c) /\ Stays(c) /\ mem[c] \in Record /\ rootfsThread[c] \in Active \cup {"raised"}
         /\ \/ mem'[c] = mem[c] /\ rootfsThread'[c] \in {"unpack", "metadata"}
               /\ rootfsThread[c] \in Active
            \/ \E a \in {"ready", "fallback", "error"} :
                 /\ Sets(c, mem[c].state, a, mem[c].start, mem[c].proc)
                 /\ rootfsThread'[c] \in {"save", "errorSave"}
<1>1. mem[c] \in Record /\ c \in Containers
  BY DictsThere DEF RootfsStep, RootfsPull, RootfsUnpack, RootfsMetadata, RootfsRaised
<1>2. \A a \in {"ready", "fallback", "error"} :
        Changed(mem[c], [mem[c] EXCEPT !.rootfs = a],
                mem[c].state, a, mem[c].start, mem[c].proc)
  BY <1>1 DEF Changed, Record
<1>3. QED
  BY <1>1, <1>2, SetDict DEF RootfsStep, RootfsPull, RootfsUnpack, RootfsMetadata,
                             RootfsRaised, RootfsDone, RootfsError, Rootfs, Active,
                             StarterT, RootfsT, Sets, Only, Moves, Stays, memVars,
                             threadVars, worldVars

(* A start failed.                                                         *)
LEMMA StartErrorDoes ==
  ASSUME MemT, StarterT, RootfsT, LoopT, Dicts,
         NEW c \in Containers, NEW k \in Starts, mem[c] \in Record, StartError(c, k)
  PROVE  /\ Sets(c, "exited", mem[c].rootfs, "error", mem[c].proc) /\ Moves(c, k, "errorSave")
         /\ \A d \in Containers : d # c => mem'[d] = mem[d] /\ Stays(d)
<1>1. mem[c] \in Record /\ c \in Containers
  OBVIOUS
<1>2. Changed(mem[c], [mem[c] EXCEPT !.start = "error", !.state = "exited", !.code = 125],
              "exited", mem[c].rootfs, "error", mem[c].proc)
  BY <1>1, ZenonT(60) DEF Changed, Record
<1>3. QED
  BY <1>1, <1>2, SetDict DEF StartError, Starter, StarterT, RootfsT, Sets, Only, Moves,
                             Stays, memVars, threadVars, worldVars

(* A start waits for the rootfs, or has it prepared.                       *)
LEMMA StartRootfsDoes ==
  ASSUME MemT, StarterT, RootfsT, LoopT, Dicts,
         NEW c \in Containers, NEW k \in Starts, StartRootfs(c, k)
  PROVE  /\ Only(c) /\ starter[c][k] = "rootfs" /\ mem[c] \in Record
         /\ \/ /\ mem[c].rootfs = "none" /\ rootfsThread'[c] = "pull" /\ Stays(c)
               /\ Sets(c, mem[c].state, "preparing", mem[c].start, mem[c].proc)
            \/ /\ rootfsThread'[c] = rootfsThread[c]
               /\ Sets(c, "exited", mem[c].rootfs, "error", mem[c].proc) /\ Moves(c, k, "errorSave")
            \/ /\ rootfsThread'[c] = rootfsThread[c]
               /\ mem'[c] = mem[c]
               /\ \/ Moves(c, k, "spawn") /\ mem[c].rootfs \in {"ready", "fallback"}
                  \/ Moves(c, k, "bare")
<1>1. mem[c] \in Record /\ c \in Containers
  BY DictsThere DEF StartRootfs
<1>2. Changed(mem[c], [mem[c] EXCEPT !.rootfs = "preparing"],
              mem[c].state, "preparing", mem[c].start, mem[c].proc)
  BY <1>1 DEF Changed, Record
<1>3. QED
  BY <1>1, <1>2, SetDict, StartErrorDoes DEF StartRootfs, PrepareRootfs, Rootfs, Starter,
                                             StarterT, RootfsT, Sets, Only, Moves, Stays,
                                             memVars, threadVars, worldVars

(* A start finds the rootfs gone, and unpacks it.                          *)
LEMMA StartEnsureDoes ==
  ASSUME MemT, StarterT, RootfsT, LoopT, Dicts, RestT,
         NEW c \in Containers, NEW k \in Starts, StartEnsure(c, k) \/ StartUnpack(c, k)
  PROVE  /\ Only(c) /\ starter[c][k] \in {"rootfs", "unpack"}
         /\ rootfsThread'[c] = rootfsThread[c] /\ mem[c] \in Record
         /\ \/ /\ mem'[c] = mem[c]
               /\ \/ Moves(c, k, "bare") \/ (Moves(c, k, "unpack") /\ mem[c].rootfs = "ready")
                  \/ Moves(c, k, "spawn") /\ starter[c][k] = "unpack"
            \/ /\ Sets(c, "exited", mem[c].rootfs, "error", mem[c].proc)
               /\ Moves(c, k, "errorSave")
<1>1. mem[c] \in Record /\ c \in Containers
  BY DictsThere DEF StartEnsure, StartUnpack
<1>2. CASE StartEnsure(c, k)
  BY <1>1, <1>2, SetDict, StartErrorDoes
     DEF StartEnsure, Starter, RestT, StarterT, RootfsT, Sets, Only, Moves, Stays, memVars,
         threadVars, worldVars
<1>3. CASE StartUnpack(c, k)
  BY <1>1, <1>3, SetDict, StartErrorDoes
     DEF StartUnpack, Starter, RestT, StarterT, RootfsT, Sets, Only, Moves, Stays, memVars,
         threadVars, worldVars
<1>4. QED
  BY <1>2, <1>3

(* A start starts the process.                                             *)
LEMMA StartSpawnDoes ==
  ASSUME MemT, StarterT, RootfsT, LoopT, Dicts,
         NEW c \in Containers, NEW k \in Starts, StartSpawn(c, k)
  PROVE  /\ Only(c) /\ starter[c][k] \in {"spawn", "bare"}
         /\ rootfsThread'[c] = rootfsThread[c] /\ mem[c] \in Record
         /\ \/ /\ mem'[c] = mem[c] /\ Moves(c, k, "check")
               /\ procs' = [procs EXCEPT ![c][k] =
                              [at |-> IF OnHost(c, k) THEN "live" ELSE "forked",
                               host |-> OnHost(c, k), born |-> crashes]]
            \/ /\ UNCHANGED procs
               /\ Sets(c, "exited", mem[c].rootfs, "error", mem[c].proc) /\ Moves(c, k, "errorSave")
<1>1. mem[c] \in Record /\ c \in Containers
  BY DictsThere DEF StartSpawn
<1>2. QED
  BY <1>1, SetDict, StartErrorDoes DEF StartSpawn, Starter, StarterT, RootfsT, Sets, Only,
                                       Moves, Stays, memVars, threadVars, worldVars

(* A start sees whether it was to stop.                                    *)
LEMMA StartCheckDoes ==
  ASSUME MemT, StarterT, RootfsT, LoopT, Dicts,
         NEW c \in Containers, NEW k \in Starts, StartCheck(c, k)
  PROVE  /\ Only(c) /\ starter[c][k] = "check" /\ rootfsThread'[c] = rootfsThread[c]
         /\ mem'[c] = mem[c] /\ \E a \in {"stopping", "assign"} : Moves(c, k, a)
<1>1. mem[c] \in Record /\ c \in Containers
  BY DictsThere DEF StartCheck
<1>2. QED
  BY <1>1, SetDict DEF StartCheck, Starter, StarterT, RootfsT, Sets, Only, Moves, Stays,
                       memVars, threadVars, worldVars

(* A start puts the process where the others find it.                      *)
LEMMA StartRunningDoes ==
  ASSUME MemT, StarterT, RootfsT, LoopT, Dicts,
         NEW c \in Containers, NEW k \in Starts, StartRunning(c, k)
  PROVE  /\ Only(c) /\ starter[c][k] = "assign" /\ rootfsThread'[c] = rootfsThread[c]
         /\ Sets(c, "running", mem[c].rootfs, "running", k) /\ Moves(c, k, "save")
<1>1. mem[c] \in Record /\ c \in Containers
  BY DictsThere DEF StartRunning
<1>2. Changed(mem[c], [mem[c] EXCEPT !.proc = k, !.state = "running", !.start = "running"],
              "running", mem[c].rootfs, "running", k)
  BY <1>1, ZenonT(60) DEF Changed, Record
<1>3. QED
  BY <1>1, <1>2, SetDict DEF StartRunning, Starter, StarterT, RootfsT, Sets, Only, Moves,
                             Stays, memVars, threadVars, worldVars

(* A start stopped the process itself.                                     *)
LEMMA StartStoppedDoes ==
  ASSUME MemT, StarterT, RootfsT, LoopT, Dicts,
         NEW c \in Containers, NEW k \in Starts, StartStopped(c, k)
  PROVE  /\ Only(c) /\ starter[c][k] = "stopping" /\ rootfsThread'[c] = rootfsThread[c]
         /\ Ended(procs[c][k])
         /\ Sets(c, "exited", mem[c].rootfs, "stopped", mem[c].proc) /\ Moves(c, k, "save")
<1>1. mem[c] \in Record /\ c \in Containers
  BY DictsThere DEF StartStopped
<1>2. Changed(mem[c], [mem[c] EXCEPT !.state = "exited", !.start = "stopped"],
              "exited", mem[c].rootfs, "stopped", mem[c].proc)
  BY <1>1 DEF Changed, Record
<1>3. QED
  BY <1>1, <1>2, SetDict DEF StartStopped, Starter, StarterT, RootfsT, Sets, Only, Moves,
                             Stays, memVars, threadVars, worldVars

(* A start could not save that it succeeded.                               *)
LEMMA StartRaisedDoes ==
  ASSUME MemT, StarterT, RootfsT, LoopT, Dicts,
         NEW c \in Containers, NEW k \in Starts, StartRaised(c, k)
  PROVE  /\ Only(c) /\ starter[c][k] = "raised" /\ rootfsThread'[c] = rootfsThread[c]
         /\ Sets(c, "exited", mem[c].rootfs, "error", mem[c].proc) /\ Moves(c, k, "errorSave")
         /\ overruled' = IF mem[c].start = "starting" THEN overruled \cup {c} ELSE overruled
<1>1. mem[c] \in Record /\ c \in Containers
  BY DictsThere DEF StartRaised
<1>2. QED
  BY <1>1, SetDict, StartErrorDoes DEF StartRaised, StarterT, RootfsT, Sets, Only, Moves,
                                       Stays, memVars, threadVars, worldVars

(* The loop that saved a new container has its rootfs prepared.            *)
LEMMA PreparesDoes ==
  ASSUME MemT, StarterT, RootfsT, LoopT, Dicts, NEW c \in Containers, Prepares(c)
  PROVE  /\ Sets(c, mem[c].state, "preparing", mem[c].start, mem[c].proc)
         /\ rootfsThread'[c] = "pull"
         /\ \A d \in Containers : d # c => mem'[d] = mem[d] /\ rootfsThread'[d] = rootfsThread[d]
<1>1. mem[c] \in Record
  BY DictsThere DEF Prepares
<1>2. /\ mem'[c] = [mem[c] EXCEPT !.rootfs = "preparing"]
      /\ \A d \in Containers : d # c => mem'[d] = mem[d]
  BY <1>1 DEF Prepares, MemT
<1>3. QED
  BY <1>1, <1>2 DEF Prepares, Sets, Changed, Record, RootfsT

(* What a daemon loads are the containers of the file; none is starting.   *)
LEMMA RestartDoes ==
  ASSUME MemT, ListsT, Lists, Restart, NEW c \in Containers
  PROVE  \/ ~Holds(disk.keys, c) /\ mem'[c] = NoContainer
         \/ \E i \in DOMAIN disk.keys :
              /\ i \in DOMAIN disk.conts /\ disk.keys[i] = c /\ disk.conts[i] \in SavedRecord
              /\ mem'[c] = FromState(disk.conts[i]) /\ mem'[c] \in Record
              /\ mem'[c].state # "running" /\ mem'[c].start # "starting" /\ mem'[c].proc = 0
              /\ mem'[c].rootfs = disk.conts[i].rootfs /\ mem'[c].rootfs # "preparing"
<1>1. CASE ~Holds(disk.keys, c)
  BY <1>1 DEF Restart, Holds
<1>2. CASE Holds(disk.keys, c)
  <2>1. PICK i \in DOMAIN disk.keys :
          /\ disk.keys[i] = c /\ i = CHOOSE k \in DOMAIN disk.keys : disk.keys[k] = c
    BY <1>2 DEF Holds
  <2>2. i \in DOMAIN disk.conts /\ disk.conts[i] \in SavedRecord
    BY <2>1 DEF ListsT, Snapshot, Lists
  <2>3. mem'[c] = FromState(disk.conts[i])
    BY <1>2, <2>1, <2>2 DEF Restart, Holds
  <2>4. QED
    BY <2>1, <2>2, <2>3, RecordTypes
<1>3. QED
  BY <1>1, <1>2

(* Every step keeps the invariant of the rootfs threads.                   *)
LEMMA PreparingStep ==
  ASSUME MemT, ProcsT, StarterT, RootfsT, LoopT, SavingT, ListsT, RestT, Lists, Dicts,
         Down, Saver, Preparing, NEW d \in Containers, [Next]_vars
  PROVE  PreparingOf(d)'
<1> USE DEF PreparingOf, Active, Known, Idle, Free, memVars, threadVars, worldVars
<1>1. /\ PreparingOf(d) /\ (rootfsThread[d] # "none" => Known(d))
      /\ \A k \in Starts : starter[d][k] \notin {"none", "done"} => Known(d)
      /\ \A r \in Record : r # NoContainer
  BY NoDict DEF Preparing, Dicts
<1>2. ASSUME NEW s \in Sandboxes, RunPodSandbox(s) PROVE PreparingOf(d)'
  BY <1>2, <1>1 DEF RunPodSandbox
<1>3. ASSUME NEW s \in Sandboxes, StopPodSandbox(s) PROVE PreparingOf(d)'
  BY <1>3, <1>1, StopPodSandboxDoes DEF StopPodSandbox, Then, Sets, Changed, Only, Moves, Stays
<1>4. ASSUME NEW s \in Sandboxes, RemovePodSandbox(s) PROVE PreparingOf(d)'
  BY <1>4, <1>1 DEF RemovePodSandbox
<1>5. CASE InsertPod
  BY <1>5, <1>1 DEF InsertPod, Then
<1>6. CASE ReleasePodNetwork
  BY <1>6, <1>1 DEF ReleasePodNetwork, Then
<1>7. ASSUME NEW c \in Containers, NEW s \in Sandboxes, CreateContainer(c, s)
      PROVE  PreparingOf(d)'
  BY <1>7, <1>1, CreateContainerDoes DEF CreateContainer, NewContainer, ThenFor, Sets, Changed,
                                 Only, Moves, Stays
<1>8. ASSUME NEW c \in Containers, StartContainer(c) PROVE PreparingOf(d)'
  BY <1>8, <1>1, StartContainerDoes, ZenonT(60)
     DEF StartContainer, ThenFor, Sets, Changed, Only, Moves, Stays
<1>9. ASSUME NEW c \in Containers, StopContainer(c) PROVE PreparingOf(d)'
  BY <1>9, <1>1, StopContainerDoes
     DEF StopContainer, ThenWait, Sets, Changed, Only, Moves, Stays
<1>10. ASSUME NEW c \in Containers, RemoveContainer(c) PROVE PreparingOf(d)'
  BY <1>10, <1>1, StopContainerDoes
     DEF RemoveContainer, ThenWait, Sets, Changed, Only, Moves, Stays
<1>11. ASSUME NEW c \in Containers, RefreshContainerState(c) PROVE PreparingOf(d)'
  <2>1. /\ rootfsThread'[d] = rootfsThread[d] /\ (Known(d)' <=> Known(d))
        /\ Known(d) => mem'[d].rootfs = mem[d].rootfs
        /\ (\A j \in Starts : starter[d][j] = "none") => \A j \in Starts : starter'[d][j] = "none"
        /\ \A j \in Starts : starter'[d][j] \in {"unpack", "spawn"} => starter'[d][j] = starter[d][j]
    <3>1. CASE d = c
      BY <1>11, <1>1, <3>1, RefreshDoes DEF Sets, Changed, Moves, Stays
    <3>2. CASE d # c
      BY <1>11, <1>1, <3>2, RefreshDoes DEF Only
    <3>3. QED
      BY <3>1, <3>2
  <2>2. UNCHANGED daemon /\ (loop'.op = "createSave" => loop' = loop)
    BY <1>11, <1>1 DEF RefreshContainerState, Then
  <2>3. QED
    BY <1>11, <1>1, <2>1, <2>2
<1>12. CASE StartAnswer
  BY <1>12, <1>1 DEF StartAnswer
<1>13. CASE StopKill
  BY <1>13, <1>1 DEF StopKill
<1>14. CASE StopAnswer
  BY <1>14, <1>1, StopAnswerDoes DEF StopAnswer, Then, Sets, Changed, Only, Moves, Stays
<1>15. CASE RemoveDelete
  BY <1>15, <1>1, RemoveDeleteDoes DEF RemoveDelete
<1>16. CASE RemoveFinish
  BY <1>16, <1>1 DEF RemoveFinish, Then
<1>17. ASSUME NEW c \in Containers, RootfsPull(c) PROVE PreparingOf(d)'
  BY <1>17, <1>1, RootfsStepDoes DEF RootfsPull, RootfsStep, Sets, Changed, Only, Moves, Stays
<1>18. ASSUME NEW c \in Containers, RootfsUnpack(c) PROVE PreparingOf(d)'
  BY <1>18, <1>1, RootfsStepDoes, ZenonT(60)
     DEF RootfsUnpack, RootfsStep, Sets, Changed, Only, Moves, Stays
<1>19. ASSUME NEW c \in Containers, RootfsMetadata(c) PROVE PreparingOf(d)'
  BY <1>19, <1>1, RootfsStepDoes
     DEF RootfsMetadata, RootfsStep, Sets, Changed, Only, Moves, Stays
<1>20. ASSUME NEW c \in Containers, RootfsRaised(c) PROVE PreparingOf(d)'
  BY <1>20, <1>1, RootfsStepDoes
     DEF RootfsRaised, RootfsStep, Sets, Changed, Only, Moves, Stays
<1>21. ASSUME NEW c \in Containers, NEW k \in Starts, StartRootfs(c, k)
      PROVE  PreparingOf(d)'
  BY <1>21, <1>1, StartRootfsDoes DEF StartRootfs, Sets, Changed, Only, Moves, Stays
<1>22. ASSUME NEW c \in Containers, NEW k \in Starts, StartEnsure(c, k) \/ StartUnpack(c, k)
      PROVE  PreparingOf(d)'
  BY <1>22, <1>1, StartEnsureDoes DEF StartEnsure, StartUnpack, Sets, Changed, Only, Moves, Stays
<1>23. ASSUME NEW c \in Containers, NEW k \in Starts, StartSpawn(c, k)
      PROVE  PreparingOf(d)'
  BY <1>23, <1>1, StartSpawnDoes DEF StartSpawn, Sets, Changed, Only, Moves, Stays
<1>24. ASSUME NEW c \in Containers, NEW k \in Starts, StartCheck(c, k)
      PROVE  PreparingOf(d)'
  <2>1. UNCHANGED <<mem, loop, rootfsThread, daemon>>
    BY <1>24 DEF StartCheck
  <2>2. \A j \in Starts :
          \/ starter'[d][j] = starter[d][j]
          \/ starter[d][j] = "check" /\ starter'[d][j] \in {"assign", "stopping"}
    <3>1. Only(c) /\ (Moves(c, k, "assign") \/ Moves(c, k, "stopping")) /\ starter[c][k] = "check"
      BY <1>24, StartCheckDoes DEF StartCheck
    <3>2. QED
      BY <3>1 DEF Only, Moves
  <2>3. QED
    BY <1>1, <2>1, <2>2
<1>25. ASSUME NEW c \in Containers, NEW k \in Starts, StartRunning(c, k)
      PROVE  PreparingOf(d)'
  <2>1. /\ rootfsThread'[d] = rootfsThread[d] /\ (Known(d)' <=> Known(d))
        /\ Known(d) => mem'[d].rootfs = mem[d].rootfs
        /\ (\A j \in Starts : starter[d][j] = "none") => \A j \in Starts : starter'[d][j] = "none"
        /\ \A j \in Starts : starter'[d][j] \in {"unpack", "spawn"} => starter'[d][j] = starter[d][j]
    <3>1. CASE d = c
      BY <1>25, <1>1, <3>1, StartRunningDoes DEF Sets, Changed, Moves, Stays
    <3>2. CASE d # c
      BY <1>25, <1>1, <3>2, StartRunningDoes DEF Only
    <3>3. QED
      BY <3>1, <3>2
  <2>2. UNCHANGED daemon /\ (loop'.op = "createSave" => loop' = loop)
    BY <1>25, <1>1 DEF StartRunning, Then
  <2>3. QED
    BY <1>25, <1>1, <2>1, <2>2
<1>26. ASSUME NEW c \in Containers, NEW k \in Starts, StartKill(c, k)
      PROVE  PreparingOf(d)'
  BY <1>26, <1>1 DEF StartKill
<1>27. ASSUME NEW c \in Containers, NEW k \in Starts, StartStopped(c, k)
      PROVE  PreparingOf(d)'
  <2>1. /\ rootfsThread'[d] = rootfsThread[d] /\ (Known(d)' <=> Known(d))
        /\ Known(d) => mem'[d].rootfs = mem[d].rootfs
        /\ (\A j \in Starts : starter[d][j] = "none") => \A j \in Starts : starter'[d][j] = "none"
        /\ \A j \in Starts : starter'[d][j] \in {"unpack", "spawn"} => starter'[d][j] = starter[d][j]
    <3>1. CASE d = c
      BY <1>27, <1>1, <3>1, StartStoppedDoes DEF Sets, Changed, Moves, Stays
    <3>2. CASE d # c
      BY <1>27, <1>1, <3>2, StartStoppedDoes DEF Only
    <3>3. QED
      BY <3>1, <3>2
  <2>2. UNCHANGED daemon /\ (loop'.op = "createSave" => loop' = loop)
    BY <1>27, <1>1 DEF StartStopped, Then
  <2>3. QED
    BY <1>27, <1>1, <2>1, <2>2
<1>28. ASSUME NEW c \in Containers, NEW k \in Starts, StartRaised(c, k)
      PROVE  PreparingOf(d)'
  BY <1>28, <1>1, StartRaisedDoes DEF StartRaised, Sets, Changed, Only, Moves, Stays
<1>29. ASSUME NEW c \in Containers, NEW k \in Starts, SetSid(c, k) PROVE PreparingOf(d)'
  BY <1>29, <1>1 DEF SetSid
<1>30. ASSUME NEW c \in Containers, NEW k \in Starts, Exit(c, k) PROVE PreparingOf(d)'
  BY <1>30, <1>1 DEF Exit
<1>31. ASSUME NEW by \in Savers, SaveBegin(by) PROVE PreparingOf(d)'
  BY <1>31, <1>1 DEF SaveBegin
<1>32. CASE SavePods
  BY <1>32, <1>1 DEF SavePods
<1>33. CASE SaveNext
  BY <1>33, <1>1 DEF SaveNext
<1>34. CASE SaveCommit
  <2>1. UNCHANGED <<daemon, crashes>>
    BY <1>34, <1>1 DEF SaveCommit, SaveRaise
  <2>2. \/ /\ mem'[d] = mem[d]
           /\ \/ rootfsThread'[d] = rootfsThread[d]
              \/ rootfsThread[d] \notin Active /\ rootfsThread'[d] \notin Active
                 /\ rootfsThread[d] # "none"
        \/ /\ mem'[d].rootfs = "preparing" /\ rootfsThread'[d] = "pull" /\ loop' = Idle
           /\ mem[d].rootfs = "none"
    BY <1>34, <1>1, SaveEnds, PreparesDoes DEF Prepares, Sets, Changed
  <2>3. loop'.op = "createSave" => loop' = loop
    BY <1>34, <1>1, SaveEnds DEF Idle
  <2>4. \A k \in Starts :
          /\ starter[d][k] = "none" => starter'[d][k] = "none"
          /\ starter'[d][k] \in {"unpack", "spawn"} => starter'[d][k] = starter[d][k]
    BY <1>34, <1>1, SaveEnds
  <2>5. QED
    BY <1>34, <1>1, <2>1, <2>2, <2>3, <2>4
<1>35. CASE SaveRaise
  <2>1. UNCHANGED <<daemon, crashes>>
    BY <1>35, <1>1 DEF SaveCommit, SaveRaise
  <2>2. \/ /\ mem'[d] = mem[d]
           /\ \/ rootfsThread'[d] = rootfsThread[d]
              \/ rootfsThread[d] \notin Active /\ rootfsThread'[d] \notin Active
                 /\ rootfsThread[d] # "none"
        \/ /\ mem'[d].rootfs = "preparing" /\ rootfsThread'[d] = "pull" /\ loop' = Idle
           /\ mem[d].rootfs = "none"
    BY <1>35, <1>1, SaveEnds, PreparesDoes DEF Prepares, Sets, Changed
  <2>3. loop'.op = "createSave" => loop' = loop
    BY <1>35, <1>1, SaveEnds DEF Idle
  <2>4. \A k \in Starts :
          /\ starter[d][k] = "none" => starter'[d][k] = "none"
          /\ starter'[d][k] \in {"unpack", "spawn"} => starter'[d][k] = starter[d][k]
    BY <1>35, <1>1, SaveEnds
  <2>5. QED
    BY <1>35, <1>1, <2>1, <2>2, <2>3, <2>4
<1>36. CASE Crash
  BY <1>36, <1>1 DEF Crash
<1>37. CASE Restart
  <2>1. rootfsThread'[d] = "none" /\ loop' = Idle
    BY <1>37, <1>1 DEF Restart, Down
  <2>2. Known(d)' => mem'[d].rootfs # "preparing"
    BY <1>37, <1>1, RestartDoes
  <2>3. \A k \in Starts : starter'[d][k] \in {"none", "done"}
    BY <1>37, <1>1 DEF Restart, Down
  <2>4. QED
    BY <2>1, <2>2, <2>3
<1>38. CASE UNCHANGED vars
  BY <1>38, <1>1 DEF vars
<1>39. QED
  BY <1>2, <1>3, <1>4, <1>5, <1>6, <1>7, <1>8, <1>9, <1>10, <1>11, <1>12, <1>13, <1>14,
     <1>15, <1>16, <1>17, <1>18, <1>19, <1>20, <1>21, <1>22, <1>23, <1>24, <1>25, <1>26, <1>27,
     <1>28, <1>29, <1>30, <1>31, <1>32, <1>33, <1>34, <1>35, <1>36, <1>37, <1>38
   DEF Next, PodStep, LoopStep, SaveStep, ContainerStep, RootfsStep, StarterStep

(* A save is at its end when the one that saves goes on.                   *)
Waits(by) ==
  \/ by = <<"loop">> /\ loop.op \in {"save", "createSave"}
  \/ \E c \in Containers :
       by = <<"rootfs", c>> /\ rootfsThread[c] \in {"save", "errorSave"}
  \/ \E c \in Containers, k \in Starts :
       by = <<"start", c, k>> /\ starter[c][k] \in {"save", "errorSave"}

(* AtSave, by the kind of the one who saves.                               *)
LEMMA WaitsAtSave ==
  ASSUME NEW by \in Savers
  PROVE  (AtSave(by) <=> Waits(by)) /\ (AtSave(by)' <=> Waits(by)')
<1>1. CASE by = <<"loop">>
  BY <1>1 DEF AtSave, Waits
<1>2. CASE \E c \in Containers : by = <<"rootfs", c>>
  BY <1>2 DEF AtSave, Waits
<1>3. CASE \E c \in Containers, k \in Starts : by = <<"start", c, k>>
  BY <1>3 DEF AtSave, Waits
<1>4. QED
  BY <1>1, <1>2, <1>3, SaverTypes

(* A step that ends no save leaves those alone that are at one.            *)
StayAtSave(c, k) == saving' # NoSave =>
  /\ rootfsThread[c] \in {"save", "errorSave"} => rootfsThread'[c] = rootfsThread[c]
  /\ starter[c][k] \in {"save", "errorSave"} => starter'[c][k] = starter[c][k]

LoopAtSave ==
  saving' # NoSave /\ loop.op \in {"save", "createSave"} => loop' = loop

SavingGoesOn ==
  \/ saving' = NoSave
  \/ saving = NoSave /\ AtSave(saving.by)'
  \/ saving # NoSave /\ saving'.by = saving.by

(* A thread that is at its save stays there until its save ends.           *)
LEMMA SavesStay ==
  ASSUME MemT, ProcsT, StarterT, RootfsT, LoopT, SavingT, ListsT, RestT, Dicts, Preparing,
         NEW d \in Containers, NEW j \in Starts, [Next]_vars
  PROVE  StayAtSave(d, j)
<1> USE DEF StayAtSave, Free, Idle, memVars, threadVars, worldVars
<1>1. ASSUME NEW s \in Sandboxes, StopPodSandbox(s) PROVE StayAtSave(d, j)
  BY <1>1 DEF StopPodSandbox
<1>2. ASSUME NEW s \in Sandboxes,
             RunPodSandbox(s) \/ RemovePodSandbox(s)
      PROVE  StayAtSave(d, j)
  BY <1>2 DEF RunPodSandbox, RemovePodSandbox
<1>3. CASE InsertPod \/ ReleasePodNetwork
  BY <1>3 DEF InsertPod, Then, ReleasePodNetwork
<1>4. ASSUME NEW c \in Containers, NEW s \in Sandboxes, CreateContainer(c, s)
      PROVE  StayAtSave(d, j)
  BY <1>4, CreateContainerDoes DEF CreateContainer, NewContainer, ThenFor, Sets, Changed,
                                 Only, Moves, Stays
<1>5. ASSUME NEW c \in Containers, StartContainer(c) PROVE StayAtSave(d, j)
  <2>1. CASE d = c
    BY <1>5, <2>1, StartContainerDoes DEF Sets, Changed, Only, Moves, Stays, Active
  <2>2. CASE d # c
    BY <1>5, <2>2, StartContainerDoes DEF Only
  <2>3. QED
    BY <2>1, <2>2
<1>6. ASSUME NEW c \in Containers, StopContainer(c) PROVE StayAtSave(d, j)
  BY <1>6 DEF StopContainer
<1>7. ASSUME NEW c \in Containers, RemoveContainer(c) PROVE StayAtSave(d, j)
  BY <1>7 DEF RemoveContainer
<1>8. ASSUME NEW c \in Containers, RefreshContainerState(c) PROVE StayAtSave(d, j)
  BY <1>8 DEF RefreshContainerState
<1>9. CASE StopAnswer
  BY <1>9 DEF StopAnswer
<1>10. CASE StartAnswer \/ StopKill \/ RemoveDelete \/ RemoveFinish
  BY <1>10 DEF StartAnswer, StopKill, RemoveDelete, RemoveFinish, Then
<1>11. ASSUME NEW c \in Containers, RootfsPull(c) PROVE StayAtSave(d, j)
  <2>1. CASE d = c
    BY <1>11, <2>1, RootfsStepDoes DEF Sets, Changed, Only, Moves, Stays, Active, RootfsStep
  <2>2. CASE d # c
    BY <1>11, <2>2, RootfsStepDoes DEF Only, RootfsStep
  <2>3. QED
    BY <2>1, <2>2
<1>12. ASSUME NEW c \in Containers, RootfsUnpack(c) PROVE StayAtSave(d, j)
  <2>1. CASE d = c
    BY <1>12, <2>1, RootfsStepDoes DEF Sets, Changed, Only, Moves, Stays, Active, RootfsStep
  <2>2. CASE d # c
    BY <1>12, <2>2, RootfsStepDoes DEF Only, RootfsStep
  <2>3. QED
    BY <2>1, <2>2
<1>13. ASSUME NEW c \in Containers, RootfsMetadata(c) PROVE StayAtSave(d, j)
  <2>1. CASE d = c
    BY <1>13, <2>1, RootfsStepDoes DEF Sets, Changed, Only, Moves, Stays, Active, RootfsStep
  <2>2. CASE d # c
    BY <1>13, <2>2, RootfsStepDoes DEF Only, RootfsStep
  <2>3. QED
    BY <2>1, <2>2
<1>14. ASSUME NEW c \in Containers, RootfsRaised(c) PROVE StayAtSave(d, j)
  <2>1. CASE d = c
    BY <1>14, <2>1, RootfsStepDoes DEF Sets, Changed, Only, Moves, Stays, Active, RootfsStep
  <2>2. CASE d # c
    BY <1>14, <2>2, RootfsStepDoes DEF Only, RootfsStep
  <2>3. QED
    BY <2>1, <2>2
<1>15. ASSUME NEW c \in Containers, NEW k \in Starts, StartRootfs(c, k)
      PROVE  StayAtSave(d, j)
  <2>1. CASE d = c
    <3>1. Known(c) /\ mem[c].rootfs = "none" => rootfsThread[c] = "none"
      BY DEF Preparing, PreparingOf
    <3>2. Known(c)
      BY <1>15 DEF StartRootfs, Dicts
    <3>3. QED
        BY <1>15, <3>1, <3>2, <2>1, StartRootfsDoes
           DEF Sets, Changed, Only, Moves, Stays, Active
  <2>2. CASE d # c
    BY <1>15, <2>2, StartRootfsDoes DEF Only
  <2>3. QED
    BY <2>1, <2>2
<1>16. ASSUME NEW c \in Containers, NEW k \in Starts, StartEnsure(c, k) \/ StartUnpack(c, k)
      PROVE  StayAtSave(d, j)
  <2>1. CASE d = c
    BY <1>16, <2>1, StartEnsureDoes DEF Sets, Changed, Only, Moves, Stays, Active
  <2>2. CASE d # c
    BY <1>16, <2>2, StartEnsureDoes DEF Only
  <2>3. QED
    BY <2>1, <2>2
<1>17. ASSUME NEW c \in Containers, NEW k \in Starts, StartSpawn(c, k)
      PROVE  StayAtSave(d, j)
  <2>1. CASE d = c
    BY <1>17, <2>1, StartSpawnDoes DEF Sets, Changed, Only, Moves, Stays, Active
  <2>2. CASE d # c
    BY <1>17, <2>2, StartSpawnDoes DEF Only
  <2>3. QED
    BY <2>1, <2>2
<1>18. ASSUME NEW c \in Containers, NEW k \in Starts, StartCheck(c, k)
      PROVE  StayAtSave(d, j)
  <2>1. CASE d = c
    BY <1>18, <2>1, StartCheckDoes DEF Sets, Changed, Only, Moves, Stays, Active
  <2>2. CASE d # c
    BY <1>18, <2>2, StartCheckDoes DEF Only
  <2>3. QED
    BY <2>1, <2>2
<1>19. ASSUME NEW c \in Containers, NEW k \in Starts, StartRunning(c, k)
      PROVE  StayAtSave(d, j)
  <2>1. CASE d = c
    BY <1>19, <2>1, StartRunningDoes DEF Sets, Changed, Only, Moves, Stays, Active
  <2>2. CASE d # c
    BY <1>19, <2>2, StartRunningDoes DEF Only
  <2>3. QED
    BY <2>1, <2>2
<1>20. ASSUME NEW c \in Containers, NEW k \in Starts, StartStopped(c, k)
      PROVE  StayAtSave(d, j)
  <2>1. CASE d = c
    BY <1>20, <2>1, StartStoppedDoes DEF Sets, Changed, Only, Moves, Stays, Active
  <2>2. CASE d # c
    BY <1>20, <2>2, StartStoppedDoes DEF Only
  <2>3. QED
    BY <2>1, <2>2
<1>21. ASSUME NEW c \in Containers, NEW k \in Starts, StartRaised(c, k)
      PROVE  StayAtSave(d, j)
  <2>1. CASE d = c
    BY <1>21, <2>1, StartRaisedDoes DEF Sets, Changed, Only, Moves, Stays, Active
  <2>2. CASE d # c
    BY <1>21, <2>2, StartRaisedDoes DEF Only
  <2>3. QED
    BY <2>1, <2>2
<1>22. ASSUME NEW c \in Containers, NEW k \in Starts,
              StartKill(c, k) \/ SetSid(c, k) \/ Exit(c, k)
       PROVE  StayAtSave(d, j)
  BY <1>22 DEF StartKill, SetSid, Exit
<1>23. ASSUME NEW by \in Savers, SaveBegin(by) PROVE StayAtSave(d, j)
  BY <1>23 DEF SaveBegin
<1>24. CASE SaveCommit
  BY <1>24 DEF SaveCommit, SaveRaise
<1>25. CASE SaveRaise
  BY <1>25 DEF SaveCommit, SaveRaise
<1>26. CASE SavePods \/ SaveNext
  BY <1>26 DEF SavePods, SaveNext
<1>27. CASE Crash
  BY <1>27 DEF Crash
<1>28. CASE Restart
  BY <1>28 DEF Restart
<1>29. CASE UNCHANGED vars
  BY <1>29 DEF vars
<1>30. QED
  BY <1>1, <1>2, <1>3, <1>4, <1>5, <1>6, <1>7, <1>8, <1>9, <1>10, <1>11, <1>12, <1>13,
     <1>14, <1>15, <1>16, <1>17, <1>18, <1>19, <1>20, <1>21, <1>22, <1>23, <1>24, <1>25,
     <1>26, <1>27, <1>28, <1>29
   DEF Next, PodStep, LoopStep, SaveStep, ContainerStep, RootfsStep, StarterStep

(* So does the loop.                                                       *)
LEMMA LoopSaves ==
  ASSUME LoopT, [Next]_vars
  PROVE  LoopAtSave
<1> USE DEF LoopAtSave, Free, Idle, memVars, threadVars, worldVars
<1>1. ASSUME NEW s \in Sandboxes,
             RunPodSandbox(s) \/ StopPodSandbox(s) \/ RemovePodSandbox(s)
      PROVE  LoopAtSave
  BY <1>1 DEF RunPodSandbox, StopPodSandbox, Then, RemovePodSandbox
<1>2. CASE InsertPod \/ ReleasePodNetwork
  BY <1>2 DEF InsertPod, Then, ReleasePodNetwork
<1>3. ASSUME NEW c \in Containers, NEW s \in Sandboxes,
             CreateContainer(c, s)
      PROVE  LoopAtSave
  BY <1>3 DEF CreateContainer, NewContainer, Set, ThenFor
<1>4. ASSUME NEW c \in Containers,
             StartContainer(c) \/ StopContainer(c) \/ RemoveContainer(c)
             \/ RefreshContainerState(c)
      PROVE  LoopAtSave
  BY <1>4 DEF StartContainer, Set, Starter, ThenFor, NextStart, StopContainer, ThenWait,
              RemoveContainer, RefreshContainerState, Then
<1>5. CASE StartAnswer \/ StopKill \/ StopAnswer \/ RemoveDelete \/ RemoveFinish
  BY <1>5 DEF StartAnswer, StopKill, StopAnswer, Set, Then, RemoveDelete, RemoveFinish
<1>6. ASSUME NEW c \in Containers,
             RootfsPull(c) \/ RootfsUnpack(c) \/ RootfsMetadata(c) \/ RootfsRaised(c)
      PROVE  LoopAtSave
  BY <1>6 DEF RootfsPull, RootfsDone, RootfsError, Rootfs, Set, RootfsUnpack,
              RootfsMetadata, RootfsRaised
<1>7. ASSUME NEW c \in Containers, NEW k \in Starts, StartRootfs(c, k) PROVE LoopAtSave
  BY <1>7 DEF StartRootfs, PrepareRootfs, StartError, Rootfs, Starter, Set
<1>8. ASSUME NEW c \in Containers, NEW k \in Starts, StartEnsure(c, k) \/ StartUnpack(c, k) PROVE LoopAtSave
  BY <1>8 DEF StartEnsure, StartUnpack, StartError, Starter, Set
<1>9. ASSUME NEW c \in Containers, NEW k \in Starts, StartSpawn(c, k) PROVE LoopAtSave
  BY <1>9 DEF StartSpawn, StartError, Starter, Set
<1>10. ASSUME NEW c \in Containers, NEW k \in Starts,
              StartCheck(c, k) \/ StartRunning(c, k) \/ StartKill(c, k)
              \/ StartStopped(c, k) \/ StartRaised(c, k) \/ SetSid(c, k) \/ Exit(c, k)
       PROVE  LoopAtSave
  BY <1>10 DEF StartCheck, Starter, StartRunning, Set, StartKill, StartStopped,
               StartRaised, StartError, SetSid, Exit
<1>11. ASSUME NEW by \in Savers, SaveBegin(by) PROVE LoopAtSave
  BY <1>11 DEF SaveBegin
<1>12. CASE SaveCommit
  BY <1>12 DEF SaveCommit
<1>13. CASE SaveRaise
  BY <1>13 DEF SaveRaise
<1>14. CASE SavePods \/ SaveNext
  BY <1>14 DEF SavePods, SaveNext
<1>15. CASE Crash
  BY <1>15 DEF Crash
<1>16. CASE Restart
  BY <1>16 DEF Restart
<1>17. CASE UNCHANGED vars
  BY <1>17 DEF vars
<1>18. QED
  BY <1>1, <1>2, <1>3, <1>4, <1>5, <1>6, <1>7, <1>8, <1>9, <1>10, <1>11, <1>12, <1>13,
     <1>14, <1>15, <1>16, <1>17
   DEF Next, PodStep, LoopStep, SaveStep, ContainerStep, RootfsStep, StarterStep

(* A save that goes on is that of the same saver.                          *)
LEMMA SavingSteps ==
  ASSUME SavingT, Down, [Next]_vars
  PROVE  SavingGoesOn
<1> USE DEF SavingGoesOn, memVars, threadVars, worldVars
<1>1. ASSUME NEW s \in Sandboxes,
             RunPodSandbox(s) \/ StopPodSandbox(s) \/ RemovePodSandbox(s)
      PROVE  SavingGoesOn
  BY <1>1 DEF RunPodSandbox, StopPodSandbox, Then, RemovePodSandbox
<1>2. CASE InsertPod \/ ReleasePodNetwork
  BY <1>2 DEF InsertPod, Then, ReleasePodNetwork
<1>3. ASSUME NEW c \in Containers, NEW s \in Sandboxes,
             CreateContainer(c, s)
      PROVE  SavingGoesOn
  BY <1>3 DEF CreateContainer, NewContainer, Set, ThenFor
<1>4. ASSUME NEW c \in Containers,
             StartContainer(c) \/ StopContainer(c) \/ RemoveContainer(c)
             \/ RefreshContainerState(c)
      PROVE  SavingGoesOn
  BY <1>4 DEF StartContainer, Set, Starter, ThenFor, NextStart, StopContainer, ThenWait,
              RemoveContainer, RefreshContainerState, Then
<1>5. CASE StartAnswer \/ StopKill \/ StopAnswer \/ RemoveDelete \/ RemoveFinish
  BY <1>5 DEF StartAnswer, StopKill, StopAnswer, Set, Then, RemoveDelete, RemoveFinish
<1>6. ASSUME NEW c \in Containers,
             RootfsPull(c) \/ RootfsUnpack(c) \/ RootfsMetadata(c) \/ RootfsRaised(c)
      PROVE  SavingGoesOn
  BY <1>6 DEF RootfsPull, RootfsDone, RootfsError, Rootfs, Set, RootfsUnpack,
              RootfsMetadata, RootfsRaised
<1>7. ASSUME NEW c \in Containers, NEW k \in Starts,
             StartRootfs(c, k) \/ StartEnsure(c, k) \/ StartUnpack(c, k) \/ StartSpawn(c, k)
             \/ StartCheck(c, k) \/ StartRunning(c, k) \/ StartKill(c, k)
             \/ StartStopped(c, k) \/ StartRaised(c, k) \/ SetSid(c, k) \/ Exit(c, k)
      PROVE  SavingGoesOn
  BY <1>7 DEF StartRootfs, PrepareRootfs, StartError, Rootfs, Starter, Set, StartEnsure, StartUnpack,
              StartSpawn, StartCheck, StartRunning, StartKill, StartStopped, StartRaised,
              SetSid, Exit
<1>8. ASSUME NEW by \in Savers, SaveBegin(by) PROVE SavingGoesOn
  <2>1. saving'.by = by /\ saving = NoSave /\ AtSave(by)
    BY <1>8 DEF SaveBegin
  <2>2. UNCHANGED <<loop, rootfsThread, starter>>
    BY <1>8 DEF SaveBegin
  <2>3. AtSave(by)'
    BY <2>1, <2>2, WaitsAtSave DEF Waits
  <2>4. QED
    BY <2>1, <2>3
<1>9. CASE SavePods
  BY <1>9, SavingTypes DEF SavePods, SaveInProgress
<1>10. CASE SaveNext
  BY <1>10, SavingTypes DEF SaveNext, SaveInProgress
<1>11. CASE SaveCommit
  BY <1>11 DEF SaveCommit, LoopSaved, PrepareRootfs, Rootfs, Starter, Set
<1>12. CASE SaveRaise
  BY <1>12 DEF SaveRaise, Rootfs, Starter
<1>13. CASE Crash
  BY <1>13 DEF Crash
<1>14. CASE Restart
  BY <1>14 DEF Restart, Down
<1>15. CASE UNCHANGED vars
  BY <1>15 DEF vars
<1>16. QED
  BY <1>1, <1>2, <1>3, <1>4, <1>5, <1>6, <1>7, <1>8, <1>9, <1>10, <1>11, <1>12, <1>13,
     <1>14, <1>15
   DEF Next, PodStep, LoopStep, SaveStep, ContainerStep, RootfsStep, StarterStep

(* Who saves stays at its save until it ends.                              *)
LEMMA SaverStep ==
  ASSUME MemT, ProcsT, StarterT, RootfsT, LoopT, SavingT, ListsT, RestT, Lists, Dicts,
         Down, Preparing, Saver, [Next]_vars
  PROVE  Saver'
<1>1. CASE saving # NoSave /\ saving' # NoSave /\ saving'.by = saving.by
  <2>1. saving.by \in Savers /\ Waits(saving.by)
    BY <1>1, SavingTypes, WaitsAtSave DEF Saver
  <2>2. \A c \in Containers, k \in Starts : StayAtSave(c, k)
    BY SavesStay
  <2>3. PICK by \in Savers : by = saving.by
    BY <2>1
  <2>4. 1 \in Starts
    BY RuntimeAssumption DEF Starts
  <2>5. Waits(by)'
    <3>1. CASE by = <<"loop">> /\ loop.op \in {"save", "createSave"}
      BY <1>1, <3>1, LoopSaves DEF Waits, LoopAtSave
    <3>2. ASSUME NEW c \in Containers,
                 by = <<"rootfs", c>>, rootfsThread[c] \in {"save", "errorSave"}
          PROVE  Waits(by)'
      BY <1>1, <2>2, <2>4, <3>2 DEF Waits, StayAtSave
    <3>3. ASSUME NEW c \in Containers, NEW k \in Starts,
                 by = <<"start", c, k>>, starter[c][k] \in {"save", "errorSave"}
          PROVE  Waits(by)'
      BY <1>1, <2>2, <3>3 DEF Waits, StayAtSave
    <3>4. QED
      BY <2>1, <2>3, <3>1, <3>2, <3>3 DEF Waits
  <2>6. QED
    BY <1>1, <2>3, <2>5, WaitsAtSave DEF Saver
<1>2. QED
  BY <1>1, SavingSteps DEF SavingGoesOn, Saver

(* A step that leaves the starts of d alone.                               *)
SameStarts(d) ==
  /\ \A j \in Starts :
       /\ Busy(d, j)' <=> Busy(d, j)
       /\ starter[d][j] \in {"errorSave", "done"}
            => starter'[d][j] \in {"errorSave", "done"}
  /\ Known(d)' <=> Known(d)
  /\ Known(d) => /\ mem'[d] \in Record
                 /\ mem'[d].start = mem[d].start /\ mem'[d].proc = mem[d].proc
  /\ loop.op = "start" => loop' = loop
  /\ (d \in overruled)' <=> d \in overruled
  /\ daemon' = daemon

(* The process of d, once it ended, stays as it is.                        *)
StaysEnded(d) == \A k \in Starts :
  k = mem[d].proc /\ Ended(procs[d][k]) => procs'[d][k] = procs[d][k]

(* Processes that only grow older stay ended.                              *)
LEMMA AgeStaysEnded ==
  ASSUME NEW d \in Containers, UNCHANGED procs \/ Age
  PROVE  StaysEnded(d)
BY DEF StaysEnded, Age, Older

(* A container whose process has ended has none running.                   *)
LEMMA EndedStays ==
  ASSUME NEW d \in Containers, mem[d] \in Record, mem'[d].proc = mem[d].proc,
         StaysEnded(d), Ended(ProcessOf(d))
  PROVE  Ended(ProcessOf(d))'
<1>1. mem[d].proc \in {0} \cup Starts
  BY DEF Record
<1>2. CASE mem[d].proc = 0
  BY <1>2 DEF Ended, ProcessOf, ProcessAt
<1>3. CASE mem[d].proc \in Starts
  <2>1. ProcessOf(d) = procs[d][mem[d].proc] /\ ProcessOf(d)' = procs'[d][mem[d].proc]
    BY <1>3 DEF ProcessOf, ProcessAt, Starts
  <2>2. procs'[d][mem[d].proc] = procs[d][mem[d].proc]
    BY <1>3, <2>1 DEF StaysEnded
  <2>3. QED
    BY <2>1, <2>2 DEF Ended
<1>4. QED
  BY <1>1, <1>2, <1>3

(* Such a step keeps the invariant of the starts of d.                     *)
LEMMA SameStartsKeep ==
  ASSUME MemT, Dicts, Starting, NEW d \in Containers, SameStarts(d), StaysEnded(d)
  PROVE  StartingOf(d)'
<1>1. StartingOf(d) /\ \A k \in Starts : Busy(d, k) => Known(d) /\ mem[d] \in Record
  BY DictsThere DEF Starting, Busy, Dicts
<1>2. (d \notin overruled)' => \A k \in Starts : Busy(d, k)' =>
        /\ (loop.op = "start" /\ loop.cid = d /\ mem[d].start = "starting")'
        /\ Ended(ProcessOf(d))'
        /\ \A j \in Starts : Busy(d, j)' => j = k
  BY <1>1, EndedStays DEF SameStarts, StartingOf
<1>3. (daemon = "up" /\ Known(d) /\ mem[d].start = "starting")' => \E k \in Starts : Busy(d, k)'
  BY <1>1 DEF SameStarts, StartingOf
<1>4. (d \in overruled)' => \E k \in Starts : starter'[d][k] \in {"errorSave", "done"}
  BY <1>1 DEF SameStarts, StartingOf
<1>5. QED
  BY <1>2, <1>3, <1>4 DEF StartingOf

(* When a start comes to its end the container is not starting any more.   *)
LEMMA StartEndsKeep ==
  ASSUME Starting, NEW d \in Containers, NEW k \in Starts, Busy(d, k), starter[d][k] # "done",
         \A j \in Starts : j # k => starter'[d][j] = starter[d][j],
         starter'[d][k] \in {"save", "errorSave"},
         mem'[d].start # "starting", UNCHANGED overruled
  PROVE  StartingOf(d)'
<1>1. StartingOf(d)
  BY DEF Starting
<1>2. (d \notin overruled)' => \A j \in Starts : ~Busy(d, j)'
  BY <1>1 DEF StartingOf, Busy
<1>3. (d \in overruled)' => \E j \in Starts : starter'[d][j] \in {"errorSave", "done"}
  BY <1>1 DEF StartingOf, Busy
<1>4. QED
  BY <1>2, <1>3 DEF StartingOf

(* Every step keeps the invariant of the starts: a start begins only when  *)
(* no start is under way and the process has ended, and a thread that      *)
(* fails late overrules.                                                   *)
LEMMA StartingStep ==
  ASSUME MemT, ProcsT, StarterT, RootfsT, LoopT, SavingT, ListsT, RestT, Lists, Dicts,
         Down, Saver, Starting, Owned, NEW d \in Containers, [Next]_vars
  PROVE  StartingOf(d)'
<1> USE DEF Known, Free, Idle, memVars, threadVars, worldVars
<1>1. /\ Known(d) => mem[d] \in Record
      /\ \A r \in Record : r # NoContainer
  BY NoDict, DictsThere
<1>2. ASSUME NEW s \in Sandboxes, RunPodSandbox(s) PROVE StartingOf(d)'
  <2>1. SameStarts(d)
    BY <1>2, <1>1 DEF RunPodSandbox, SameStarts, Busy
  <2>2. StaysEnded(d)
    BY <1>2, <1>1, AgeStaysEnded DEF RunPodSandbox
  <2>3. QED
    BY <2>1, <2>2, SameStartsKeep
<1>3. ASSUME NEW s \in Sandboxes, StopPodSandbox(s) PROVE StartingOf(d)'
  <2>1. SameStarts(d)
    BY <1>3, <1>1, StopPodSandboxDoes
       DEF StopPodSandbox, Then, SameStarts, Busy, Sets, Changed,
                                  Only, Moves, Stays
  <2>2. StaysEnded(d)
    BY <1>3, <1>1, ProcessSteps, AgeStaysEnded
  <2>3. QED
    BY <2>1, <2>2, SameStartsKeep
<1>4. ASSUME NEW s \in Sandboxes, RemovePodSandbox(s) PROVE StartingOf(d)'
  <2>1. SameStarts(d)
    BY <1>4, <1>1 DEF RemovePodSandbox, SameStarts, Busy
  <2>2. StaysEnded(d)
    BY <1>4, <1>1, AgeStaysEnded DEF RemovePodSandbox
  <2>3. QED
    BY <2>1, <2>2, SameStartsKeep
<1>5. CASE InsertPod
  <2>1. SameStarts(d)
    BY <1>5, <1>1 DEF InsertPod, Then, SameStarts, Busy
  <2>2. StaysEnded(d)
    BY <1>5, <1>1, AgeStaysEnded DEF InsertPod, Then
  <2>3. QED
    BY <2>1, <2>2, SameStartsKeep
<1>6. CASE ReleasePodNetwork
  <2>1. SameStarts(d)
    BY <1>6, <1>1 DEF ReleasePodNetwork, Then, SameStarts, Busy
  <2>2. StaysEnded(d)
    BY <1>6, <1>1, AgeStaysEnded DEF ReleasePodNetwork, Then
  <2>3. QED
    BY <2>1, <2>2, SameStartsKeep
<1>7. ASSUME NEW c \in Containers, NEW s \in Sandboxes, CreateContainer(c, s)
      PROVE  StartingOf(d)'
  <2>1. CASE d # c
    <3>1. SameStarts(d)
      BY <1>7, <1>1, <2>1, CreateContainerDoes DEF CreateContainer, Only, SameStarts, Busy
    <3>2. StaysEnded(d)
      BY <1>7, <1>1, AgeStaysEnded DEF CreateContainer
    <3>3. QED
      BY <3>1, <3>2, SameStartsKeep
  <2>2. CASE d = c
    <3>1. /\ \A j \in Starts : starter[d][j] = "none" /\ starter'[d][j] = "none"
          /\ mem'[d].start = "none" /\ overruled' = overruled
      BY <1>7, <1>1, <2>2, CreateContainerDoes DEF CreateContainer, Stays, NewContainer
    <3>2. d \notin overruled
      BY <3>1 DEF Starting, StartingOf
    <3>3. QED
      BY <3>1, <3>2 DEF StartingOf, Busy
  <2>3. QED
    BY <2>1, <2>2
<1>8. ASSUME NEW c \in Containers, StartContainer(c) PROVE StartingOf(d)'
  <2>1. CASE d # c
    <3>1. SameStarts(d)
      BY <1>8, <1>1, <2>1, StartContainerDoes DEF StartContainer, Only, SameStarts, Busy
    <3>2. StaysEnded(d)
      BY <1>8, <1>1, AgeStaysEnded DEF StartContainer
    <3>3. QED
      BY <3>1, <3>2, SameStartsKeep
  <2>2. CASE d = c /\ mem[c].start = "starting" /\ mem'[c] = mem[c] /\ Stays(c)
    <3>1. SameStarts(d)
      BY <1>8, <1>1, <2>2, StartContainerDoes DEF StartContainer, Stays, SameStarts, Busy
    <3>2. StaysEnded(d)
      BY <1>8, <1>1, AgeStaysEnded DEF StartContainer
    <3>3. QED
      BY <3>1, <3>2, SameStartsKeep
  <2>3. CASE /\ d = c /\ Sets(c, mem[c].state, mem[c].rootfs, "starting", mem[c].proc)
             /\ \E k \in Starts : starter[c][k] = "none" /\ Moves(c, k, "rootfs")
    <3>1. PICK k \in Starts : starter[c][k] = "none" /\ Moves(c, k, "rootfs")
      BY <2>3
    <3>2. StartingOf(d) /\ loop.op # "start" /\ UNCHANGED <<overruled, procs>>
      BY <1>8, <1>1 DEF StartContainer, Starting
    <3>3. d \notin overruled => \A j \in Starts : ~Busy(d, j)
      BY <3>2 DEF StartingOf
    <3>4. Busy(d, k)' /\ \A j \in Starts : j # k => (Busy(d, j)' <=> Busy(d, j))
      BY <2>3, <3>1 DEF Moves, Busy
    <3>5. /\ (loop.op = "start" /\ loop.cid = d /\ mem[d].start = "starting")'
          /\ mem'[d].proc = mem[d].proc /\ mem[d] \in Record
      BY <1>8, <1>1, <2>3 DEF StartContainer, ThenFor, Sets, Changed
    <3>6. Ended(ProcessOf(d))'
      BY <1>8, <1>1, <2>3, <3>5, AgeStaysEnded, EndedStays DEF StartContainer
    <3>7. (d \in overruled)' => \E j \in Starts : starter'[d][j] \in {"errorSave", "done"}
      BY <2>3, <3>1, <3>2 DEF Moves, StartingOf
    <3>8. QED
      BY <3>2, <3>3, <3>4, <3>5, <3>6, <3>7 DEF StartingOf
  <2>4. QED
    BY <1>8, <1>1, <2>1, <2>2, <2>3, StartContainerDoes
<1>9. ASSUME NEW c \in Containers, StopContainer(c) PROVE StartingOf(d)'
  <2>1. SameStarts(d)
    BY <1>9, <1>1, StopContainerDoes
       DEF StopContainer, ThenWait, SameStarts, Busy, Sets, Changed,
                                 Only, Moves, Stays
  <2>2. StaysEnded(d)
    BY <1>9, <1>1, ProcessSteps, AgeStaysEnded
  <2>3. QED
    BY <2>1, <2>2, SameStartsKeep
<1>10. ASSUME NEW c \in Containers, RemoveContainer(c) PROVE StartingOf(d)'
  <2>1. SameStarts(d)
    BY <1>10, <1>1, StopContainerDoes
       DEF RemoveContainer, ThenWait, SameStarts, Busy, Sets, Changed,
                                 Only, Moves, Stays
  <2>2. StaysEnded(d)
    BY <1>10, <1>1, ProcessSteps, AgeStaysEnded
  <2>3. QED
    BY <2>1, <2>2, SameStartsKeep
<1>11. ASSUME NEW c \in Containers, RefreshContainerState(c) PROVE StartingOf(d)'
  <2>1. SameStarts(d)
    BY <1>11, <1>1, RefreshDoes
       DEF RefreshContainerState, Then, SameStarts, Busy, Sets, Changed,
                           Only, Moves, Stays
  <2>2. StaysEnded(d)
    BY <1>11, <1>1, AgeStaysEnded DEF RefreshContainerState, Then
  <2>3. QED
    BY <2>1, <2>2, SameStartsKeep
<1>12. CASE StartAnswer
  <2>1. \A j \in Starts : Busy(d, j)' <=> Busy(d, j)
    BY <1>12, <1>1 DEF StartAnswer, Busy
  <2>2. (d \notin overruled)' => \A j \in Starts : ~Busy(d, j)
    BY <1>12, <1>1 DEF StartAnswer, Starting, StartingOf
  <2>3. QED
    BY <1>12, <1>1, <2>1, <2>2 DEF StartAnswer, Starting, StartingOf, Known
<1>13. CASE StopKill
  <2>1. SameStarts(d)
    BY <1>13, <1>1 DEF StopKill, SameStarts, Busy
  <2>2. StaysEnded(d)
    BY <1>13, <1>1, ProcessSteps, AgeStaysEnded
  <2>3. QED
    BY <2>1, <2>2, SameStartsKeep
<1>14. CASE StopAnswer
  <2>1. SameStarts(d)
    BY <1>14, <1>1, StopAnswerDoes DEF StopAnswer, Then, SameStarts, Busy, Sets, Changed, Only,
                              Moves, Stays
  <2>2. StaysEnded(d)
    BY <1>14, <1>1, AgeStaysEnded DEF StopAnswer, Then
  <2>3. QED
    BY <2>1, <2>2, SameStartsKeep
<1>15. CASE RemoveDelete
  <2>1. SameStarts(d)
    BY <1>15, <1>1, RemoveDeleteDoes DEF RemoveDelete, SameStarts, Busy
  <2>2. StaysEnded(d)
    BY <1>15, <1>1, AgeStaysEnded DEF RemoveDelete
  <2>3. QED
    BY <2>1, <2>2, SameStartsKeep
<1>16. CASE RemoveFinish
  <2>1. SameStarts(d)
    BY <1>16, <1>1 DEF RemoveFinish, Then, SameStarts, Busy
  <2>2. StaysEnded(d)
    BY <1>16, <1>1, AgeStaysEnded DEF RemoveFinish, Then
  <2>3. QED
    BY <2>1, <2>2, SameStartsKeep
<1>17. ASSUME NEW c \in Containers, RootfsPull(c) PROVE StartingOf(d)'
  <2>1. SameStarts(d)
    BY <1>17, <1>1, RootfsStepDoes
       DEF RootfsPull, RootfsStep, SameStarts, Busy, Sets, Changed, Only,
                              Moves, Stays
  <2>2. StaysEnded(d)
    BY <1>17, <1>1, AgeStaysEnded DEF RootfsPull, RootfsStep
  <2>3. QED
    BY <2>1, <2>2, SameStartsKeep
<1>18. ASSUME NEW c \in Containers, RootfsUnpack(c) PROVE StartingOf(d)'
  <2>1. SameStarts(d)
    BY <1>18, <1>1, RootfsStepDoes
       DEF RootfsUnpack, RootfsStep, SameStarts, Busy, Sets, Changed,
                              Only, Moves, Stays
  <2>2. StaysEnded(d)
    BY <1>18, <1>1, AgeStaysEnded DEF RootfsUnpack, RootfsStep
  <2>3. QED
    BY <2>1, <2>2, SameStartsKeep
<1>19. ASSUME NEW c \in Containers, RootfsMetadata(c) PROVE StartingOf(d)'
  <2>1. SameStarts(d)
    BY <1>19, <1>1, RootfsStepDoes
       DEF RootfsMetadata, RootfsStep, SameStarts, Busy, Sets, Changed,
                              Only, Moves, Stays
  <2>2. StaysEnded(d)
    BY <1>19, <1>1, AgeStaysEnded DEF RootfsMetadata, RootfsStep
  <2>3. QED
    BY <2>1, <2>2, SameStartsKeep
<1>20. ASSUME NEW c \in Containers, RootfsRaised(c) PROVE StartingOf(d)'
  <2>1. SameStarts(d)
    BY <1>20, <1>1, RootfsStepDoes
       DEF RootfsRaised, RootfsStep, SameStarts, Busy, Sets, Changed,
                              Only, Moves, Stays
  <2>2. StaysEnded(d)
    BY <1>20, <1>1, AgeStaysEnded DEF RootfsRaised, RootfsStep
  <2>3. QED
    BY <2>1, <2>2, SameStartsKeep
<1>21. ASSUME NEW c \in Containers, NEW k \in Starts, StartRootfs(c, k)
      PROVE  StartingOf(d)'
  <2>1. CASE d # c
    <3>1. SameStarts(d)
      BY <1>21, <1>1, <2>1, StartRootfsDoes DEF StartRootfs, Only, SameStarts, Busy
    <3>2. StaysEnded(d)
      BY <1>21, <1>1, AgeStaysEnded DEF StartRootfs
    <3>3. QED
      BY <3>1, <3>2, SameStartsKeep
  <2>2. CASE d = c
    <3>1. CASE Moves(d, k, "errorSave") /\ mem'[d].start = "error"
      BY <1>21, <1>1, <3>1, <2>2, StartRootfsDoes, StartEndsKeep DEF StartRootfs, Moves, Busy
    <3>2. CASE ~(Moves(d, k, "errorSave") /\ mem'[d].start = "error")
      <4>1. SameStarts(d)
        BY <1>21, <1>1, <3>2, <2>2, StartRootfsDoes
           DEF StartRootfs, Sets, Changed, Moves, Stays, SameStarts, Busy
      <4>2. StaysEnded(d)
        BY <1>21, <1>1, AgeStaysEnded DEF StartRootfs
      <4>3. QED
        BY <4>1, <4>2, SameStartsKeep
    <3>3. QED
      BY <3>1, <3>2
  <2>3. QED
    BY <2>1, <2>2
<1>22. ASSUME NEW c \in Containers, NEW k \in Starts, StartEnsure(c, k) \/ StartUnpack(c, k)
      PROVE  StartingOf(d)'
  <2>1. CASE d # c
    <3>1. SameStarts(d)
      BY <1>22, <1>1, <2>1, StartEnsureDoes DEF StartEnsure, StartUnpack, Only, SameStarts, Busy
    <3>2. StaysEnded(d)
      BY <1>22, <1>1, AgeStaysEnded DEF StartEnsure, StartUnpack
    <3>3. QED
      BY <3>1, <3>2, SameStartsKeep
  <2>2. CASE d = c
    <3>1. CASE Moves(d, k, "errorSave") /\ mem'[d].start = "error"
      BY <1>22, <1>1, <3>1, <2>2, StartEnsureDoes, StartEndsKeep DEF StartEnsure, StartUnpack, Moves, Busy
    <3>2. CASE ~(Moves(d, k, "errorSave") /\ mem'[d].start = "error")
      <4>1. SameStarts(d)
        BY <1>22, <1>1, <3>2, <2>2, StartEnsureDoes
           DEF StartEnsure, StartUnpack, Sets, Changed, Moves, Stays, SameStarts, Busy
      <4>2. StaysEnded(d)
        BY <1>22, <1>1, AgeStaysEnded DEF StartEnsure, StartUnpack
      <4>3. QED
        BY <4>1, <4>2, SameStartsKeep
    <3>3. QED
      BY <3>1, <3>2
  <2>3. QED
    BY <2>1, <2>2
<1>23. ASSUME NEW c \in Containers, NEW k \in Starts, StartSpawn(c, k)
      PROVE  StartingOf(d)'
  <2>1. CASE d # c
    <3>1. SameStarts(d)
      BY <1>23, <1>1, <2>1, StartSpawnDoes DEF StartSpawn, Only, SameStarts, Busy
    <3>2. StaysEnded(d)
      BY <1>23, <1>1, <2>1 DEF StartSpawn, StaysEnded, ProcsT
    <3>3. QED
      BY <3>1, <3>2, SameStartsKeep
  <2>2. CASE d = c
    <3>1. CASE Moves(d, k, "errorSave") /\ mem'[d].start = "error"
      BY <1>23, <1>1, <3>1, <2>2, StartSpawnDoes, StartEndsKeep DEF StartSpawn, Moves, Busy
    <3>2. CASE ~(Moves(d, k, "errorSave") /\ mem'[d].start = "error")
      <4>1. SameStarts(d)
        BY <1>23, <1>1, <3>2, <2>2, StartSpawnDoes
           DEF StartSpawn, Sets, Changed, Moves, Stays, SameStarts, Busy
      <4>2. StaysEnded(d)
        <5>1. mem[d].proc # k
          BY <1>23, <1>1, <2>2, StartSpawnDoes DEF Owned, OwnedOf, Over, Starts
        <5>2. \A j \in Starts : j # k => procs'[d][j] = procs[d][j]
          BY <1>23, <1>1, <2>2, StartSpawnDoes DEF ProcsT
        <5>3. QED
          BY <5>1, <5>2 DEF StaysEnded
      <4>3. QED
        BY <4>1, <4>2, SameStartsKeep
    <3>3. QED
      BY <3>1, <3>2
  <2>3. QED
    BY <2>1, <2>2
<1>24. ASSUME NEW c \in Containers, NEW k \in Starts, StartCheck(c, k)
      PROVE  StartingOf(d)'
  <2>1. CASE d # c
    <3>1. SameStarts(d)
      BY <1>24, <1>1, <2>1, StartCheckDoes DEF StartCheck, Only, SameStarts, Busy
    <3>2. StaysEnded(d)
      BY <1>24, <1>1, ProcessSteps, AgeStaysEnded
    <3>3. QED
      BY <3>1, <3>2, SameStartsKeep
  <2>2. CASE d = c
    <3>1. SameStarts(d)
      BY <1>24, <1>1, <2>2, StartCheckDoes
         DEF StartCheck, Sets, Changed, Moves, Stays, SameStarts, Busy
    <3>2. StaysEnded(d)
      BY <1>24, <1>1, ProcessSteps, AgeStaysEnded
    <3>3. QED
      BY <3>1, <3>2, SameStartsKeep
  <2>3. QED
    BY <2>1, <2>2
<1>25. ASSUME NEW c \in Containers, NEW k \in Starts, StartRunning(c, k)
      PROVE  StartingOf(d)'
  <2>1. CASE d # c
    <3>1. SameStarts(d)
      BY <1>25, <1>1, <2>1, StartRunningDoes, ZenonT(60) DEF StartRunning, Only, SameStarts, Busy
    <3>2. StaysEnded(d)
      BY <1>25, <1>1, AgeStaysEnded DEF StartRunning
    <3>3. QED
      BY <3>1, <3>2, SameStartsKeep
  <2>2. CASE d = c
    <3>1. /\ Busy(d, k) /\ mem'[d].start # "starting" /\ starter'[d][k] = "save"
          /\ starter[d][k] # "done" /\ \A j \in Starts : j # k => starter'[d][j] = starter[d][j]
      BY <1>25, <1>1, <2>2, StartRunningDoes DEF Sets, Changed, Moves, Busy
    <3>2. overruled' = overruled
      BY <1>25, <1>1 DEF StartRunning
    <3>3. QED
      BY <3>1, <3>2, StartEndsKeep
  <2>3. QED
    BY <2>1, <2>2
<1>26. ASSUME NEW c \in Containers, NEW k \in Starts, StartKill(c, k) PROVE StartingOf(d)'
  <2>1. SameStarts(d)
    BY <1>26, <1>1 DEF StartKill, SameStarts, Busy
  <2>2. StaysEnded(d)
    BY <1>26, <1>1, ProcessSteps, AgeStaysEnded
  <2>3. QED
    BY <2>1, <2>2, SameStartsKeep
<1>27. ASSUME NEW c \in Containers, NEW k \in Starts, StartStopped(c, k)
      PROVE  StartingOf(d)'
  <2>1. CASE d # c
    <3>1. SameStarts(d)
      BY <1>27, <1>1, <2>1, StartStoppedDoes, ZenonT(60) DEF StartStopped, Only, SameStarts, Busy
    <3>2. StaysEnded(d)
      BY <1>27, <1>1, AgeStaysEnded DEF StartStopped
    <3>3. QED
      BY <3>1, <3>2, SameStartsKeep
  <2>2. CASE d = c
    <3>1. /\ Busy(d, k) /\ mem'[d].start # "starting" /\ starter'[d][k] = "save"
          /\ starter[d][k] # "done" /\ \A j \in Starts : j # k => starter'[d][j] = starter[d][j]
      BY <1>27, <1>1, <2>2, StartStoppedDoes DEF Sets, Changed, Moves, Busy
    <3>2. overruled' = overruled
      BY <1>27, <1>1 DEF StartStopped
    <3>3. QED
      BY <3>1, <3>2, StartEndsKeep
  <2>3. QED
    BY <2>1, <2>2
<1>28. ASSUME NEW c \in Containers, NEW k \in Starts, StartRaised(c, k)
      PROVE  StartingOf(d)'
  <2>1. CASE d # c
    <3>1. SameStarts(d)
      <4>1. UNCHANGED <<loop, daemon>> /\ ((d \in overruled)' <=> d \in overruled)
        BY <1>28, <1>1, <2>1 DEF StartRaised
      <4>2. mem'[d] = mem[d] /\ \A j \in Starts : starter'[d][j] = starter[d][j]
        BY <1>28, <1>1, <2>1, StartRaisedDoes DEF Only
      <4>3. QED
        BY <1>28, <1>1, <4>1, <4>2 DEF SameStarts, Busy
    <3>2. StaysEnded(d)
      BY <1>28, <1>1, AgeStaysEnded DEF StartRaised
    <3>3. QED
      BY <3>1, <3>2, SameStartsKeep
  <2>2. CASE d = c
    <3>1. /\ mem'[d].start = "error" /\ \A j \in Starts : Busy(d, j)' <=> Busy(d, j)
          /\ starter'[d][k] = "errorSave"
      BY <1>28, <1>1, <2>2, StartRaisedDoes DEF Sets, Changed, Moves, Busy
    <3>2. (d \notin overruled)' => \A j \in Starts : ~Busy(d, j)
      BY <1>28, <1>1, <2>2, StartRaisedDoes DEF Starting, StartingOf
    <3>3. QED
      BY <3>1, <3>2 DEF StartingOf
  <2>3. QED
    BY <2>1, <2>2
<1>29. ASSUME NEW c \in Containers, NEW k \in Starts, SetSid(c, k) PROVE StartingOf(d)'
  <2>1. SameStarts(d)
    BY <1>29, <1>1 DEF SetSid, SameStarts, Busy
  <2>2. StaysEnded(d)
    BY <1>29, <1>1, ProcessSteps, AgeStaysEnded
  <2>3. QED
    BY <2>1, <2>2, SameStartsKeep
<1>30. ASSUME NEW c \in Containers, NEW k \in Starts, Exit(c, k) PROVE StartingOf(d)'
  <2>1. SameStarts(d)
    BY <1>30, <1>1 DEF Exit, SameStarts, Busy
  <2>2. StaysEnded(d)
    BY <1>30, <1>1, ProcessSteps, AgeStaysEnded
  <2>3. QED
    BY <2>1, <2>2, SameStartsKeep
<1>31. ASSUME NEW by \in Savers, SaveBegin(by) PROVE StartingOf(d)'
  <2>1. SameStarts(d)
    BY <1>31, <1>1 DEF SaveBegin, SameStarts, Busy
  <2>2. StaysEnded(d)
    BY <1>31, <1>1, AgeStaysEnded DEF SaveBegin
  <2>3. QED
    BY <2>1, <2>2, SameStartsKeep
<1>32. CASE SavePods
  <2>1. SameStarts(d)
    BY <1>32, <1>1 DEF SavePods, SameStarts, Busy
  <2>2. StaysEnded(d)
    BY <1>32, <1>1, AgeStaysEnded DEF SavePods
  <2>3. QED
    BY <2>1, <2>2, SameStartsKeep
<1>33. CASE SaveNext
  <2>1. SameStarts(d)
    BY <1>33, <1>1 DEF SaveNext, SameStarts, Busy
  <2>2. StaysEnded(d)
    BY <1>33, <1>1, AgeStaysEnded DEF SaveNext
  <2>3. QED
    BY <2>1, <2>2, SameStartsKeep
<1>34. CASE SaveCommit
  <2>1. SameStarts(d)
    <3>1. \A j \in Starts :
            /\ Busy(d, j)' <=> Busy(d, j)
            /\ starter[d][j] \in {"errorSave", "done"}
                 => starter'[d][j] \in {"errorSave", "done"}
      BY <1>34, <1>1, SaveEnds DEF Busy
    <3>2. \/ mem'[d] = mem[d]
          \/ Sets(d, mem[d].state, "preparing", mem[d].start, mem[d].proc)
      BY <1>34, <1>1, SaveEnds, PreparesDoes
    <3>3. UNCHANGED <<daemon, overruled>> /\ (loop.op = "start" => loop' = loop)
      BY <1>34, <1>1, SaveEnds DEF SaveCommit
    <3>4. QED
      BY <1>34, <1>1, <3>1, <3>2, <3>3 DEF SameStarts, Sets, Changed
  <2>2. StaysEnded(d)
    BY <1>34, <1>1, AgeStaysEnded DEF SaveCommit
  <2>3. QED
    BY <2>1, <2>2, SameStartsKeep
<1>35. CASE SaveRaise
  <2>1. SameStarts(d)
    <3>1. \A j \in Starts :
            /\ Busy(d, j)' <=> Busy(d, j)
            /\ starter[d][j] \in {"errorSave", "done"}
                 => starter'[d][j] \in {"errorSave", "done"}
      BY <1>35, <1>1, SaveEnds DEF Busy
    <3>2. \/ mem'[d] = mem[d]
          \/ Sets(d, mem[d].state, "preparing", mem[d].start, mem[d].proc)
      BY <1>35, <1>1, SaveEnds, PreparesDoes
    <3>3. UNCHANGED <<daemon, overruled>> /\ (loop.op = "start" => loop' = loop)
      BY <1>35, <1>1, SaveEnds DEF SaveRaise
    <3>4. QED
      BY <1>35, <1>1, <3>1, <3>2, <3>3 DEF SameStarts, Sets, Changed
  <2>2. StaysEnded(d)
    BY <1>35, <1>1, AgeStaysEnded DEF SaveRaise
  <2>3. QED
    BY <2>1, <2>2, SameStartsKeep
<1>36. CASE Crash
  <2>1. /\ \A j \in Starts : starter'[d][j] = IF starter[d][j] = "none" THEN "none" ELSE "done"
        /\ daemon' = "down" /\ overruled' = overruled
    BY <1>36, <1>1 DEF Crash
  <2>2. QED
    BY <2>1 DEF Starting, StartingOf, Busy
<1>37. CASE Restart
  <2>1. /\ \A j \in Starts : starter'[d][j] = starter[d][j] /\ ~Busy(d, j)
        /\ overruled' = overruled
    BY <1>37, <1>1 DEF Restart, Down, Busy
  <2>2. Known(d)' => mem'[d].start # "starting"
    BY <1>37, <1>1, RestartDoes
  <2>3. QED
    BY <2>1, <2>2 DEF Starting, StartingOf, Busy
<1>38. CASE UNCHANGED vars
  BY <1>38, <1>1, AgeStaysEnded, SameStartsKeep DEF vars, SameStarts, Busy
<1>39. QED
  BY <1>2, <1>3, <1>4, <1>5, <1>6, <1>7, <1>8, <1>9, <1>10, <1>11, <1>12, <1>13, <1>14,
     <1>15, <1>16, <1>17, <1>18, <1>19, <1>20, <1>21, <1>22, <1>23, <1>24, <1>25, <1>26, <1>27,
     <1>28, <1>29, <1>30, <1>31, <1>32, <1>33, <1>34, <1>35, <1>36, <1>37, <1>38
   DEF Next, PodStep, LoopStep, SaveStep, ContainerStep, RootfsStep, StarterStep

(* A step that keeps what belongs to d, and lets no process of it begin.   *)
SameOwner(d) ==
  /\ \A j \in Starts :
       /\ starter'[d][j] \in {"none", "rootfs", "unpack", "spawn", "bare"} =>
            starter[d][j] \in {"none", "rootfs", "unpack", "spawn", "bare"}
       /\ starter[d][j] \in {"check", "assign", "stopping"} =>
            starter'[d][j] \in {"check", "assign", "stopping"}
       /\ Over(d, j) => Over(d, j)'
  /\ Known(d)' <=> Known(d)
  /\ Known(d) => /\ mem'[d] \in Record /\ mem'[d].proc = mem[d].proc
                 /\ mem'[d].state = "running" => mem[d].state = "running"
  /\ Listed(d) => Listed(d)'
  /\ loop'.op \in {"stop", "remove", "rmtree"} /\ loop'.cid = d =>
       \/ /\ loop.op \in {"stop", "remove", "rmtree"} /\ loop.cid = d
          /\ loop'.proc = loop.proc
       \/ Known(d) /\ loop'.proc = mem[d].proc
  /\ d \in overruled => (d \in overruled)'

(* No process of d begins.                                                 *)
NoNewProcess(d) == \A k \in Starts :
  /\ procs'[d][k].at = "none" <=> procs[d][k].at = "none"
  /\ Mine(d, k)' => Mine(d, k)

(* Processes that only grow older are not new.                             *)
LEMMA AgeNoNewProcess ==
  ASSUME NEW d \in Containers, UNCHANGED crashes, UNCHANGED procs \/ Age
  PROVE  NoNewProcess(d)
BY DEF NoNewProcess, Age, Older, Mine

(* Such a step keeps the processes of d its own.                           *)
LEMMA SameOwnerKeep ==
  ASSUME MemT, Dicts, Owned, NEW d \in Containers, SameOwner(d), NoNewProcess(d)
  PROVE  OwnedOf(d)'
<1>1. /\ OwnedOf(d)
      /\ Known(d) => mem[d] \in Record /\ mem[d].proc \in {0} \cup Starts
      /\ Listed(d) => Known(d)
      /\ loop.op \in {"stop", "remove", "rmtree"} /\ loop.cid = d => Known(d)
  BY DictsThere DEF Owned, Dicts, Record
<1>2. Known(d)' => /\ mem'[d].proc # 0 => Over(d, mem[d].proc)' /\ mem'[d].proc = mem[d].proc
                   /\ mem'[d].state = "running" => mem'[d].proc # 0
  BY <1>1 DEF SameOwner, OwnedOf
<1>3. \A k \in Starts : starter'[d][k] \in {"none", "rootfs", "unpack", "spawn", "bare"} => procs'[d][k].at = "none"
  BY <1>1 DEF SameOwner, OwnedOf, NoNewProcess
<1>4. (d \notin overruled)' => \A k \in Starts : Mine(d, k)' =>
        Listed(d)' /\ (mem'[d].proc = k \/ starter'[d][k] \in {"check", "assign", "stopping"})
  BY <1>1 DEF SameOwner, OwnedOf, NoNewProcess
<1>5. (d \notin overruled)' /\ loop'.op \in {"stop", "remove", "rmtree"} /\ loop'.cid = d
        => loop'.proc = mem'[d].proc
  <2>1. Known(d) => mem'[d].proc = mem[d].proc
    BY DEF SameOwner
  <2>2. QED
    BY <1>1, <2>1 DEF SameOwner, OwnedOf
<1>6. QED
  BY <1>2, <1>3, <1>4, <1>5 DEF OwnedOf, Over

(* Every step keeps the invariant of the processes: the thread that starts *)
(* one keeps it until it has put it in the dict or has stopped it, and a   *)
(* container leaves the list when its process has ended.                   *)
LEMMA OwnedStep ==
  ASSUME MemT, ProcsT, StarterT, RootfsT, LoopT, SavingT, ListsT, RestT, Lists, Dicts,
         Down, Saver, Starting, Owned, NEW d \in Containers, [Next]_vars
  PROVE  OwnedOf(d)'
<1> USE DEF Known, Free, Idle, memVars, threadVars, worldVars
<1>1. /\ Known(d) => mem[d] \in Record
      /\ \A r \in Record : r # NoContainer
  BY NoDict, DictsThere
<1>2. ASSUME NEW s \in Sandboxes, RunPodSandbox(s) PROVE OwnedOf(d)'
  <2>1. SameOwner(d)
    BY <1>2, <1>1 DEF RunPodSandbox, SameOwner, Over, Listed
  <2>2. NoNewProcess(d)
    BY <1>2, <1>1, AgeNoNewProcess DEF RunPodSandbox
  <2>3. QED
    BY <2>1, <2>2, SameOwnerKeep
<1>3. ASSUME NEW s \in Sandboxes, StopPodSandbox(s) PROVE OwnedOf(d)'
  <2>1. SameOwner(d)
    BY <1>3, <1>1, StopPodSandboxDoes DEF StopPodSandbox, Then, SameOwner, Over, Listed, Sets,
                                  Changed, Only, Moves, Stays
  <2>2. NoNewProcess(d)
    BY <1>3, <1>1, ProcessSteps, AgeNoNewProcess DEF StopPodSandbox, Then
  <2>3. QED
    BY <2>1, <2>2, SameOwnerKeep
<1>4. ASSUME NEW s \in Sandboxes, RemovePodSandbox(s) PROVE OwnedOf(d)'
  <2>1. SameOwner(d)
    BY <1>4, <1>1 DEF RemovePodSandbox, SameOwner, Over, Listed
  <2>2. NoNewProcess(d)
    BY <1>4, <1>1, AgeNoNewProcess DEF RemovePodSandbox
  <2>3. QED
    BY <2>1, <2>2, SameOwnerKeep
<1>5. CASE InsertPod
  <2>1. SameOwner(d)
    BY <1>5, <1>1 DEF InsertPod, Then, SameOwner, Over, Listed
  <2>2. NoNewProcess(d)
    BY <1>5, <1>1, AgeNoNewProcess DEF InsertPod, Then
  <2>3. QED
    BY <2>1, <2>2, SameOwnerKeep
<1>6. CASE ReleasePodNetwork
  <2>1. SameOwner(d)
    BY <1>6, <1>1 DEF ReleasePodNetwork, Then, SameOwner, Over, Listed
  <2>2. NoNewProcess(d)
    BY <1>6, <1>1, AgeNoNewProcess DEF ReleasePodNetwork, Then
  <2>3. QED
    BY <2>1, <2>2, SameOwnerKeep
<1>7. ASSUME NEW c \in Containers, NEW s \in Sandboxes, CreateContainer(c, s)
      PROVE  OwnedOf(d)'
  <2>1. CASE d # c
    <3>1. \A e \in Containers : Listed(e)' <=> Listed(e) \/ e = c
      BY <1>7, <1>1, Appended DEF CreateContainer
    <3>2. /\ mem'[d] = mem[d] /\ UNCHANGED <<procs, crashes, overruled>> /\ loop'.op = "createSave"
          /\ \A j \in Starts : starter'[d][j] = starter[d][j]
      BY <1>7, <1>1, <2>1, CreateContainerDoes DEF CreateContainer, Only, ThenFor
    <3>3. SameOwner(d)
      BY <1>7, <1>1, <3>1, <3>2 DEF SameOwner, Over
    <3>4. NoNewProcess(d)
      BY <3>2, AgeNoNewProcess
    <3>5. QED
      BY <3>3, <3>4, SameOwnerKeep
  <2>2. CASE d = c
    <3>1. /\ \A j \in Starts : starter[d][j] = "none" /\ starter'[d][j] = "none"
          /\ mem'[d].proc = 0 /\ mem'[d].state = "created" /\ UNCHANGED <<procs, crashes>>
          /\ loop'.op = "createSave"
      BY <1>7, <1>1, <2>2, CreateContainerDoes
         DEF CreateContainer, Stays, NewContainer, ThenFor
    <3>2. \A j \in Starts : procs'[d][j].at = "none"
      BY <3>1 DEF Owned, OwnedOf
    <3>3. QED
      BY <3>1, <3>2 DEF OwnedOf, Mine
  <2>3. QED
    BY <2>1, <2>2
<1>8. ASSUME NEW c \in Containers, StartContainer(c) PROVE OwnedOf(d)'
  <2>1. UNCHANGED <<order, procs, crashes, overruled>> /\ loop'.op = "start"
    BY <1>8, <1>1 DEF StartContainer, ThenFor
  <2>2. CASE d # c
    <3>1. mem'[d] = mem[d] /\ \A j \in Starts : starter'[d][j] = starter[d][j]
      BY <1>8, <1>1, <2>2, StartContainerDoes DEF Only
    <3>2. SameOwner(d)
      BY <1>8, <1>1, <2>1, <3>1 DEF SameOwner, Over, Listed
    <3>3. QED
      BY <2>1, <3>2, AgeNoNewProcess, SameOwnerKeep
  <2>3. CASE d = c
    <3>1. /\ \A j \in Starts :
               \/ starter'[d][j] = starter[d][j]
               \/ starter[d][j] = "none" /\ starter'[d][j] = "rootfs"
          /\ mem'[d] = mem[d] \/ Sets(d, mem[d].state, mem[d].rootfs, "starting", mem[d].proc)
      BY <1>8, <1>1, <2>3, StartContainerDoes DEF Moves, Stays
    <3>2. SameOwner(d)
      BY <1>8, <1>1, <2>1, <3>1 DEF SameOwner, Over, Listed, Sets, Changed
    <3>3. QED
      BY <2>1, <3>2, AgeNoNewProcess, SameOwnerKeep
  <2>4. QED
    BY <2>2, <2>3
<1>9. ASSUME NEW c \in Containers, StopContainer(c) PROVE OwnedOf(d)'
  <2>1. SameOwner(d)
    BY <1>9, <1>1, StopContainerDoes
       DEF StopContainer, ThenWait, SameOwner, Over, Listed, Sets,
                                 Changed, Only, Moves, Stays
  <2>2. NoNewProcess(d)
    BY <1>9, <1>1, ProcessSteps, AgeNoNewProcess DEF StopContainer, ThenWait
  <2>3. QED
    BY <2>1, <2>2, SameOwnerKeep
<1>10. ASSUME NEW c \in Containers, RemoveContainer(c) PROVE OwnedOf(d)'
  <2>1. SameOwner(d)
    BY <1>10, <1>1, StopContainerDoes
       DEF RemoveContainer, ThenWait, SameOwner, Over, Listed, Sets,
                                 Changed, Only, Moves, Stays
  <2>2. NoNewProcess(d)
    BY <1>10, <1>1, ProcessSteps, AgeNoNewProcess DEF RemoveContainer, ThenWait
  <2>3. QED
    BY <2>1, <2>2, SameOwnerKeep
<1>11. ASSUME NEW c \in Containers, RefreshContainerState(c) PROVE OwnedOf(d)'
  <2>1. UNCHANGED <<order, procs, crashes, overruled>> /\ loop'.op \notin {"stop", "remove", "rmtree"}
    BY <1>11, <1>1 DEF RefreshContainerState, Then
  <2>2. /\ \A j \in Starts : starter'[d][j] = starter[d][j]
        /\ mem'[d] = mem[d] \/ Sets(d, "exited", mem[d].rootfs, mem[d].start, mem[d].proc)
    BY <1>11, <1>1, RefreshDoes DEF Only, Stays
  <2>3. SameOwner(d)
    BY <1>11, <1>1, <2>1, <2>2 DEF SameOwner, Over, Listed, Sets, Changed
  <2>4. QED
    BY <2>1, <2>3, AgeNoNewProcess, SameOwnerKeep
<1>12. CASE StartAnswer
  <2>1. SameOwner(d)
    BY <1>12, <1>1 DEF StartAnswer, SameOwner, Over, Listed
  <2>2. NoNewProcess(d)
    BY <1>12, <1>1, AgeNoNewProcess DEF StartAnswer
  <2>3. QED
    BY <2>1, <2>2, SameOwnerKeep
<1>13. CASE StopKill
  <2>1. SameOwner(d)
    BY <1>13, <1>1 DEF StopKill, SameOwner, Over, Listed
  <2>2. NoNewProcess(d)
    BY <1>13, <1>1, ProcessSteps, AgeNoNewProcess DEF StopKill
  <2>3. QED
    BY <2>1, <2>2, SameOwnerKeep
<1>14. CASE StopAnswer
  <2>1. SameOwner(d)
    BY <1>14, <1>1, StopAnswerDoes
       DEF StopAnswer, Then, SameOwner, Over, Listed, Sets, Changed,
                              Only, Moves, Stays
  <2>2. NoNewProcess(d)
    BY <1>14, <1>1, AgeNoNewProcess DEF StopAnswer, Then
  <2>3. QED
    BY <2>1, <2>2, SameOwnerKeep
<1>15. CASE RemoveDelete
  <2>1. SameOwner(d)
    BY <1>15, <1>1, RemoveDeleteDoes DEF RemoveDelete, SameOwner, Over, Listed
  <2>2. NoNewProcess(d)
    BY <1>15, <1>1, AgeNoNewProcess DEF RemoveDelete
  <2>3. QED
    BY <2>1, <2>2, SameOwnerKeep
<1>16. CASE RemoveFinish
  <2>1. \A e \in Containers : Listed(e)' <=> Listed(e) /\ e # loop.cid
    BY <1>16, <1>1, CutOut
  <2>2. UNCHANGED <<mem, starter, procs, crashes, overruled>> /\ loop'.op = "save"
    BY <1>16, <1>1 DEF RemoveFinish, Then
  <2>3. NoNewProcess(d)
    BY <2>2, AgeNoNewProcess
  <2>4. CASE d # loop.cid
    <3>1. SameOwner(d)
      BY <1>16, <1>1, <2>1, <2>2, <2>4 DEF SameOwner, Over
    <3>2. QED
      BY <2>3, <3>1, SameOwnerKeep
  <2>5. CASE d = loop.cid
    <3>1. OwnedOf(d) /\ StartingOf(d) /\ loop.op = "rmtree" /\ Ended(ProcessAt(d, loop.proc))
      BY <1>16, <1>1, <2>5 DEF RemoveFinish, Owned, Starting
    <3>2. d \notin overruled => \A j \in Starts : ~Mine(d, j)
      <4>1. SUFFICES ASSUME d \notin overruled, NEW j \in Starts, Mine(d, j) PROVE FALSE
        OBVIOUS
      <4>2. loop.proc = mem[d].proc /\ ~Busy(d, j)
        BY <2>5, <3>1, <4>1 DEF OwnedOf, StartingOf
      <4>3. mem[d].proc = j
        BY <3>1, <4>1, <4>2 DEF OwnedOf, Busy
      <4>4. Ended(procs[d][j])
        BY <3>1, <4>2, <4>3 DEF ProcessAt, Starts
      <4>5. QED
        BY <4>1, <4>4 DEF Ended, Mine
    <3>3. \A j \in Starts : Mine(d, j)' <=> Mine(d, j)
      BY <2>2 DEF Mine
    <3>4. QED
      BY <2>2, <3>1, <3>2, <3>3 DEF OwnedOf, Over
  <2>6. QED
    BY <2>4, <2>5
<1>17. ASSUME NEW c \in Containers, RootfsPull(c) PROVE OwnedOf(d)'
  <2>1. SameOwner(d)
    BY <1>17, <1>1, RootfsStepDoes DEF RootfsPull, RootfsStep, SameOwner, Over, Listed, Sets,
                              Changed, Only, Moves, Stays
  <2>2. NoNewProcess(d)
    BY <1>17, <1>1, AgeNoNewProcess DEF RootfsPull, RootfsStep
  <2>3. QED
    BY <2>1, <2>2, SameOwnerKeep
<1>18. ASSUME NEW c \in Containers, RootfsUnpack(c) PROVE OwnedOf(d)'
  <2>1. SameOwner(d)
    BY <1>18, <1>1, RootfsStepDoes, ZenonT(60) DEF RootfsUnpack, RootfsStep, SameOwner, Over, Listed, Sets,
                              Changed, Only, Moves, Stays
  <2>2. NoNewProcess(d)
    BY <1>18, <1>1, AgeNoNewProcess DEF RootfsUnpack, RootfsStep
  <2>3. QED
    BY <2>1, <2>2, SameOwnerKeep
<1>19. ASSUME NEW c \in Containers, RootfsMetadata(c) PROVE OwnedOf(d)'
  <2>1. SameOwner(d)
    BY <1>19, <1>1, RootfsStepDoes
       DEF RootfsMetadata, RootfsStep, SameOwner, Over, Listed, Sets,
                              Changed, Only, Moves, Stays
  <2>2. NoNewProcess(d)
    BY <1>19, <1>1, AgeNoNewProcess DEF RootfsMetadata, RootfsStep
  <2>3. QED
    BY <2>1, <2>2, SameOwnerKeep
<1>20. ASSUME NEW c \in Containers, RootfsRaised(c) PROVE OwnedOf(d)'
  <2>1. SameOwner(d)
    BY <1>20, <1>1, RootfsStepDoes DEF RootfsRaised, RootfsStep, SameOwner, Over, Listed, Sets,
                              Changed, Only, Moves, Stays
  <2>2. NoNewProcess(d)
    BY <1>20, <1>1, AgeNoNewProcess DEF RootfsRaised, RootfsStep
  <2>3. QED
    BY <2>1, <2>2, SameOwnerKeep
<1>21. ASSUME NEW c \in Containers, NEW k \in Starts, StartRootfs(c, k) PROVE OwnedOf(d)'
  <2>1. CASE d # c
    <3>1. /\ mem'[d] = mem[d] /\ UNCHANGED <<loop, order>>
          /\ \A j \in Starts : starter'[d][j] = starter[d][j]
      BY <1>21, <1>1, <2>1, StartRootfsDoes DEF StartRootfs, Only
    <3>2. d \in overruled => (d \in overruled)'
      BY <1>21, <1>1 DEF StartRootfs
    <3>3. SameOwner(d)
      BY <1>21, <1>1, <3>1, <3>2 DEF SameOwner, Over, Listed
    <3>4. NoNewProcess(d)
      BY <1>21, <1>1, AgeNoNewProcess DEF StartRootfs
    <3>5. QED
      BY <3>3, <3>4, SameOwnerKeep
  <2>2. CASE d = c
    <3>1. UNCHANGED <<loop, order>> /\ (d \in overruled => (d \in overruled)')
      BY <1>21, <1>1 DEF StartRootfs
    <3>2. SameOwner(d)
      BY <1>21, <1>1, <2>2, <3>1, StartRootfsDoes
         DEF Sets, Changed, Moves, Stays, SameOwner, Over, Listed
    <3>3. NoNewProcess(d)
      BY <1>21, <1>1, AgeNoNewProcess DEF StartRootfs
    <3>4. QED
      BY <3>2, <3>3, SameOwnerKeep
  <2>3. QED
    BY <2>1, <2>2
<1>22. ASSUME NEW c \in Containers, NEW k \in Starts, StartEnsure(c, k) \/ StartUnpack(c, k) PROVE OwnedOf(d)'
  <2>1. CASE d # c
    <3>1. /\ mem'[d] = mem[d] /\ UNCHANGED <<loop, order>>
          /\ \A j \in Starts : starter'[d][j] = starter[d][j]
      BY <1>22, <1>1, <2>1, StartEnsureDoes DEF StartEnsure, StartUnpack, Only
    <3>2. d \in overruled => (d \in overruled)'
      BY <1>22, <1>1 DEF StartEnsure, StartUnpack
    <3>3. SameOwner(d)
      BY <1>22, <1>1, <3>1, <3>2 DEF SameOwner, Over, Listed
    <3>4. NoNewProcess(d)
      BY <1>22, <1>1, AgeNoNewProcess DEF StartEnsure, StartUnpack
    <3>5. QED
      BY <3>3, <3>4, SameOwnerKeep
  <2>2. CASE d = c
    <3>1. UNCHANGED <<loop, order>> /\ (d \in overruled => (d \in overruled)')
      BY <1>22, <1>1 DEF StartEnsure, StartUnpack
    <3>2. SameOwner(d)
      BY <1>22, <1>1, <2>2, <3>1, StartEnsureDoes
         DEF Sets, Changed, Moves, Stays, SameOwner, Over, Listed
    <3>3. NoNewProcess(d)
      BY <1>22, <1>1, AgeNoNewProcess DEF StartEnsure, StartUnpack
    <3>4. QED
      BY <3>2, <3>3, SameOwnerKeep
  <2>3. QED
    BY <2>1, <2>2
<1>23. ASSUME NEW c \in Containers, NEW k \in Starts, StartSpawn(c, k) PROVE OwnedOf(d)'
  <2>1. CASE d # c
    <3>1. /\ mem'[d] = mem[d] /\ UNCHANGED <<loop, order>>
          /\ \A j \in Starts : starter'[d][j] = starter[d][j]
      BY <1>23, <1>1, <2>1, StartSpawnDoes DEF StartSpawn, Only
    <3>2. d \in overruled => (d \in overruled)'
      BY <1>23, <1>1 DEF StartSpawn
    <3>3. SameOwner(d)
      BY <1>23, <1>1, <3>1, <3>2 DEF SameOwner, Over, Listed
    <3>4. NoNewProcess(d)
      BY <1>23, <1>1, <2>1 DEF StartSpawn, NoNewProcess, Mine, ProcsT
    <3>5. QED
      BY <3>3, <3>4, SameOwnerKeep
  <2>2. CASE d = c
    <3>1. CASE Moves(d, k, "check") /\ mem'[d] = mem[d]
      <4>1. UNCHANGED <<loop, order, overruled, crashes>> /\ Known(d) /\ Busy(d, k)
        BY <1>23, <1>1, <2>2 DEF StartSpawn, Dicts, Busy
      <4>2. SameOwner(d)
        BY <1>23, <1>1, <2>2, <3>1, <4>1, StartSpawnDoes DEF Moves, SameOwner, Over, Listed
      <4>3. \A j \in Starts : j # k => procs'[d][j] = procs[d][j]
        BY <1>23, <1>1, <2>2 DEF StartSpawn, ProcsT
      <4>4. OwnedOf(d) /\ StartingOf(d)
        BY DEF Owned, Starting
      <4>5. d \notin overruled => Listed(d)' /\ loop'.op = "start"
        BY <4>1, <4>4 DEF StartingOf, Dicts, Listed
      <4>6. /\ starter'[d][k] = "check" /\ starter[d][k] \in {"spawn", "bare"}
            /\ \A j \in Starts : j # k => starter'[d][j] = starter[d][j]
        BY <1>23, <1>1, <2>2, <3>1, StartSpawnDoes DEF Moves
      <4>7. /\ mem'[d].proc # 0 => Over(d, mem[d].proc)'
            /\ mem'[d].state = "running" => mem'[d].proc # 0
        BY <1>23, <1>1, <3>1, <4>1, <4>2, <4>4 DEF OwnedOf, SameOwner, Record
      <4>8. \A j \in Starts : starter'[d][j] \in {"none", "rootfs", "unpack", "spawn", "bare"} => procs'[d][j].at = "none"
        BY <4>3, <4>4, <4>6 DEF OwnedOf
      <4>9. (d \notin overruled)' => \A j \in Starts : Mine(d, j)' =>
              mem'[d].proc = j \/ starter'[d][j] \in {"check", "assign", "stopping"}
        BY <3>1, <4>1, <4>3, <4>4, <4>6 DEF OwnedOf, Mine
      <4>10. QED
        BY <3>1, <4>1, <4>5, <4>7, <4>8, <4>9 DEF OwnedOf, Over
    <3>2. CASE Moves(d, k, "errorSave") /\ procs' = procs
      <4>1. UNCHANGED <<loop, order, overruled, crashes>>
        BY <1>23, <1>1 DEF StartSpawn
      <4>2. SameOwner(d)
        BY <1>23, <1>1, <2>2, <3>2, <4>1, StartSpawnDoes
           DEF Sets, Changed, Moves, SameOwner, Over, Listed
      <4>3. NoNewProcess(d)
        BY <3>2, <4>1, AgeNoNewProcess
      <4>4. QED
        BY <4>2, <4>3, SameOwnerKeep
    <3>3. QED
      BY <1>23, <1>1, <2>2, <3>1, <3>2, StartSpawnDoes
  <2>3. QED
    BY <2>1, <2>2
<1>24. ASSUME NEW c \in Containers, NEW k \in Starts, StartCheck(c, k) PROVE OwnedOf(d)'
  <2>1. CASE d # c
    <3>1. /\ mem'[d] = mem[d] /\ UNCHANGED <<loop, order>>
          /\ \A j \in Starts : starter'[d][j] = starter[d][j]
      BY <1>24, <1>1, <2>1, StartCheckDoes DEF StartCheck, Only
    <3>2. d \in overruled => (d \in overruled)'
      BY <1>24, <1>1 DEF StartCheck
    <3>3. SameOwner(d)
      BY <1>24, <1>1, <3>1, <3>2 DEF SameOwner, Over, Listed
    <3>4. NoNewProcess(d)
      BY <1>24, <1>1, ProcessSteps, AgeNoNewProcess DEF StartCheck
    <3>5. QED
      BY <3>3, <3>4, SameOwnerKeep
  <2>2. CASE d = c
    <3>1. UNCHANGED <<loop, order>> /\ (d \in overruled => (d \in overruled)')
      BY <1>24, <1>1 DEF StartCheck
    <3>2. SameOwner(d)
      BY <1>24, <1>1, <2>2, <3>1, StartCheckDoes
         DEF Sets, Changed, Moves, Stays, SameOwner, Over, Listed
    <3>3. NoNewProcess(d)
      BY <1>24, <1>1, ProcessSteps, AgeNoNewProcess DEF StartCheck
    <3>4. QED
      BY <3>2, <3>3, SameOwnerKeep
  <2>3. QED
    BY <2>1, <2>2
<1>25. ASSUME NEW c \in Containers, NEW k \in Starts, StartRunning(c, k) PROVE OwnedOf(d)'
  <2>1. CASE d # c
    <3>1. /\ mem'[d] = mem[d] /\ UNCHANGED <<loop, order>>
          /\ \A j \in Starts : starter'[d][j] = starter[d][j]
      BY <1>25, <1>1, <2>1, StartRunningDoes DEF StartRunning, Only
    <3>2. d \in overruled => (d \in overruled)'
      BY <1>25, <1>1 DEF StartRunning
    <3>3. SameOwner(d)
      BY <1>25, <1>1, <3>1, <3>2 DEF SameOwner, Over, Listed
    <3>4. NoNewProcess(d)
      BY <1>25, <1>1, AgeNoNewProcess DEF StartRunning
    <3>5. QED
      BY <3>3, <3>4, SameOwnerKeep
  <2>2. CASE d = c
    <3>1. /\ UNCHANGED <<loop, order, procs, overruled, crashes>> /\ Busy(d, k)
          /\ mem'[d].proc = k /\ mem'[d].state = "running" /\ mem[d] \in Record
          /\ starter'[d][k] = "save" /\ starter[d][k] = "assign"
          /\ \A j \in Starts : j # k => starter'[d][j] = starter[d][j]
      BY <1>25, <1>1, <2>2, StartRunningDoes, ZenonT(60) DEF StartRunning, Busy, Sets, Changed, Moves
    <3>2. OwnedOf(d) /\ StartingOf(d)
      BY DEF Owned, Starting
    <3>3. d \notin overruled => \A j \in Starts : Mine(d, j) => j = k
      <4>1. SUFFICES ASSUME d \notin overruled, NEW j \in Starts, Mine(d, j), j # k
                     PROVE  FALSE
        OBVIOUS
      <4>2. ~Busy(d, j)
        BY <3>1, <3>2, <4>1 DEF StartingOf
      <4>3. mem[d].proc = j
        BY <3>2, <4>1, <4>2 DEF OwnedOf, Busy
      <4>4. ProcessOf(d) = procs[d][j]
        BY <4>3 DEF ProcessOf, ProcessAt, Starts
      <4>5. Ended(procs[d][j])
        BY <3>1, <3>2, <4>1, <4>4 DEF StartingOf
      <4>6. QED
        BY <4>1, <4>5 DEF Ended, Mine
    <3>4. d \notin overruled => Listed(d)' /\ loop'.op = "start"
      BY <3>1, <3>2 DEF StartingOf, Dicts, Listed
    <3>5. \A j \in Starts : Mine(d, j)' <=> Mine(d, j)
      BY <3>1 DEF Mine
    <3>6. \A j \in Starts : starter'[d][j] \in {"none", "rootfs", "unpack", "spawn", "bare"} => procs'[d][j].at = "none"
      BY <3>1, <3>2 DEF OwnedOf
    <3>7. mem'[d].proc # 0 /\ Over(d, mem[d].proc)'
      BY <3>1 DEF Over, Starts
    <3>8. QED
      BY <3>1, <3>3, <3>4, <3>5, <3>6, <3>7 DEF OwnedOf, Over
  <2>3. QED
    BY <2>1, <2>2
<1>26. ASSUME NEW c \in Containers, NEW k \in Starts, StartKill(c, k) PROVE OwnedOf(d)'
  <2>1. SameOwner(d)
    BY <1>26, <1>1 DEF StartKill, SameOwner, Over, Listed
  <2>2. NoNewProcess(d)
    BY <1>26, <1>1, ProcessSteps, AgeNoNewProcess DEF StartKill
  <2>3. QED
    BY <2>1, <2>2, SameOwnerKeep
<1>27. ASSUME NEW c \in Containers, NEW k \in Starts, StartStopped(c, k) PROVE OwnedOf(d)'
  <2>1. CASE d # c
    <3>1. /\ mem'[d] = mem[d] /\ UNCHANGED <<loop, order>>
          /\ \A j \in Starts : starter'[d][j] = starter[d][j]
      BY <1>27, <1>1, <2>1, StartStoppedDoes DEF StartStopped, Only
    <3>2. d \in overruled => (d \in overruled)'
      BY <1>27, <1>1 DEF StartStopped
    <3>3. SameOwner(d)
      BY <1>27, <1>1, <3>1, <3>2 DEF SameOwner, Over, Listed
    <3>4. NoNewProcess(d)
      BY <1>27, <1>1, AgeNoNewProcess DEF StartStopped
    <3>5. QED
      BY <3>3, <3>4, SameOwnerKeep
  <2>2. CASE d = c
    <3>1. /\ UNCHANGED <<loop, order, procs, overruled, crashes>>
          /\ mem'[d].proc = mem[d].proc /\ mem'[d].state = "exited"
          /\ starter'[d][k] = "save" /\ starter[d][k] = "stopping" /\ Ended(procs[d][k])
          /\ \A j \in Starts : j # k => starter'[d][j] = starter[d][j]
          /\ mem[d] \in Record /\ mem'[d] \in Record
      BY <1>27, <1>1, <2>2, StartStoppedDoes DEF StartStopped, Sets, Changed, Moves
    <3>2. OwnedOf(d) /\ (mem[d].proc \in {0} \cup Starts) /\ Known(d)
      BY <1>27, <1>1, <3>1 DEF Owned, Record
    <3>3. \A j \in Starts : Mine(d, j)' => Mine(d, j) /\ j # k
      BY <3>1 DEF Mine, Ended
    <3>4. \A j \in Starts : Over(d, j) => Over(d, j)'
      BY <3>1 DEF Over
    <3>5. \A j \in Starts : starter'[d][j] \in {"none", "rootfs", "unpack", "spawn", "bare"} => procs'[d][j].at = "none"
      BY <3>1, <3>2 DEF OwnedOf
    <3>6. mem'[d].proc # 0 => Over(d, mem[d].proc)'
      BY <3>1, <3>2, <3>4 DEF OwnedOf
    <3>7. (d \notin overruled)' => \A j \in Starts : Mine(d, j)' =>
            Listed(d)' /\ (mem'[d].proc = j \/ starter'[d][j] \in {"check", "assign", "stopping"})
      BY <3>1, <3>2, <3>3 DEF OwnedOf, Listed
    <3>8. (d \notin overruled)' /\ loop'.op \in {"stop", "remove", "rmtree"} /\ loop'.cid = d
            => loop'.proc = mem'[d].proc
      BY <3>1, <3>2 DEF OwnedOf
    <3>9. QED
      BY <3>1, <3>5, <3>6, <3>7, <3>8 DEF OwnedOf, Over
  <2>3. QED
    BY <2>1, <2>2
<1>28. ASSUME NEW c \in Containers, NEW k \in Starts, StartRaised(c, k) PROVE OwnedOf(d)'
  <2>1. CASE d # c
    <3>1. /\ mem'[d] = mem[d] /\ UNCHANGED <<loop, order>>
          /\ \A j \in Starts : starter'[d][j] = starter[d][j]
      BY <1>28, <1>1, <2>1, StartRaisedDoes DEF StartRaised, Only
    <3>2. d \in overruled => (d \in overruled)'
      BY <1>28, <1>1 DEF StartRaised
    <3>3. SameOwner(d)
      BY <1>28, <1>1, <3>1, <3>2 DEF SameOwner, Over, Listed
    <3>4. NoNewProcess(d)
      BY <1>28, <1>1, AgeNoNewProcess DEF StartRaised
    <3>5. QED
      BY <3>3, <3>4, SameOwnerKeep
  <2>2. CASE d = c
    <3>1. UNCHANGED <<loop, order>> /\ (d \in overruled => (d \in overruled)')
      BY <1>28, <1>1 DEF StartRaised
    <3>2. SameOwner(d)
      BY <1>28, <1>1, <2>2, <3>1, StartRaisedDoes
         DEF Sets, Changed, Moves, Stays, SameOwner, Over, Listed
    <3>3. NoNewProcess(d)
      BY <1>28, <1>1, AgeNoNewProcess DEF StartRaised
    <3>4. QED
      BY <3>2, <3>3, SameOwnerKeep
  <2>3. QED
    BY <2>1, <2>2
<1>29. ASSUME NEW c \in Containers, NEW k \in Starts, SetSid(c, k) PROVE OwnedOf(d)'
  <2>1. SameOwner(d)
    BY <1>29, <1>1 DEF SetSid, SameOwner, Over, Listed
  <2>2. NoNewProcess(d)
    BY <1>29, <1>1, ProcessSteps, AgeNoNewProcess DEF SetSid
  <2>3. QED
    BY <2>1, <2>2, SameOwnerKeep
<1>30. ASSUME NEW c \in Containers, NEW k \in Starts, Exit(c, k) PROVE OwnedOf(d)'
  <2>1. SameOwner(d)
    BY <1>30, <1>1 DEF Exit, SameOwner, Over, Listed
  <2>2. NoNewProcess(d)
    BY <1>30, <1>1, ProcessSteps, AgeNoNewProcess DEF Exit
  <2>3. QED
    BY <2>1, <2>2, SameOwnerKeep
<1>31. ASSUME NEW by \in Savers, SaveBegin(by) PROVE OwnedOf(d)'
  <2>1. SameOwner(d)
    BY <1>31, <1>1 DEF SaveBegin, SameOwner, Over, Listed
  <2>2. NoNewProcess(d)
    BY <1>31, <1>1, AgeNoNewProcess DEF SaveBegin
  <2>3. QED
    BY <2>1, <2>2, SameOwnerKeep
<1>32. CASE SavePods
  <2>1. SameOwner(d)
    BY <1>32, <1>1 DEF SavePods, SameOwner, Over, Listed
  <2>2. NoNewProcess(d)
    BY <1>32, <1>1, AgeNoNewProcess DEF SavePods
  <2>3. QED
    BY <2>1, <2>2, SameOwnerKeep
<1>33. CASE SaveNext
  <2>1. SameOwner(d)
    BY <1>33, <1>1 DEF SaveNext, SameOwner, Over, Listed
  <2>2. NoNewProcess(d)
    BY <1>33, <1>1, AgeNoNewProcess DEF SaveNext
  <2>3. QED
    BY <2>1, <2>2, SameOwnerKeep
<1>34. CASE SaveCommit
  <2>1. /\ UNCHANGED <<order, procs, crashes, overruled>>
        /\ loop'.op \in {"stop", "remove", "rmtree"} => loop' = loop
    BY <1>34, <1>1, SaveEnds DEF SaveCommit, Idle
  <2>2. \A j \in Starts :
          \/ starter'[d][j] = starter[d][j]
          \/ /\ starter[d][j] \in {"save", "errorSave"}
             /\ starter'[d][j] \in {"raised", "done"}
    BY <1>34, <1>1, SaveEnds
  <2>3. \/ mem'[d] = mem[d]
        \/ Sets(d, mem[d].state, "preparing", mem[d].start, mem[d].proc)
    BY <1>34, <1>1, SaveEnds, PreparesDoes
  <2>4. SameOwner(d)
    BY <1>34, <1>1, <2>1, <2>2, <2>3 DEF SameOwner, Over, Listed, Sets, Changed
  <2>5. QED
    BY <2>1, <2>4, AgeNoNewProcess, SameOwnerKeep
<1>35. CASE SaveRaise
  <2>1. /\ UNCHANGED <<order, procs, crashes, overruled>>
        /\ loop'.op \in {"stop", "remove", "rmtree"} => loop' = loop
    BY <1>35, <1>1, SaveEnds DEF SaveRaise, Idle
  <2>2. \A j \in Starts :
          \/ starter'[d][j] = starter[d][j]
          \/ /\ starter[d][j] \in {"save", "errorSave"}
             /\ starter'[d][j] \in {"raised", "done"}
    BY <1>35, <1>1, SaveEnds
  <2>3. \/ mem'[d] = mem[d]
        \/ Sets(d, mem[d].state, "preparing", mem[d].start, mem[d].proc)
    BY <1>35, <1>1, SaveEnds, PreparesDoes
  <2>4. SameOwner(d)
    BY <1>35, <1>1, <2>1, <2>2, <2>3 DEF SameOwner, Over, Listed, Sets, Changed
  <2>5. QED
    BY <2>1, <2>4, AgeNoNewProcess, SameOwnerKeep
<1>36. CASE Crash
  <2>1. /\ \A j \in Starts : starter'[d][j] = IF starter[d][j] = "none" THEN "none" ELSE "done"
        /\ UNCHANGED <<mem, procs>> /\ loop'.op = "idle" /\ crashes' = crashes + 1
    BY <1>36, <1>1 DEF Crash
  <2>2. \A j \in Starts : ~Mine(d, j)'
    BY <2>1 DEF Mine, Down, RestT, ProcsT, Process
  <2>3. OwnedOf(d) /\ (Known(d) => mem[d] \in Record /\ mem[d].proc \in {0} \cup Starts)
    BY DictsThere DEF Owned, Record
  <2>4. \A j \in Starts : Over(d, j) => Over(d, j)'
    BY <2>1 DEF Over
  <2>5. \A j \in Starts : starter'[d][j] \in {"none", "rootfs", "unpack", "spawn", "bare"} => procs'[d][j].at = "none"
    BY <2>1, <2>3 DEF OwnedOf
  <2>6. mem'[d] = mem[d]
    BY <2>1
  <2>7. Known(d) => /\ mem[d].proc # 0 => Over(d, mem[d].proc)'
                    /\ mem[d].state = "running" => mem[d].proc # 0
    BY <2>3, <2>4, <2>6 DEF OwnedOf
  <2>8. QED
    BY <2>1, <2>2, <2>5, <2>6, <2>7 DEF OwnedOf, Over
<1>37. CASE Restart
  <2>1. /\ \A j \in Starts : starter'[d][j] = starter[d][j]
        /\ UNCHANGED <<procs, crashes>> /\ loop'.op = "idle"
    BY <1>37, <1>1 DEF Restart, Down
  <2>2. \A j \in Starts : ~Mine(d, j)'
    BY <1>37, <1>1, <2>1 DEF Restart, Down, Mine, RestT, ProcsT, Process
  <2>3. Known(d)' => mem'[d].proc = 0 /\ mem'[d].state # "running"
    BY <1>37, <1>1, RestartDoes
  <2>4. OwnedOf(d)
    BY DEF Owned
  <2>5. QED
    BY <2>1, <2>2, <2>3, <2>4 DEF OwnedOf
<1>38. CASE UNCHANGED vars
  BY <1>38, <1>1, AgeNoNewProcess, SameOwnerKeep DEF vars, SameOwner, Over, Listed
<1>39. QED
  BY <1>2, <1>3, <1>4, <1>5, <1>6, <1>7, <1>8, <1>9, <1>10, <1>11, <1>12, <1>13, <1>14,
     <1>15, <1>16, <1>17, <1>18, <1>19, <1>20, <1>21, <1>22, <1>23, <1>24, <1>25, <1>26, <1>27,
     <1>28, <1>29, <1>30, <1>31, <1>32, <1>33, <1>34, <1>35, <1>36, <1>37, <1>38
   DEF Next, PodStep, LoopStep, SaveStep, ContainerStep, RootfsStep, StarterStep

(* A step that keeps what is known of the rootfs of d, or learns that it is*)
(* not ready.                                                              *)
ReadySaved(d) == SavedReady(disk, d) \/ (saving # NoSave /\ SavedReady(saving, d))

SameRootfs(d) ==
  /\ ReadySaved(d)' => ReadySaved(d)
  /\ Known(d) <=> Known(d)'
  /\ Known(d) => \/ mem'[d].rootfs = mem[d].rootfs \/ mem'[d].rootfs = "error"
                 \/ mem[d].rootfs \notin {"ready", "error"} /\ mem'[d].rootfs # "ready"
  /\ bundle'[d] = bundle[d]
  /\ rootfsThread'[d] = "metadata" => rootfsThread[d] = "metadata"
  /\ d \in removing => (d \in removing)'

(* A step that leaves the rootfs of d alone keeps its invariant.           *)
LEMMA SameRootfsKeep ==
  ASSUME Unpacked, NEW d \in Containers, SameRootfs(d)
  PROVE  UnpackedOf(d)'
<1>1. UnpackedOf(d)
  BY DEF Unpacked
<1>2. ReadySaved(d)' => (Known(d) /\ mem[d].rootfs \in {"ready", "error"} /\ Good(d))'
  BY <1>1 DEF UnpackedOf, SameRootfs, ReadySaved, Good
<1>3. (Known(d) /\ mem[d].rootfs = "ready")' => Good(d)'
  BY <1>1 DEF UnpackedOf, SameRootfs, Good
<1>4. /\ rootfsThread'[d] = "metadata" => bundle'[d] = "partial" \/ (d \in removing)'
      /\ bundle'[d] = "torn" => (d \in removing)'
  BY <1>1 DEF UnpackedOf, SameRootfs
<1>5. QED
  BY <1>2, <1>3, <1>4 DEF UnpackedOf, ReadySaved

(* While no save moves, the rootfs saved as ready are the same.            *)
LEMMA SameSaved ==
  ASSUME NEW d, UNCHANGED <<disk, saving>>
  PROVE  ReadySaved(d)' => ReadySaved(d)
BY DEF ReadySaved, SavedReady

(* What is saved of a container is saved with its key, and once.           *)
LEMMA ConfsHeld ==
  ASSUME Lists, ListsT, SavingT, NEW d \in Containers
  PROVE  /\ SavedReady(disk, d) => Holds(disk.keys, d)
         /\ saving # NoSave /\ SavedReady(saving, d) => Holds(saving.keys, d)
<1>1. DOMAIN disk.conts = DOMAIN disk.keys
  BY DEF Lists, ListsT, Snapshot
<1>2. saving # NoSave => \A i \in DOMAIN saving.conts : i \in DOMAIN saving.keys
  BY SavingTypes DEF Lists
<1>3. QED
  BY <1>1, <1>2 DEF SavedReady, Holds

(* A container has one entry in the state file.                            *)
LEMMA OneConf ==
  ASSUME Lists, ListsT, NEW i \in DOMAIN disk.keys, NEW j \in DOMAIN disk.conts,
         disk.keys[i] = disk.keys[j]
  PROVE  i = j
<1>1. DOMAIN disk.conts = DOMAIN disk.keys
  BY DEF Lists, ListsT, Snapshot
<1>2. QED
  BY <1>1 DEF Lists, Distinct

(* Every step keeps the invariant of what a rootfs that is said to be      *)
(* ready holds: it is said so after the metadata was written, or loaded    *)
(* from a file that said so.                                               *)
LEMMA UnpackedStep ==
  ASSUME MemT, ProcsT, StarterT, RootfsT, LoopT, SavingT, ListsT, RestT, Lists, Dicts,
         Down, Saver, Preparing, Unpacked, Removed, NEW d \in Containers, [Next]_vars
  PROVE  UnpackedOf(d)'
<1> USE DEF Known, Free, Idle, memVars, threadVars, worldVars
<1>1. /\ Known(d) => mem[d] \in Record
      /\ \A r \in Record : r # NoContainer
      /\ Listed(d) => Known(d)
  BY NoDict, DictsThere DEF Dicts
<1>2. ASSUME NEW s \in Sandboxes, RunPodSandbox(s) PROVE UnpackedOf(d)'
  <2>1. SameRootfs(d)
    BY <1>2, <1>1, SameSaved DEF RunPodSandbox, SameRootfs
  <2>2. QED
    BY <2>1, SameRootfsKeep
<1>3. ASSUME NEW s \in Sandboxes, StopPodSandbox(s) PROVE UnpackedOf(d)'
  <2>1. /\ UNCHANGED <<order, disk, saving, bundle, crashes, overruled, removing>>
        /\ \A j \in Starts : starter'[d][j] = starter[d][j]
        /\ rootfsThread'[d] = rootfsThread[d]
    BY <1>3, <1>1 DEF StopPodSandbox
  <2>2. Known(d) => Known(d)' /\ mem'[d].rootfs = mem[d].rootfs
    BY <1>3, <1>1, StopPodSandboxDoes DEF Sets, Changed, Only
  <2>3. Known(d)' => Known(d)
    BY <1>3, <1>1, StopPodSandboxDoes DEF Sets, Changed, Only
  <2>4. SameRootfs(d)
    BY <1>3, <1>1, <2>1, <2>2, <2>3, SameSaved DEF SameRootfs
  <2>5. QED
    BY <2>4, SameRootfsKeep
<1>4. ASSUME NEW s \in Sandboxes, RemovePodSandbox(s) PROVE UnpackedOf(d)'
  <2>1. SameRootfs(d)
    BY <1>4, <1>1, SameSaved DEF RemovePodSandbox, SameRootfs
  <2>2. QED
    BY <2>1, SameRootfsKeep
<1>5. CASE InsertPod
  <2>1. SameRootfs(d)
    BY <1>5, <1>1, SameSaved DEF InsertPod, Then, SameRootfs
  <2>2. QED
    BY <2>1, SameRootfsKeep
<1>6. CASE ReleasePodNetwork
  <2>1. SameRootfs(d)
    BY <1>6, <1>1, SameSaved DEF ReleasePodNetwork, Then, SameRootfs
  <2>2. QED
    BY <2>1, SameRootfsKeep
<1>7. ASSUME NEW c \in Containers, NEW s \in Sandboxes, CreateContainer(c, s)
      PROVE  UnpackedOf(d)'
  <2>1. UNCHANGED <<disk, saving, bundle, crashes, overruled, removing>>
    BY <1>7, <1>1 DEF CreateContainer
  <2>2. \A e \in Containers : Listed(e)' <=> Listed(e) \/ e = c
    BY <1>7, <1>1, Appended DEF CreateContainer
  <2>3. CASE d # c
    <3>1. /\ mem'[d] = mem[d] /\ rootfsThread'[d] = rootfsThread[d]
          /\ \A j \in Starts : starter'[d][j] = starter[d][j]
      BY <1>7, <1>1, <2>3, CreateContainerDoes DEF Only
    <3>2. SameRootfs(d)
      BY <1>7, <1>1, <2>1, <2>2, <2>3, <3>1, SameSaved DEF SameRootfs
    <3>3. QED
      BY <3>2, SameRootfsKeep
  <2>4. CASE d = c
    <3>1. ~Holds(disk.keys, d) /\ (saving # NoSave => ~Holds(saving.keys, d))
      BY <1>7, <1>1, <2>4 DEF CreateContainer, Dicts
    <3>2. ~ReadySaved(d)
      BY <3>1, ConfsHeld DEF ReadySaved
    <3>3. ~ReadySaved(d)'
      BY <2>1, <3>2, SameSaved
    <3>4. mem'[d].rootfs = "none" /\ rootfsThread'[d] = "none"
      <4>1. mem'[d] = NewContainer(s) /\ rootfsThread'[d] = "none"
        BY <1>7, <1>1, <2>4, CreateContainerDoes
      <4>2. QED
        BY <4>1 DEF NewContainer
    <3>5. bundle'[d] = bundle[d] /\ (d \in removing => (d \in removing)')
      BY <2>1
    <3>6. QED
      BY <3>3, <3>4, <3>5 DEF UnpackedOf, ReadySaved, Unpacked
  <2>5. QED
    BY <2>3, <2>4
<1>8. ASSUME NEW c \in Containers, StartContainer(c) PROVE UnpackedOf(d)'
  <2>1. CASE d # c
    <3>1. /\ mem'[d] = mem[d] /\ rootfsThread'[d] = rootfsThread[d]
          /\ \A j \in Starts : starter'[d][j] = starter[d][j]
      BY <1>8, <1>1, <2>1, StartContainerDoes DEF Only
    <3>2. /\ UNCHANGED <<order, disk, saving, crashes, removing>> /\ bundle'[d] = bundle[d]
          /\ d \in overruled => (d \in overruled)'
      BY <1>8, <1>1, <2>1 DEF StartContainer, RestT
    <3>3. SameRootfs(d)
      BY <1>8, <1>1, <3>1, <3>2, SameSaved DEF SameRootfs
    <3>4. QED
      BY <3>3, SameRootfsKeep
  <2>2. CASE d = c
    <3>1. /\ UNCHANGED <<order, disk, saving, crashes, removing>> /\ bundle'[d] = bundle[d]
          /\ d \in overruled => (d \in overruled)'
      BY <1>8, <1>1, <2>2 DEF StartContainer
    <3>2. rootfsThread'[d] = "metadata" => rootfsThread[d] = "metadata"
      BY <1>8, <1>1, <2>2, StartContainerDoes DEF Moves, Stays
    <3>3. /\ Known(d) /\ Known(d)'
          /\ \/ mem'[d].rootfs = mem[d].rootfs \/ mem'[d].rootfs = "error"
             \/ mem[d].rootfs \notin {"ready", "error"} /\ mem'[d].rootfs # "ready"
      <4>1. mem[c] \in Record
        BY <1>8, <1>1, DictsThere DEF StartContainer
      <4>2. QED
        BY <1>8, <1>1, <4>1, <2>2, StartContainerDoes DEF Sets, Changed
    <3>4. SameRootfs(d)
      BY <1>8, <1>1, <3>1, <3>2, <3>3, SameSaved DEF SameRootfs
    <3>5. QED
      BY <3>4, SameRootfsKeep
  <2>3. QED
    BY <2>1, <2>2
<1>9. ASSUME NEW c \in Containers, StopContainer(c) PROVE UnpackedOf(d)'
  <2>1. /\ UNCHANGED <<order, disk, saving, bundle, crashes, overruled, removing>>
        /\ \A j \in Starts : starter'[d][j] = starter[d][j]
        /\ rootfsThread'[d] = rootfsThread[d]
    BY <1>9, <1>1 DEF StopContainer
  <2>2. Known(d) => Known(d)' /\ mem'[d].rootfs = mem[d].rootfs
    BY <1>9, <1>1, StopContainerDoes DEF Sets, Changed, Only
  <2>3. Known(d)' => Known(d)
    BY <1>9, <1>1, StopContainerDoes DEF Sets, Changed, Only
  <2>4. SameRootfs(d)
    BY <1>9, <1>1, <2>1, <2>2, <2>3, SameSaved DEF SameRootfs
  <2>5. QED
    BY <2>4, SameRootfsKeep
<1>10. ASSUME NEW c \in Containers, RemoveContainer(c) PROVE UnpackedOf(d)'
  <2>1. /\ UNCHANGED <<order, disk, saving, bundle, crashes, overruled, removing>>
        /\ \A j \in Starts : starter'[d][j] = starter[d][j]
        /\ rootfsThread'[d] = rootfsThread[d]
    BY <1>10, <1>1 DEF RemoveContainer
  <2>2. Known(d) => Known(d)' /\ mem'[d].rootfs = mem[d].rootfs
    BY <1>10, <1>1, StopContainerDoes DEF Sets, Changed, Only
  <2>3. Known(d)' => Known(d)
    BY <1>10, <1>1, StopContainerDoes DEF Sets, Changed, Only
  <2>4. SameRootfs(d)
    BY <1>10, <1>1, <2>1, <2>2, <2>3, SameSaved DEF SameRootfs
  <2>5. QED
    BY <2>4, SameRootfsKeep
<1>11. ASSUME NEW c \in Containers, RefreshContainerState(c) PROVE UnpackedOf(d)'
  <2>1. /\ UNCHANGED <<order, disk, saving, bundle, crashes, overruled, removing>>
        /\ \A j \in Starts : starter'[d][j] = starter[d][j]
        /\ rootfsThread'[d] = rootfsThread[d]
    BY <1>11, <1>1 DEF RefreshContainerState
  <2>2. Known(d) => Known(d)' /\ mem'[d].rootfs = mem[d].rootfs
    BY <1>11, <1>1, RefreshDoes DEF Sets, Changed, Only
  <2>3. Known(d)' => Known(d)
    BY <1>11, <1>1, RefreshDoes DEF Sets, Changed, Only
  <2>4. SameRootfs(d)
    BY <1>11, <1>1, <2>1, <2>2, <2>3, SameSaved DEF SameRootfs
  <2>5. QED
    BY <2>4, SameRootfsKeep
<1>12. CASE StartAnswer
  <2>1. SameRootfs(d)
    BY <1>12, <1>1, SameSaved DEF StartAnswer, SameRootfs
  <2>2. QED
    BY <2>1, SameRootfsKeep
<1>13. CASE StopKill
  <2>1. SameRootfs(d)
    BY <1>13, <1>1, SameSaved DEF StopKill, SameRootfs
  <2>2. QED
    BY <2>1, SameRootfsKeep
<1>14. CASE StopAnswer
  <2>1. /\ UNCHANGED <<order, disk, saving, bundle, crashes, overruled, removing>>
        /\ \A j \in Starts : starter'[d][j] = starter[d][j]
        /\ rootfsThread'[d] = rootfsThread[d]
    BY <1>14, <1>1 DEF StopAnswer
  <2>2. Known(d) => Known(d)' /\ mem'[d].rootfs = mem[d].rootfs
    BY <1>14, <1>1, StopAnswerDoes DEF Sets, Changed, Only
  <2>3. Known(d)' => Known(d)
    BY <1>14, <1>1, StopAnswerDoes DEF Sets, Changed, Only
  <2>4. SameRootfs(d)
    BY <1>14, <1>1, <2>1, <2>2, <2>3, SameSaved DEF SameRootfs
  <2>5. QED
    BY <2>4, SameRootfsKeep
<1>15. CASE RemoveDelete
  <2>1. UNCHANGED <<mem, rootfsThread, saving, disk>> /\ removing' = removing \cup {loop.cid}
    BY <1>15, <1>1 DEF RemoveDelete
  <2>2. CASE d # loop.cid
    <3>1. bundle'[d] = bundle[d]
      BY <1>15, <1>1, <2>2, LoopTypes DEF RemoveDelete, RestT
    <3>2. SameRootfs(d)
      BY <1>15, <1>1, <2>1, <3>1, SameSaved DEF SameRootfs
    <3>3. QED
      BY <3>2, SameRootfsKeep
  <2>3. CASE d = loop.cid
    <3>1. ReadySaved(d)' => (Known(d) /\ mem[d].rootfs \in {"ready", "error"})'
      BY <2>1, SameSaved DEF Unpacked, UnpackedOf, ReadySaved
    <3>2. QED
      BY <2>1, <2>3, <3>1 DEF UnpackedOf, ReadySaved, Good
  <2>4. QED
    BY <2>2, <2>3
<1>16. CASE RemoveFinish
  <2>1. UNCHANGED <<mem, rootfsThread, saving, disk, removing>>
    BY <1>16, <1>1 DEF RemoveFinish
  <2>2. CASE d # loop.cid
    <3>1. bundle'[d] = bundle[d]
      BY <1>16, <1>1, <2>2, LoopTypes DEF RemoveFinish, RestT
    <3>2. SameRootfs(d)
      BY <1>16, <1>1, <2>1, <3>1, SameSaved DEF SameRootfs
    <3>3. QED
      BY <3>2, SameRootfsKeep
  <2>3. CASE d = loop.cid
    <3>1. d \in removing
      BY <1>16, <2>3 DEF RemoveFinish, Removed, RemovedOf, Removing
    <3>2. ReadySaved(d)' => (Known(d) /\ mem[d].rootfs \in {"ready", "error"})'
      BY <2>1, SameSaved DEF Unpacked, UnpackedOf, ReadySaved
    <3>3. QED
      BY <2>1, <3>1, <3>2 DEF UnpackedOf, ReadySaved, Good
  <2>4. QED
    BY <2>2, <2>3
<1>17. ASSUME NEW c \in Containers, RootfsPull(c) PROVE UnpackedOf(d)'
  <2>1. CASE d # c
    <3>1. /\ mem'[d] = mem[d] /\ rootfsThread'[d] = rootfsThread[d]
          /\ \A j \in Starts : starter'[d][j] = starter[d][j]
      BY <1>17, <1>1, <2>1, RootfsStepDoes DEF Only, RootfsStep
    <3>2. /\ UNCHANGED <<order, disk, saving, crashes, removing>> /\ bundle'[d] = bundle[d]
          /\ d \in overruled => (d \in overruled)'
      BY <1>17, <1>1, <2>1 DEF RootfsPull, RestT
    <3>3. SameRootfs(d)
      BY <1>17, <1>1, <3>1, <3>2, SameSaved DEF SameRootfs
    <3>4. QED
      BY <3>3, SameRootfsKeep
  <2>2. CASE d = c
    <3>1. ~ReadySaved(d) /\ mem[d] \in Record
      BY <1>17, <1>1, <2>2, DictsThere
         DEF RootfsPull, Preparing, PreparingOf, Active, Unpacked, UnpackedOf,
         ReadySaved, Dicts
    <3>2. ~ReadySaved(d)'
      BY <1>17, <1>1, <3>1, SameSaved DEF RootfsPull
    <3>3. UNCHANGED <<bundle, removing>>
      BY <1>17, <1>1 DEF RootfsPull
    <3>4. rootfsThread'[d] # "metadata" /\ (mem'[d].rootfs = "ready" => Good(d))
      <4>1. mem[d].rootfs = "preparing"
        BY <1>17, <1>1, <2>2 DEF RootfsPull, Preparing, PreparingOf, Active
      <4>2. CASE Rootfs(c, "unpack") /\ UNCHANGED mem
        BY <2>2, <4>1, <4>2 DEF Rootfs, RootfsT
      <4>3. CASE MayMatch(c) /\ RootfsDone(c, "ready")
        BY <2>2, <4>3
           DEF RootfsDone, Rootfs, RootfsT, MayMatch, Good, Unpacked, UnpackedOf
      <4>4. CASE RootfsDone(c, "fallback")
        BY <2>2, <3>1, <4>4, SetDict DEF RootfsDone, Rootfs, RootfsT, Record
      <4>5. CASE RootfsError(c)
        BY <2>2, <3>1, <4>5, SetDict DEF RootfsError, Rootfs, RootfsT, Record
      <4>6. QED
        BY <1>17, <1>1, <4>2, <4>3, <4>4, <4>5 DEF RootfsPull
    <3>5. QED
      BY <3>2, <3>3, <3>4 DEF Unpacked, UnpackedOf, ReadySaved, Good
  <2>3. QED
    BY <2>1, <2>2
<1>18. ASSUME NEW c \in Containers, RootfsUnpack(c) PROVE UnpackedOf(d)'
  <2>1. CASE d # c
    <3>1. /\ mem'[d] = mem[d] /\ rootfsThread'[d] = rootfsThread[d]
          /\ \A j \in Starts : starter'[d][j] = starter[d][j]
      BY <1>18, <1>1, <2>1, RootfsStepDoes DEF Only, RootfsStep
    <3>2. /\ UNCHANGED <<order, disk, saving, crashes, removing>> /\ bundle'[d] = bundle[d]
          /\ d \in overruled => (d \in overruled)'
      BY <1>18, <1>1, <2>1 DEF RootfsUnpack, Bundle, RestT
    <3>3. SameRootfs(d)
      BY <1>18, <1>1, <3>1, <3>2, SameSaved DEF SameRootfs
    <3>4. QED
      BY <3>3, SameRootfsKeep
  <2>2. CASE d = c
    <3>1. ~ReadySaved(d) /\ mem[d] \in Record
      BY <1>18, <1>1, <2>2, DictsThere
         DEF RootfsUnpack, Preparing, PreparingOf, Active, Unpacked, UnpackedOf,
         ReadySaved, Dicts
    <3>2. ~ReadySaved(d)'
      BY <1>18, <1>1, <3>1, SameSaved DEF RootfsUnpack
    <3>3. /\ removing' = removing /\ bundle'[d] \in {"absent", "partial", "torn"}
          /\ bundle'[d] = "torn" => bundle[d] = "torn"
          /\ rootfsThread'[d] = "metadata" /\ bundle[d] # "torn" => bundle'[d] = "partial"
      BY <1>18, <1>1, <2>2
         DEF RootfsUnpack, Bundle, Unpacking, Failing, RestT, RootfsError, Rootfs, RootfsT
    <3>4. mem'[d].rootfs # "ready"
      <4>1. mem[d].rootfs = "preparing"
        BY <1>18, <1>1, <2>2 DEF RootfsUnpack, Preparing, PreparingOf, Active
      <4>2. CASE UNCHANGED mem
        BY <4>1, <4>2
      <4>3. CASE RootfsError(c)
        BY <2>2, <3>1, <4>3, SetDict DEF RootfsError, Record
      <4>4. QED
        BY <1>18, <1>1, <4>2, <4>3 DEF RootfsUnpack
    <3>5. QED
      BY <3>2, <3>3, <3>4 DEF Unpacked, UnpackedOf, ReadySaved
  <2>3. QED
    BY <2>1, <2>2
<1>19. ASSUME NEW c \in Containers, RootfsMetadata(c) PROVE UnpackedOf(d)'
  <2>1. CASE d # c
    <3>1. /\ mem'[d] = mem[d] /\ rootfsThread'[d] = rootfsThread[d]
          /\ \A j \in Starts : starter'[d][j] = starter[d][j]
      BY <1>19, <1>1, <2>1, RootfsStepDoes DEF Only, RootfsStep
    <3>2. /\ UNCHANGED <<order, disk, saving, crashes, removing>> /\ bundle'[d] = bundle[d]
          /\ d \in overruled => (d \in overruled)'
      BY <1>19, <1>1, <2>1 DEF RootfsMetadata, Bundle, RestT
    <3>3. SameRootfs(d)
      BY <1>19, <1>1, <3>1, <3>2, SameSaved DEF SameRootfs
    <3>4. QED
      BY <3>3, SameRootfsKeep
  <2>2. CASE d = c
    <3>1. ~ReadySaved(d) /\ mem[d] \in Record
      BY <1>19, <1>1, <2>2, DictsThere
         DEF RootfsMetadata, Preparing, PreparingOf, Active, Unpacked, UnpackedOf,
         ReadySaved, Dicts
    <3>2. ~ReadySaved(d)'
      BY <1>19, <1>1, <3>1, SameSaved DEF RootfsMetadata
    <3>3. /\ rootfsThread[d] = "metadata" /\ rootfsThread'[d] \in {"save", "errorSave"}
          /\ removing' = removing
      BY <1>19, <1>1, <2>2 DEF RootfsMetadata, RootfsDone, RootfsError, Rootfs, RootfsT
    <3>4. /\ bundle'[d] \in Sealed(d) \/ bundle'[d] = bundle[d]
          /\ mem'[d].rootfs = "ready" => bundle'[d] \in Sealed(d)
      <4>1. CASE RootfsError(c) /\ UNCHANGED bundle
        BY <2>2, <3>1, <4>1, SetDict DEF RootfsError, Record
      <4>2. CASE \E is \in Sealed(c) : Bundle(c, is)
        BY <2>2, <4>2 DEF Bundle, RestT
      <4>3. QED
        BY <1>19, <1>1, <4>1, <4>2 DEF RootfsMetadata
    <3>5. bundle[d] = "partial" \/ d \in removing
      BY <3>3 DEF Unpacked, UnpackedOf
    <3>6. QED
      BY <3>2, <3>3, <3>4, <3>5 DEF Unpacked, UnpackedOf, ReadySaved, Sealed, Good
  <2>3. QED
    BY <2>1, <2>2
<1>20. ASSUME NEW c \in Containers, RootfsRaised(c) PROVE UnpackedOf(d)'
  <2>1. CASE d # c
    <3>1. /\ mem'[d] = mem[d] /\ rootfsThread'[d] = rootfsThread[d]
          /\ \A j \in Starts : starter'[d][j] = starter[d][j]
      BY <1>20, <1>1, <2>1, RootfsStepDoes DEF Only, RootfsStep
    <3>2. /\ UNCHANGED <<order, disk, saving, crashes, removing>> /\ bundle'[d] = bundle[d]
          /\ d \in overruled => (d \in overruled)'
      BY <1>20, <1>1, <2>1 DEF RootfsRaised, RestT
    <3>3. SameRootfs(d)
      BY <1>20, <1>1, <3>1, <3>2, SameSaved DEF SameRootfs
    <3>4. QED
      BY <3>3, SameRootfsKeep
  <2>2. CASE d = c
    <3>1. /\ UNCHANGED <<order, disk, saving, crashes, bundle, starter, overruled, removing>>
          /\ mem'[d].rootfs = "error" /\ rootfsThread'[d] = "errorSave" /\ Known(d) /\ Known(d)'
      <4>1. mem[c] \in Record
        BY <1>20, <1>1, DictsThere DEF RootfsRaised
      <4>2. mem'[c] = [mem[c] EXCEPT !.rootfs = "error"] /\ rootfsThread'[c] = "errorSave"
        BY <1>20, <1>1, SetDict DEF RootfsRaised, RootfsError, Rootfs, RootfsT
      <4>3. mem'[c].rootfs = "error" /\ mem'[c] \in Record
        BY <4>1, <4>2 DEF Record
      <4>4. QED
        BY <1>20, <1>1, <2>2, <4>1, <4>2, <4>3 DEF RootfsRaised
    <3>2. SameRootfs(d)
      BY <1>20, <1>1, <3>1, SameSaved DEF SameRootfs
    <3>3. QED
      BY <3>2, SameRootfsKeep
  <2>3. QED
    BY <2>1, <2>2
<1>21. ASSUME NEW c \in Containers, NEW k \in Starts, StartRootfs(c, k)
      PROVE  UnpackedOf(d)'
  <2>1. CASE d # c
    <3>1. /\ mem'[d] = mem[d] /\ rootfsThread'[d] = rootfsThread[d]
          /\ \A j \in Starts : starter'[d][j] = starter[d][j]
      BY <1>21, <1>1, <2>1, StartRootfsDoes DEF Only
    <3>2. /\ UNCHANGED <<order, disk, saving, crashes, removing>> /\ bundle'[d] = bundle[d]
          /\ d \in overruled => (d \in overruled)'
      BY <1>21, <1>1, <2>1 DEF StartRootfs, RestT
    <3>3. SameRootfs(d)
      BY <1>21, <1>1, <3>1, <3>2, SameSaved DEF SameRootfs
    <3>4. QED
      BY <3>3, SameRootfsKeep
  <2>2. CASE d = c
    <3>1. /\ UNCHANGED <<order, disk, saving, crashes, removing>> /\ bundle'[d] = bundle[d]
          /\ d \in overruled => (d \in overruled)'
      BY <1>21, <1>1, <2>2 DEF StartRootfs
    <3>2. rootfsThread'[d] = "metadata" => rootfsThread[d] = "metadata"
      BY <1>21, <1>1, <2>2, StartRootfsDoes DEF Moves, Stays
    <3>3. /\ Known(d) /\ Known(d)'
          /\ \/ mem'[d].rootfs = mem[d].rootfs \/ mem'[d].rootfs = "error"
             \/ mem[d].rootfs \notin {"ready", "error"} /\ mem'[d].rootfs # "ready"
      <4>1. mem[c] \in Record
        BY <1>21, <1>1, DictsThere DEF StartRootfs
      <4>2. QED
        BY <1>21, <1>1, <4>1, <2>2, StartRootfsDoes DEF Sets, Changed
    <3>4. SameRootfs(d)
      BY <1>21, <1>1, <3>1, <3>2, <3>3, SameSaved DEF SameRootfs
    <3>5. QED
      BY <3>4, SameRootfsKeep
  <2>3. QED
    BY <2>1, <2>2
<1>22. ASSUME NEW c \in Containers, NEW k \in Starts, StartEnsure(c, k) \/ StartUnpack(c, k)
      PROVE  UnpackedOf(d)'
  <2>1. CASE d # c
    <3>1. /\ mem'[d] = mem[d] /\ rootfsThread'[d] = rootfsThread[d]
          /\ \A j \in Starts : starter'[d][j] = starter[d][j]
      BY <1>22, <1>1, <2>1, StartEnsureDoes DEF Only
    <3>2. /\ UNCHANGED <<order, disk, saving, crashes, removing>> /\ bundle'[d] = bundle[d]
          /\ d \in overruled => (d \in overruled)'
      BY <1>22, <1>1, <2>1 DEF StartEnsure, StartUnpack, Bundle, RestT
    <3>3. SameRootfs(d)
      BY <1>22, <1>1, <3>1, <3>2, SameSaved DEF SameRootfs
    <3>4. QED
      BY <3>3, SameRootfsKeep
  <2>2. CASE d = c
    <3>1. /\ UNCHANGED <<disk, saving, removing, rootfsThread>>
          /\ bundle'[d] = bundle[d] \/ d \in removing
      <4>1. CASE StartEnsure(c, k)
        <5>1. Known(d) /\ mem[d].rootfs = "ready" /\ bundle[d] \in {"absent", "torn"}
          BY <2>2, <4>1, DictsThere, NoDict DEF StartEnsure
        <5>2. QED
          BY <2>2, <4>1, <5>1 DEF StartEnsure, Unpacked, UnpackedOf, Good
      <4>2. CASE StartUnpack(c, k)
        BY <2>2, <4>2 DEF StartUnpack, Removed, RemovedOf, RemovalCut
      <4>3. QED
        BY <1>22, <4>1, <4>2
    <3>2. Known(d) /\ Known(d)' /\ mem'[d].rootfs = mem[d].rootfs
      BY <1>22, <1>1, <2>2, StartEnsureDoes DEF Sets, Changed
    <3>3. ReadySaved(d)' => ReadySaved(d)
      BY <3>1, SameSaved
    <3>4. CASE bundle'[d] = bundle[d]
      <4>1. SameRootfs(d)
        BY <3>1, <3>2, <3>3, <3>4 DEF SameRootfs
      <4>2. QED
        BY <4>1, SameRootfsKeep
    <3>5. CASE d \in removing
      BY <3>1, <3>2, <3>3, <3>5 DEF Unpacked, UnpackedOf, ReadySaved, Good
    <3>6. QED
      BY <3>1, <3>4, <3>5
  <2>3. QED
    BY <2>1, <2>2
<1>23. ASSUME NEW c \in Containers, NEW k \in Starts, StartSpawn(c, k)
      PROVE  UnpackedOf(d)'
  <2>1. CASE d # c
    <3>1. /\ mem'[d] = mem[d] /\ rootfsThread'[d] = rootfsThread[d]
          /\ \A j \in Starts : starter'[d][j] = starter[d][j]
      BY <1>23, <1>1, <2>1, StartSpawnDoes DEF Only
    <3>2. /\ UNCHANGED <<order, disk, saving, crashes, removing>> /\ bundle'[d] = bundle[d]
          /\ d \in overruled => (d \in overruled)'
      BY <1>23, <1>1, <2>1 DEF StartSpawn, RestT
    <3>3. SameRootfs(d)
      BY <1>23, <1>1, <3>1, <3>2, SameSaved DEF SameRootfs
    <3>4. QED
      BY <3>3, SameRootfsKeep
  <2>2. CASE d = c
    <3>1. /\ UNCHANGED <<order, disk, saving, crashes, removing>> /\ bundle'[d] = bundle[d]
          /\ d \in overruled => (d \in overruled)'
      BY <1>23, <1>1, <2>2 DEF StartSpawn
    <3>2. rootfsThread'[d] = "metadata" => rootfsThread[d] = "metadata"
      BY <1>23, <1>1, <2>2, StartSpawnDoes DEF Moves, Stays
    <3>3. /\ Known(d) /\ Known(d)'
          /\ \/ mem'[d].rootfs = mem[d].rootfs \/ mem'[d].rootfs = "error"
             \/ mem[d].rootfs \notin {"ready", "error"} /\ mem'[d].rootfs # "ready"
      <4>1. mem[c] \in Record
        BY <1>23, <1>1, DictsThere DEF StartSpawn
      <4>2. QED
        BY <1>23, <1>1, <4>1, <2>2, StartSpawnDoes DEF Sets, Changed
    <3>4. SameRootfs(d)
      BY <1>23, <1>1, <3>1, <3>2, <3>3, SameSaved DEF SameRootfs
    <3>5. QED
      BY <3>4, SameRootfsKeep
  <2>3. QED
    BY <2>1, <2>2
<1>24. ASSUME NEW c \in Containers, NEW k \in Starts, StartCheck(c, k)
      PROVE  UnpackedOf(d)'
  <2>1. CASE d # c
    <3>1. /\ mem'[d] = mem[d] /\ rootfsThread'[d] = rootfsThread[d]
          /\ \A j \in Starts : starter'[d][j] = starter[d][j]
      BY <1>24, <1>1, <2>1, StartCheckDoes DEF Only
    <3>2. /\ UNCHANGED <<order, disk, saving, crashes, removing>> /\ bundle'[d] = bundle[d]
          /\ d \in overruled => (d \in overruled)'
      BY <1>24, <1>1, <2>1 DEF StartCheck, RestT
    <3>3. SameRootfs(d)
      BY <1>24, <1>1, <3>1, <3>2, SameSaved DEF SameRootfs
    <3>4. QED
      BY <3>3, SameRootfsKeep
  <2>2. CASE d = c
    <3>1. /\ UNCHANGED <<order, disk, saving, crashes, removing>> /\ bundle'[d] = bundle[d]
          /\ d \in overruled => (d \in overruled)'
      BY <1>24, <1>1, <2>2 DEF StartCheck
    <3>2. rootfsThread'[d] = "metadata" => rootfsThread[d] = "metadata"
      BY <1>24, <1>1, <2>2, StartCheckDoes DEF Moves, Stays
    <3>3. /\ Known(d) /\ Known(d)'
          /\ \/ mem'[d].rootfs = mem[d].rootfs \/ mem'[d].rootfs = "error"
             \/ mem[d].rootfs \notin {"ready", "error"} /\ mem'[d].rootfs # "ready"
      <4>1. mem[c] \in Record
        BY <1>24, <1>1, DictsThere DEF StartCheck
      <4>2. QED
        BY <1>24, <1>1, <4>1, <2>2, StartCheckDoes DEF Sets, Changed
    <3>4. SameRootfs(d)
      BY <1>24, <1>1, <3>1, <3>2, <3>3, SameSaved DEF SameRootfs
    <3>5. QED
      BY <3>4, SameRootfsKeep
  <2>3. QED
    BY <2>1, <2>2
<1>25. ASSUME NEW c \in Containers, NEW k \in Starts, StartRunning(c, k)
      PROVE  UnpackedOf(d)'
  <2>1. CASE d # c
    <3>1. /\ mem'[d] = mem[d] /\ rootfsThread'[d] = rootfsThread[d]
          /\ \A j \in Starts : starter'[d][j] = starter[d][j]
      BY <1>25, <1>1, <2>1, StartRunningDoes DEF Only
    <3>2. /\ UNCHANGED <<order, disk, saving, crashes, removing>> /\ bundle'[d] = bundle[d]
          /\ d \in overruled => (d \in overruled)'
      BY <1>25, <1>1, <2>1 DEF StartRunning, RestT
    <3>3. SameRootfs(d)
      BY <1>25, <1>1, <3>1, <3>2, SameSaved DEF SameRootfs
    <3>4. QED
      BY <3>3, SameRootfsKeep
  <2>2. CASE d = c
    <3>1. /\ UNCHANGED <<order, disk, saving, crashes, removing>> /\ bundle'[d] = bundle[d]
          /\ d \in overruled => (d \in overruled)'
      BY <1>25, <1>1, <2>2 DEF StartRunning
    <3>2. rootfsThread'[d] = "metadata" => rootfsThread[d] = "metadata"
      BY <1>25, <1>1, <2>2, StartRunningDoes DEF Moves, Stays
    <3>3. /\ Known(d) /\ Known(d)'
          /\ \/ mem'[d].rootfs = mem[d].rootfs \/ mem'[d].rootfs = "error"
             \/ mem[d].rootfs \notin {"ready", "error"} /\ mem'[d].rootfs # "ready"
      <4>1. mem[c] \in Record
        BY <1>25, <1>1, DictsThere DEF StartRunning
      <4>2. QED
        BY <1>25, <1>1, <4>1, <2>2, StartRunningDoes DEF Sets, Changed
    <3>4. SameRootfs(d)
      BY <1>25, <1>1, <3>1, <3>2, <3>3, SameSaved DEF SameRootfs
    <3>5. QED
      BY <3>4, SameRootfsKeep
  <2>3. QED
    BY <2>1, <2>2
<1>26. ASSUME NEW c \in Containers, NEW k \in Starts, StartKill(c, k) PROVE UnpackedOf(d)'
  <2>1. SameRootfs(d)
    BY <1>26, <1>1, SameSaved DEF StartKill, SameRootfs
  <2>2. QED
    BY <2>1, SameRootfsKeep
<1>27. ASSUME NEW c \in Containers, NEW k \in Starts, StartStopped(c, k)
      PROVE  UnpackedOf(d)'
  <2>1. CASE d # c
    <3>1. /\ mem'[d] = mem[d] /\ rootfsThread'[d] = rootfsThread[d]
          /\ \A j \in Starts : starter'[d][j] = starter[d][j]
      BY <1>27, <1>1, <2>1, StartStoppedDoes DEF Only
    <3>2. /\ UNCHANGED <<order, disk, saving, crashes, removing>> /\ bundle'[d] = bundle[d]
          /\ d \in overruled => (d \in overruled)'
      BY <1>27, <1>1, <2>1 DEF StartStopped, RestT
    <3>3. SameRootfs(d)
      BY <1>27, <1>1, <3>1, <3>2, SameSaved DEF SameRootfs
    <3>4. QED
      BY <3>3, SameRootfsKeep
  <2>2. CASE d = c
    <3>1. /\ UNCHANGED <<order, disk, saving, crashes, removing>> /\ bundle'[d] = bundle[d]
          /\ d \in overruled => (d \in overruled)'
      BY <1>27, <1>1, <2>2 DEF StartStopped
    <3>2. rootfsThread'[d] = "metadata" => rootfsThread[d] = "metadata"
      BY <1>27, <1>1, <2>2, StartStoppedDoes DEF Moves, Stays
    <3>3. /\ Known(d) /\ Known(d)'
          /\ \/ mem'[d].rootfs = mem[d].rootfs \/ mem'[d].rootfs = "error"
             \/ mem[d].rootfs \notin {"ready", "error"} /\ mem'[d].rootfs # "ready"
      <4>1. mem[c] \in Record
        BY <1>27, <1>1, DictsThere DEF StartStopped
      <4>2. QED
        BY <1>27, <1>1, <4>1, <2>2, StartStoppedDoes DEF Sets, Changed
    <3>4. SameRootfs(d)
      BY <1>27, <1>1, <3>1, <3>2, <3>3, SameSaved DEF SameRootfs
    <3>5. QED
      BY <3>4, SameRootfsKeep
  <2>3. QED
    BY <2>1, <2>2
<1>28. ASSUME NEW c \in Containers, NEW k \in Starts, StartRaised(c, k)
      PROVE  UnpackedOf(d)'
  <2>1. CASE d # c
    <3>1. /\ mem'[d] = mem[d] /\ rootfsThread'[d] = rootfsThread[d]
          /\ \A j \in Starts : starter'[d][j] = starter[d][j]
      BY <1>28, <1>1, <2>1, StartRaisedDoes DEF Only
    <3>2. /\ UNCHANGED <<order, disk, saving, crashes, removing>> /\ bundle'[d] = bundle[d]
          /\ d \in overruled => (d \in overruled)'
      BY <1>28, <1>1, <2>1 DEF StartRaised, RestT
    <3>3. SameRootfs(d)
      BY <1>28, <1>1, <3>1, <3>2, SameSaved DEF SameRootfs
    <3>4. QED
      BY <3>3, SameRootfsKeep
  <2>2. CASE d = c
    <3>1. /\ UNCHANGED <<order, disk, saving, crashes, removing>> /\ bundle'[d] = bundle[d]
          /\ d \in overruled => (d \in overruled)'
      BY <1>28, <1>1, <2>2 DEF StartRaised
    <3>2. rootfsThread'[d] = "metadata" => rootfsThread[d] = "metadata"
      BY <1>28, <1>1, <2>2, StartRaisedDoes DEF Moves, Stays
    <3>3. /\ Known(d) /\ Known(d)'
          /\ \/ mem'[d].rootfs = mem[d].rootfs \/ mem'[d].rootfs = "error"
             \/ mem[d].rootfs \notin {"ready", "error"} /\ mem'[d].rootfs # "ready"
      <4>1. mem[c] \in Record
        BY <1>28, <1>1, DictsThere DEF StartRaised
      <4>2. QED
        BY <1>28, <1>1, <4>1, <2>2, StartRaisedDoes DEF Sets, Changed
    <3>4. SameRootfs(d)
      BY <1>28, <1>1, <3>1, <3>2, <3>3, SameSaved DEF SameRootfs
    <3>5. QED
      BY <3>4, SameRootfsKeep
  <2>3. QED
    BY <2>1, <2>2
<1>29. ASSUME NEW c \in Containers, NEW k \in Starts, SetSid(c, k) PROVE UnpackedOf(d)'
  <2>1. SameRootfs(d)
    BY <1>29, <1>1, SameSaved DEF SetSid, SameRootfs
  <2>2. QED
    BY <2>1, SameRootfsKeep
<1>30. ASSUME NEW c \in Containers, NEW k \in Starts, Exit(c, k) PROVE UnpackedOf(d)'
  <2>1. SameRootfs(d)
    BY <1>30, <1>1, SameSaved DEF Exit, SameRootfs
  <2>2. QED
    BY <2>1, SameRootfsKeep
<1>31. ASSUME NEW by \in Savers, SaveBegin(by) PROVE UnpackedOf(d)'
  <2>1. UNCHANGED <<mem, order, starter, rootfsThread, bundle, disk, crashes, overruled, removing>>
    BY <1>31, <1>1 DEF SaveBegin
  <2>2. saving'.conts = <<>>
    BY <1>31, <1>1 DEF SaveBegin
  <2>3. ReadySaved(d)' => ReadySaved(d)
    BY <2>1, <2>2 DEF ReadySaved, SavedReady
  <2>4. SameRootfs(d)
    BY <1>31, <1>1, <2>1, <2>3 DEF SameRootfs
  <2>5. QED
    BY <2>4, SameRootfsKeep
<1>32. CASE SavePods
  <2>1. UNCHANGED <<mem, order, starter, rootfsThread, bundle, disk, crashes, overruled, removing>>
    BY <1>32, <1>1 DEF SavePods
  <2>2. saving.conts = <<>>
    BY <1>32, <1>1, SavingTypes DEF SavePods, Lists
  <2>3. saving'.conts = <<>>
    BY <1>32, <1>1, <2>2, SavingTypes DEF SavePods, SaveInProgress
  <2>4. ReadySaved(d)' => ReadySaved(d)
    BY <2>1, <2>3 DEF ReadySaved, SavedReady
  <2>5. SameRootfs(d)
    BY <1>32, <1>1, <2>1, <2>4 DEF SameRootfs
  <2>6. QED
    BY <2>5, SameRootfsKeep
<1>33. CASE SaveNext
  <2>1. UNCHANGED <<mem, order, starter, rootfsThread, bundle, disk, crashes, overruled, removing>>
    BY <1>33, <1>1 DEF SaveNext
  <2>2. ReadySaved(d)' => ReadySaved(d) \/ (Listed(d) /\ mem[d].rootfs = "ready")
    <3> DEFINE n == Len(saving.conts) + 1
    <3>1. /\ saving \in SaveInProgress /\ saving.conts \in Seq(SavedRecord)
          /\ saving # NoSave /\ n \in DOMAIN order /\ saving.keys = order
      BY <1>33, <1>1, SavingTypes DEF SaveNext, ListsT
    <3>2. mem[order[n]] \in Record /\ order[n] \in Containers
      BY <3>1, DictsThere DEF Listed, ListsT
    <3>3. saving' = [saving EXCEPT !.conts = Append(saving.conts, ToState(mem[order[n]]))]
      BY <1>33, <1>1, <3>1 DEF SaveNext
    <3>4. /\ saving'.keys = order
          /\ saving'.conts = Append(saving.conts, ToState(mem[order[n]]))
      BY <3>1, <3>3 DEF SaveInProgress
    <3>5. SUFFICES ASSUME NEW i \in DOMAIN saving'.conts, order[i] = d, saving'.conts[i].rootfs = "ready"
                   PROVE  ReadySaved(d) \/ (Listed(d) /\ mem[d].rootfs = "ready")
      BY <2>1, <3>4 DEF ReadySaved, SavedReady
    <3>6. CASE i = n
      <4>1. saving'.conts[i] = ToState(mem[d])
        BY <3>1, <3>4, <3>5, <3>6, AppendProperties
      <4>2. QED
        BY <3>1, <3>2, <3>5, <3>6, <4>1, RecordTypes DEF Listed
    <3>7. CASE i # n
      <4>1. i \in DOMAIN saving.conts /\ saving'.conts[i] = saving.conts[i]
        BY <3>1, <3>4, <3>5, <3>7, AppendProperties
      <4>2. QED
        BY <3>1, <3>5, <4>1 DEF ReadySaved, SavedReady
    <3>8. QED
      BY <3>6, <3>7
  <2>3. CASE ReadySaved(d)' => ReadySaved(d)
    <3>1. SameRootfs(d)
      BY <1>33, <1>1, <2>1, <2>3 DEF SameRootfs
    <3>2. QED
      BY <3>1, SameRootfsKeep
  <2>4. CASE Listed(d) /\ mem[d].rootfs = "ready"
    <3>1. Known(d) /\ UnpackedOf(d)
      BY <2>4 DEF Dicts, Unpacked
    <3>2. QED
      BY <2>1, <2>4, <3>1 DEF UnpackedOf, Good
  <2>5. QED
    BY <2>2, <2>3, <2>4
<1>34. CASE SaveCommit
  <2>1. UNCHANGED <<order, bundle, crashes, overruled, removing>> /\ saving # NoSave /\ saving' = NoSave
    BY <1>34, <1>1, SaveEnds DEF SaveCommit
  <2>2. ReadySaved(d)' => ReadySaved(d)
    BY <1>34, <1>1, <2>1 DEF SaveCommit, ReadySaved, SavedReady
  <2>3. rootfsThread'[d] = "metadata" => rootfsThread[d] = "metadata"
    BY <1>34, <1>1, SaveEnds DEF Prepares, RootfsT
  <2>4. \/ mem'[d] = mem[d]
        \/ /\ Sets(d, mem[d].state, "preparing", mem[d].start, mem[d].proc)
           /\ mem[d].rootfs = "none"
    BY <1>34, <1>1, SaveEnds, PreparesDoes DEF Prepares, Preparing, PreparingOf
  <2>5. SameRootfs(d)
    BY <1>34, <1>1, <2>1, <2>2, <2>3, <2>4 DEF SameRootfs, Sets, Changed
  <2>6. QED
    BY <2>5, SameRootfsKeep
<1>35. CASE SaveRaise
  <2>1. UNCHANGED <<order, bundle, crashes, overruled, removing>> /\ saving # NoSave /\ saving' = NoSave
    BY <1>35, <1>1, SaveEnds DEF SaveRaise
  <2>2. ReadySaved(d)' => ReadySaved(d)
    BY <1>35, <1>1, <2>1 DEF SaveRaise, ReadySaved, SavedReady
  <2>3. rootfsThread'[d] = "metadata" => rootfsThread[d] = "metadata"
    BY <1>35, <1>1, SaveEnds DEF Prepares, RootfsT
  <2>4. \/ mem'[d] = mem[d]
        \/ /\ Sets(d, mem[d].state, "preparing", mem[d].start, mem[d].proc)
           /\ mem[d].rootfs = "none"
    BY <1>35, <1>1, SaveEnds, PreparesDoes DEF Prepares, Preparing, PreparingOf
  <2>5. SameRootfs(d)
    BY <1>35, <1>1, <2>1, <2>2, <2>3, <2>4 DEF SameRootfs, Sets, Changed
  <2>6. QED
    BY <2>5, SameRootfsKeep
<1>36. CASE Crash
  <2>1. UNCHANGED <<mem, bundle, disk, removing>> /\ saving' = NoSave
    BY <1>36, <1>1 DEF Crash
  <2>2. rootfsThread'[d] = "none"
    BY <1>36, <1>1 DEF Crash
  <2>3. ReadySaved(d)' => ReadySaved(d)
    BY <2>1 DEF ReadySaved, SavedReady
  <2>4. SameRootfs(d)
    BY <1>36, <1>1, <2>1, <2>2, <2>3 DEF SameRootfs
  <2>5. QED
    BY <2>4, SameRootfsKeep
<1>37. CASE Restart
  <2>1. UNCHANGED <<bundle, removing>> /\ saving' = NoSave /\ rootfsThread'[d] = "none"
    BY <1>37, <1>1 DEF Restart, Down
  <2>2. SavedReady(disk, d)' => SavedReady(disk, d)
    <3>1. /\ disk'.keys = disk.keys
          /\ disk'.conts = [i \in DOMAIN disk.conts |-> ToState(FromState(disk.conts[i]))]
      BY <1>37, <1>1 DEF Restart, ListsT, Snapshot
    <3>2. \A i \in DOMAIN disk.conts :
            ToState(FromState(disk.conts[i])).rootfs = "ready" => disk.conts[i].rootfs = "ready"
      BY RecordTypes DEF ListsT, Snapshot
    <3>3. QED
      BY <3>1, <3>2 DEF SavedReady
  <2>3. UnpackedOf(d)
    BY DEF Unpacked
  <2>4. Known(d)' /\ mem'[d].rootfs = "ready" => SavedReady(disk, d)
    BY <1>37, <1>1, RestartDoes DEF SavedReady
  <2>5. SavedReady(disk, d) => Known(d)' /\ mem'[d].rootfs = "ready"
    BY <1>37, <1>1, RestartDoes, ConfsHeld, OneConf DEF SavedReady
  <2>6. QED
    BY <2>1, <2>2, <2>3, <2>4, <2>5 DEF UnpackedOf, Good
<1>38. CASE UNCHANGED vars
  BY <1>38, <1>1, SameSaved, SameRootfsKeep DEF vars, SameRootfs
<1>39. QED
  BY <1>2, <1>3, <1>4, <1>5, <1>6, <1>7, <1>8, <1>9, <1>10, <1>11, <1>12, <1>13, <1>14,
     <1>15, <1>16, <1>17, <1>18, <1>19, <1>20, <1>21, <1>22, <1>23, <1>24, <1>25, <1>26, <1>27,
     <1>28, <1>29, <1>30, <1>31, <1>32, <1>33, <1>34, <1>35, <1>36, <1>37, <1>38
   DEF Next, PodStep, LoopStep, SaveStep, ContainerStep, RootfsStep, StarterStep

(* A step that begins no start, lists nothing anew and leaves the bundle   *)
(* of d alone.                                                             *)
SameRemoval(d) ==
  /\ \A k \in Starts :
       /\ Busy(d, k)' => Busy(d, k)
       /\ starter'[d][k] \in {"unpack", "spawn"} => starter'[d][k] = starter[d][k]
  /\ Listed(d)' => Listed(d)
  /\ Removing(d)' <=> Removing(d)
  /\ bundle'[d] = bundle[d] /\ removing' = removing
  /\ d \in fresh' => d \in fresh
  /\ RemovalCut(d) => RemovalCut(d)'

LEMMA SameRemovalKeep ==
  ASSUME Removed, NEW d \in Containers, SameRemoval(d)
  PROVE  RemovedOf(d)'
BY DEF Removed, RemovedOf, SameRemoval

(* The steps that leave the bundle, the starts and the list alone.         *)
LEMMA RemovalWaits ==
  ASSUME Removed, NEW d \in Containers, UNCHANGED <<order, starter, bundle, removing, crashes, overruled>>,
         d \in fresh' => d \in fresh, Removing(d)' <=> Removing(d)
  PROVE  RemovedOf(d)'
<1>1. SameRemoval(d)
  BY DEF SameRemoval, Busy, Listed, RemovalCut
<1>2. QED
  BY <1>1, SameRemovalKeep

(* The steps of a start thread that starts, or fails to.                   *)
LEMMA StarterMoves ==
  ASSUME Removed, NEW d \in Containers, NEW c \in Containers, NEW k \in Starts,
         Only(c), Busy(c, k),
         \/ Stays(c)
         \/ \E at \in {"bare", "check", "assign", "stopping", "save", "errorSave"} : Moves(c, k, at),
         UNCHANGED <<loop, order, bundle, removing, fresh, crashes>>,
         d \in overruled => (d \in overruled)'
  PROVE  RemovedOf(d)'
<1>1. \A j \in Starts :
        \/ starter'[d][j] = starter[d][j]
        \/ Busy(d, j) /\ starter'[d][j] \notin {"unpack", "spawn"}
  BY DEF Only, Stays, Moves
<1>2. SameRemoval(d)
  BY <1>1 DEF SameRemoval, Busy, Listed, Removing, RemovalCut
<1>3. QED
  BY <1>2, SameRemovalKeep

(* A start that is under way while the removal of its container deletes is *)
(* one that was overruled.                                                 *)
LEMMA NoStartRemoved ==
  ASSUME Starting, Removed, NEW d \in Containers, NEW k \in Starts, Busy(d, k)
  PROVE  /\ d \in removing => RemovalCut(d)
         /\ loop.op = "remove" => d \in overruled \/ loop.cid # d
BY DEF Starting, StartingOf, Removed, RemovedOf

(* Every step keeps the invariant of removals: RemoveContainer does not    *)
(* wait for a start, but blocks the loop as StartContainer does.           *)
LEMMA RemovedStep ==
  ASSUME MemT, ProcsT, StarterT, RootfsT, LoopT, SavingT, ListsT, RestT, Lists, Dicts,
         Down, Saver, Starting, Preparing, Unpacked, Removed, NEW d \in Containers, [Next]_vars
  PROVE  RemovedOf(d)'
<1> USE DEF Free, Idle, Removing, memVars, threadVars, worldVars
<1>1. RemovedOf(d) /\ UnpackedOf(d) /\ StartingOf(d) /\ PreparingOf(d)
  BY DEF Removed, Unpacked, Starting, Preparing
<1>2. ASSUME NEW s \in Sandboxes,
             RunPodSandbox(s) \/ StopPodSandbox(s) \/ RemovePodSandbox(s)
      PROVE  RemovedOf(d)'
  BY <1>2, RemovalWaits DEF RunPodSandbox, StopPodSandbox, Then, RemovePodSandbox
<1>3. CASE InsertPod \/ ReleasePodNetwork
  BY <1>3, RemovalWaits DEF InsertPod, Then, ReleasePodNetwork
<1>4. ASSUME NEW c \in Containers, NEW s \in Sandboxes, CreateContainer(c, s)
      PROVE  RemovedOf(d)'
  <2>1. CASE d # c
    <3>1. Listed(d)' => Listed(d)
      BY <1>4, <2>1, Appended DEF CreateContainer
    <3>2. SameRemoval(d)
      BY <1>4, <3>1 DEF CreateContainer, ThenFor, SameRemoval, Busy, RemovalCut
    <3>3. QED
      BY <3>2, SameRemovalKeep
  <2>2. CASE d = c
    BY <1>4, <1>1, <2>2 DEF CreateContainer, ThenFor, RemovedOf, Dicts
  <2>3. QED
    BY <2>1, <2>2
<1>5. ASSUME NEW c \in Containers, StartContainer(c) PROVE RemovedOf(d)'
  <2>1. UNCHANGED <<order, bundle, removing, fresh, crashes, overruled>> /\ Listed(c)
    BY <1>5 DEF StartContainer
  <2>2. loop.op = "idle" /\ loop'.op = "start"
    BY <1>5 DEF StartContainer, ThenFor
  <2>3. \A j \in Starts : starter'[d][j] = starter[d][j] \/ (d = c /\ starter'[d][j] = "rootfs")
    BY <1>5, StartContainerDoes DEF Only, Stays, Moves
  <2>4. CASE d # c
    <3>1. SameRemoval(d)
      BY <2>1, <2>2, <2>3, <2>4 DEF SameRemoval, Busy, Listed, RemovalCut
    <3>2. QED
      BY <3>1, SameRemovalKeep
  <2>5. CASE d = c
    BY <1>1, <2>1, <2>2, <2>3, <2>5 DEF RemovedOf, RemovalCut
  <2>6. QED
    BY <2>4, <2>5
<1>6. ASSUME NEW c \in Containers,
             StopContainer(c) \/ RemoveContainer(c) \/ RefreshContainerState(c)
      PROVE  RemovedOf(d)'
  BY <1>6, RemovalWaits DEF StopContainer, RemoveContainer, ThenWait, RefreshContainerState, Then
<1>7. CASE StartAnswer \/ StopKill \/ StopAnswer
  BY <1>7, RemovalWaits DEF StartAnswer, StopKill, StopAnswer, Then
<1>8. CASE RemoveDelete
  <2>1. /\ UNCHANGED <<order, starter, fresh, crashes, overruled>>
        /\ removing' = removing \cup {loop.cid} /\ loop.cid \in Containers
        /\ loop.op = "remove" /\ loop'.op = "rmtree" /\ loop'.cid = loop.cid
    BY <1>8, RemoveDeleteDoes DEF RemoveDelete
  <2>2. CASE d # loop.cid
    <3>1. bundle'[d] = bundle[d] /\ (d \in removing' <=> d \in removing)
      BY <1>8, <2>1, <2>2 DEF RemoveDelete, RestT
    <3>2. QED
      BY <1>1, <2>1, <2>2, <3>1 DEF RemovedOf, RemovalCut, Busy, Listed
  <2>3. CASE d = loop.cid
    <3>1. \A k \in Starts : Busy(d, k) => RemovalCut(d)'
      BY <2>1, <2>3, NoStartRemoved DEF RemovalCut
    <3>2. d \notin fresh
      BY <2>1, <2>3 DEF Dicts
    <3>3. QED
      BY <2>1, <2>3, <3>1, <3>2 DEF RemovedOf, Busy, Listed
  <2>4. QED
    BY <2>2, <2>3
<1>9. CASE RemoveFinish
  <2>1. /\ \A e \in Containers : Listed(e)' <=> Listed(e) /\ e # loop.cid
        /\ UNCHANGED <<starter, removing, fresh, crashes, overruled>>
        /\ loop.op = "rmtree" /\ loop'.op = "save"
    BY <1>9, CutOut DEF RemoveFinish, Then
  <2>2. CASE d # loop.cid
    <3>1. bundle'[d] = bundle[d]
      BY <1>9, <2>2, LoopTypes DEF RemoveFinish, RestT
    <3>2. SameRemoval(d)
      BY <2>1, <2>2, <3>1 DEF SameRemoval, Busy, RemovalCut
    <3>3. QED
      BY <3>2, SameRemovalKeep
  <2>3. CASE d = loop.cid
    <3>1. d \in removing /\ \A k \in Starts : Busy(d, k) => RemovalCut(d)
      BY <1>1, <2>1, <2>3, NoStartRemoved DEF RemovedOf
    <3>2. QED
      BY <1>1, <2>1, <2>3, <3>1 DEF RemovedOf, Busy, RemovalCut
  <2>4. QED
    BY <2>2, <2>3
<1>10. ASSUME NEW c \in Containers, RootfsPull(c) \/ RootfsRaised(c) PROVE RemovedOf(d)'
  BY <1>10, RemovalWaits DEF RootfsPull, RootfsRaised
<1>11. ASSUME NEW c \in Containers, RootfsUnpack(c) \/ RootfsMetadata(c) PROVE RemovedOf(d)'
  <2>1. /\ UNCHANGED <<loop, order, starter, removing, fresh, crashes, overruled>>
        /\ rootfsThread[c] \in Active
    BY <1>11 DEF RootfsUnpack, RootfsMetadata, Active
  <2>2. CASE d # c
    <3>1. bundle'[d] = bundle[d]
      BY <1>11, <2>2 DEF RootfsUnpack, RootfsMetadata, Bundle, RestT
    <3>2. QED
      BY <1>1, <2>1, <3>1 DEF RemovedOf, Busy, Listed, RemovalCut
  <2>3. CASE d = c
    BY <1>1, <2>1, <2>3 DEF PreparingOf, RemovedOf, Busy, Listed, RemovalCut
  <2>4. QED
    BY <2>2, <2>3
<1>12. ASSUME NEW c \in Containers, NEW k \in Starts, StartRootfs(c, k) PROVE RemovedOf(d)'
  <2>1. /\ UNCHANGED <<loop, order, bundle, removing, fresh, crashes, overruled>>
        /\ Busy(c, k) /\ Only(c)
    BY <1>12, StartRootfsDoes DEF StartRootfs, Busy
  <2>2. CASE Stays(c) \/ Moves(c, k, "errorSave") \/ Moves(c, k, "bare")
    BY <2>1, <2>2, StarterMoves
  <2>3. CASE Moves(c, k, "spawn")
    <3>1. CASE d # c
      <4>1. SameRemoval(d)
        BY <2>1, <3>1 DEF Only, SameRemoval, Busy, Listed, RemovalCut
      <4>2. QED
        BY <4>1, SameRemovalKeep
    <3>2. CASE d = c
      <4>1. bundle[d] = "complete" \/ d \in removing
        <5>1. starter'[c][k] = "spawn" /\ starter[c][k] = "rootfs"
          BY <1>12, <2>3, StartRootfsDoes DEF Moves
        <5>2. CASE mem[c].rootfs = "ready" /\ bundle[c] # "absent"
          BY <1>12, <1>1, <3>2, <5>2, DictsThere, NoDict
             DEF StartRootfs, UnpackedOf, Known, Good
        <5>3. CASE MayMatch(c)
          BY <1>1, <3>2, <5>3 DEF MayMatch, UnpackedOf
        <5>4. CASE starter' = starter
          BY <5>1, <5>4
        <5>5. CASE Starter(c, k, "bare") \/ StartError(c, k)
          BY <5>1, <5>5 DEF StartError, Starter, StarterT
        <5>6. QED
          BY <1>12, <5>2, <5>3, <5>4, <5>5 DEF StartRootfs
      <4>2. d \in removing => RemovalCut(d)
        BY <2>1, <3>2, NoStartRemoved
      <4>3. \A j \in Starts : j = k \/ starter'[d][j] = starter[d][j]
        BY <2>3, <3>2 DEF Moves
      <4>4. starter'[d][k] = "spawn" /\ UNCHANGED <<Listed(d), RemovalCut(d)>>
        BY <2>1, <2>3, <3>2 DEF Moves, Listed, RemovalCut
      <4>5. QED
        BY <1>1, <2>1, <4>1, <4>2, <4>3, <4>4 DEF RemovedOf, Busy
    <3>3. QED
      BY <3>1, <3>2
  <2>4. QED
    BY <1>12, <2>2, <2>3, StartRootfsDoes
<1>13. ASSUME NEW c \in Containers, NEW k \in Starts, StartEnsure(c, k) \/ StartUnpack(c, k)
       PROVE  RemovedOf(d)'
  <2>1. /\ UNCHANGED <<loop, order, removing, fresh, crashes, overruled>>
        /\ Busy(c, k) /\ Only(c)
    BY <1>13, StartEnsureDoes DEF StartEnsure, StartUnpack, Busy
  <2>2. CASE d # c
    <3>1. bundle'[d] = bundle[d]
      BY <1>13, <2>2 DEF StartEnsure, StartUnpack, Bundle, RestT
    <3>2. SameRemoval(d)
      BY <2>1, <2>2, <3>1 DEF Only, SameRemoval, Busy, Listed, RemovalCut
    <3>3. QED
      BY <3>2, SameRemovalKeep
  <2>3. CASE d = c
    <3>1. RemovalCut(d)
      <4>1. CASE StartUnpack(c, k)
        BY <1>1, <2>3, <4>1 DEF StartUnpack, RemovedOf
      <4>2. CASE StartEnsure(c, k)
        <5>1. Known(d) /\ mem[d].rootfs = "ready" /\ bundle[d] # "complete"
          BY <2>3, <4>2, DictsThere, NoDict DEF StartEnsure, Known
        <5>2. QED
          BY <1>1, <2>1, <2>3, <5>1, NoStartRemoved DEF UnpackedOf, Good
      <4>3. QED
        BY <1>13, <4>1, <4>2
    <3>2. RemovalCut(d)'
      BY <2>1, <3>1 DEF RemovalCut
    <3>3. QED
      BY <1>1, <2>1, <3>2 DEF RemovedOf
  <2>4. QED
    BY <2>2, <2>3
<1>14. ASSUME NEW c \in Containers, NEW k \in Starts, StartSpawn(c, k) PROVE RemovedOf(d)'
  <2>1. /\ UNCHANGED <<loop, order, bundle, removing, fresh, crashes, overruled>>
        /\ Busy(c, k) /\ Only(c)
    BY <1>14, StartSpawnDoes DEF StartSpawn, Busy
  <2>2. QED
    BY <1>14, <2>1, StartSpawnDoes, StarterMoves
<1>15. ASSUME NEW c \in Containers, NEW k \in Starts, StartCheck(c, k) PROVE RemovedOf(d)'
  <2>1. /\ UNCHANGED <<loop, order, bundle, removing, fresh, crashes, overruled>>
        /\ Busy(c, k) /\ Only(c)
    BY <1>15, StartCheckDoes DEF StartCheck, Busy
  <2>2. QED
    BY <1>15, <2>1, StartCheckDoes, StarterMoves
<1>16. ASSUME NEW c \in Containers, NEW k \in Starts, StartRunning(c, k) PROVE RemovedOf(d)'
  <2>1. /\ UNCHANGED <<loop, order, bundle, removing, fresh, crashes, overruled>>
        /\ Busy(c, k) /\ Only(c)
    BY <1>16, StartRunningDoes DEF StartRunning, Busy
  <2>2. QED
    BY <1>16, <2>1, StartRunningDoes, StarterMoves
<1>17. ASSUME NEW c \in Containers, NEW k \in Starts, StartStopped(c, k) PROVE RemovedOf(d)'
  <2>1. /\ UNCHANGED <<loop, order, bundle, removing, fresh, crashes, overruled>>
        /\ Busy(c, k) /\ Only(c)
    BY <1>17, StartStoppedDoes DEF StartStopped, Busy
  <2>2. QED
    BY <1>17, <2>1, StartStoppedDoes, StarterMoves
<1>18. ASSUME NEW c \in Containers, NEW k \in Starts, StartRaised(c, k) PROVE RemovedOf(d)'
  <2>1. /\ UNCHANGED <<loop, order, bundle, removing, fresh, crashes>>
        /\ d \in overruled => (d \in overruled)'
    BY <1>18 DEF StartRaised
  <2>2. \A j \in Starts : starter'[d][j] = starter[d][j] \/ starter'[d][j] = "errorSave"
    BY <1>18, StartRaisedDoes DEF Only, Stays, Moves
  <2>3. SameRemoval(d)
    BY <2>1, <2>2 DEF SameRemoval, Busy, Listed, RemovalCut
  <2>4. QED
    BY <2>3, SameRemovalKeep
<1>19. ASSUME NEW c \in Containers, NEW k \in Starts, StartKill(c, k) \/ SetSid(c, k) \/ Exit(c, k)
       PROVE  RemovedOf(d)'
  BY <1>19, RemovalWaits DEF StartKill, SetSid, Exit
<1>20. ASSUME NEW by \in Savers, SaveBegin(by) PROVE RemovedOf(d)'
  BY <1>20, RemovalWaits DEF SaveBegin
<1>21. CASE SavePods \/ SaveNext
  BY <1>21, RemovalWaits DEF SavePods, SaveNext
<1>22. CASE SaveCommit \/ SaveRaise
  <2>1. UNCHANGED <<order, bundle, removing, fresh, crashes, overruled>>
    BY <1>22 DEF SaveCommit, SaveRaise
  <2>2. \A j \in Starts : starter'[d][j] = starter[d][j] \/ starter'[d][j] \in {"raised", "done"}
    BY <1>22, SaveEnds
  <2>3. Removing(d)' <=> Removing(d)
    BY <1>22, SaveEnds
  <2>4. SameRemoval(d)
    BY <2>1, <2>2, <2>3 DEF SameRemoval, Busy, Listed, RemovalCut
  <2>5. QED
    BY <2>4, SameRemovalKeep
<1>23. CASE Crash
  <2>1. UNCHANGED <<bundle, removing, fresh>> /\ crashes' > 0 /\ loop' = Idle
    BY <1>23 DEF Crash, RestT
  <2>2. \A j \in Starts : starter'[d][j] \in {"none", "done"}
    BY <1>23 DEF Crash
  <2>3. QED
    BY <1>1, <2>1, <2>2 DEF RemovedOf, RemovalCut, Busy
<1>24. CASE Restart
  <2>1. UNCHANGED <<loop, starter, bundle, removing, fresh, crashes>> /\ crashes > 0 /\ loop = Idle
    BY <1>24 DEF Restart, Down
  <2>2. \A j \in Starts : starter[d][j] \in {"none", "done"}
    BY <1>24 DEF Restart, Down
  <2>3. QED
    BY <1>1, <2>1, <2>2 DEF RemovedOf, RemovalCut, Busy
<1>25. CASE UNCHANGED vars
  BY <1>25, RemovalWaits DEF vars
<1>26. QED
  BY <1>2, <1>3, <1>4, <1>5, <1>6, <1>7, <1>8, <1>9, <1>10, <1>11, <1>12, <1>13, <1>14,
     <1>15, <1>16, <1>17, <1>18, <1>19, <1>20, <1>21, <1>22, <1>23, <1>24, <1>25
   DEF Next, PodStep, LoopStep, SaveStep, ContainerStep, RootfsStep, StarterStep

(* What the loop has begun and has not saved yet is pending.               *)
LEMMA LoopPending ==
  ASSUME Saver, SavingT, UNCHANGED saving, loop.op \notin {"save", "createSave"},
         loop'.op \in {"insert", "release", "stop", "remove", "rmtree", "save", "createSave"}
  PROVE  Pending'
<1>1. ~Saves("loop")
  BY SavingTypes, WaitsAtSave, SaverTypes DEF Saver, Saves, Waits
<1>2. ~Saves("loop")'
  BY <1>1 DEF Saves
<1>3. QED
  BY <1>2 DEF Pending, PendingLoop

(* What a rootfs thread has begun is pending,                              *)
LEMMA RootfsPending ==
  ASSUME Saver, SavingT, UNCHANGED saving, NEW c \in Containers,
         rootfsThread[c] \notin {"save", "errorSave"}, rootfsThread'[c] # "none"
  PROVE  Pending'
<1>1. ~(Saves("rootfs") /\ saving.by[2] = c)
  BY SavingTypes, WaitsAtSave DEF Saver, Saves, Waits
<1>2. PendingRootfs(c)'
  BY <1>1 DEF Saves, PendingRootfs
<1>3. QED
  BY <1>2 DEF Pending

(* and so is what a start thread has begun.                                *)
LEMMA StartPending ==
  ASSUME Saver, SavingT, UNCHANGED saving, NEW c \in Containers, NEW k \in Starts,
         starter[c][k] \notin {"save", "errorSave"}, starter'[c][k] \notin {"none", "done"}
  PROVE  Pending'
<1>1. ~(Saves("start") /\ saving.by[2] = c /\ saving.by[3] = k)
  BY SavingTypes, WaitsAtSave DEF Saver, Saves, Waits
<1>2. PendingStart(c, k)'
  BY <1>1 DEF Saves, PendingStart
<1>3. QED
  BY <1>2 DEF Pending

(* A step that changes nothing that is saved, and ends nobody's work.      *)
SameState ==
  /\ UNCHANGED <<sandboxes, order, saving, disk>>
  /\ \A c \in Containers : Listed(c) => SavedFields(ToState(mem'[c])) = SavedFields(ToState(mem[c]))
  /\ loop' = loop \/ loop.op \in {"idle", "start"}
  /\ \A c \in Containers : rootfsThread'[c] = rootfsThread[c]
  /\ \A c \in Containers, k \in Starts : starter'[c][k] = starter[c][k]
  /\ daemon' = daemon

(* Such a step leaves the state file as good as it was.                    *)
LEMMA SameStateKeep ==
  ASSUME Saved, ListsT, SavingT, Lists, SameState
  PROVE  Saved'
<1>1. Pending => Pending'
  BY DEF SameState, Pending, PendingLoop, PendingRootfs, PendingStart, Saves
<1>2. \A i \in DOMAIN order : order[i] \in Containers /\ Listed(order[i])
  BY DEF ListsT, Listed
<1>3. Agrees(disk) => Agrees(disk)'
  <2>1. DOMAIN disk.conts = DOMAIN disk.keys
    BY DEF Lists, ListsT, Snapshot
  <2>2. QED
    BY <1>2, <2>1 DEF SameState, Agrees
<1>4. saving # NoSave /\ Agrees(saving) => Agrees(saving)'
  <2>1. saving # NoSave => \A i \in DOMAIN saving.conts : i \in DOMAIN saving.keys
    BY SavingTypes DEF Lists
  <2>2. QED
    BY <1>2, <2>1 DEF SameState, Agrees
<1>5. QED
  BY <1>1, <1>3, <1>4 DEF Saved, SameState, PodKeys


(* NoSave stands for no save in progress.                                  *)
LEMMA NoSaveInProgress == \A s \in SaveInProgress : s # NoSave
BY RuntimeAssumption

(* Every step keeps Saved: a change leaves behind one who will save, and a *)
(* save that reads all entries without one of them changing leaves a file  *)
(* that agrees.                                                            *)
LEMMA SavedStep ==
  ASSUME MemT, ProcsT, StarterT, RootfsT, LoopT, SavingT, ListsT, RestT, Lists, Dicts,
         Down, Saver, Saved, [Next]_vars
  PROVE  Saved'
<1> USE DEF Free, Idle, memVars, threadVars, worldVars
<1>1. ASSUME NEW s \in Sandboxes, RunPodSandbox(s) PROVE Saved'
  <2>1. CASE loop' = loop
    BY <1>1, <2>1, SameStateKeep DEF RunPodSandbox, SameState
  <2>2. CASE loop' # loop
    BY <1>1, <2>2, LoopPending DEF RunPodSandbox, Saved
  <2>3. QED
    BY <2>1, <2>2
<1>2. ASSUME NEW s \in Sandboxes, StopPodSandbox(s) PROVE Saved'
  <2>1. /\ UNCHANGED saving /\ loop.op \notin {"save", "createSave"}
        /\ loop'.op \in {"insert", "release", "stop", "remove", "rmtree", "save", "createSave"}
    BY <1>2 DEF StopPodSandbox, Then
  <2>2. QED
    BY <2>1, LoopPending DEF Saved
<1>3. ASSUME NEW s \in Sandboxes, RemovePodSandbox(s) PROVE Saved'
  <2>1. /\ UNCHANGED saving /\ loop.op \notin {"save", "createSave"}
        /\ loop'.op \in {"insert", "release", "stop", "remove", "rmtree", "save", "createSave"}
    BY <1>3 DEF RemovePodSandbox
  <2>2. QED
    BY <2>1, LoopPending DEF Saved
<1>4. CASE InsertPod
  <2>1. /\ UNCHANGED saving /\ loop.op \notin {"save", "createSave"}
        /\ loop'.op \in {"insert", "release", "stop", "remove", "rmtree", "save", "createSave"}
    BY <1>4 DEF InsertPod, Then
  <2>2. QED
    BY <2>1, LoopPending DEF Saved
<1>5. CASE ReleasePodNetwork
  <2>1. /\ UNCHANGED saving /\ loop.op \notin {"save", "createSave"}
        /\ loop'.op \in {"insert", "release", "stop", "remove", "rmtree", "save", "createSave"}
    BY <1>5 DEF ReleasePodNetwork, Then
  <2>2. QED
    BY <2>1, LoopPending DEF Saved
<1>6. ASSUME NEW c \in Containers, NEW s \in Sandboxes, CreateContainer(c, s) PROVE Saved'
  <2>1. /\ UNCHANGED saving /\ loop.op \notin {"save", "createSave"}
        /\ loop'.op \in {"insert", "release", "stop", "remove", "rmtree", "save", "createSave"}
    BY <1>6 DEF CreateContainer, ThenFor
  <2>2. QED
    BY <2>1, LoopPending DEF Saved
<1>7. ASSUME NEW c \in Containers, StartContainer(c) PROVE Saved'
  <2>1. UNCHANGED <<sandboxes, order, saving, disk, rootfsThread, daemon>> /\ loop.op = "idle"
    BY <1>7 DEF StartContainer
  <2>2. CASE mem'[c] = mem[c] /\ Stays(c)
    <3>1. \A d \in Containers :
            mem'[d] = mem[d] /\ \A k \in Starts : starter'[d][k] = starter[d][k]
      BY <1>7, <2>2, StartContainerDoes DEF Only, Stays
    <3>2. QED
      BY <2>1, <3>1, SameStateKeep DEF SameState
  <2>3. CASE \E k \in Starts : starter[c][k] = "none" /\ Moves(c, k, "rootfs")
    BY <1>7, <2>1, <2>3, StartPending DEF Moves, Saved
  <2>4. QED
    BY <1>7, <2>2, <2>3, StartContainerDoes
<1>8. ASSUME NEW c \in Containers, StopContainer(c) PROVE Saved'
  <2>1. /\ UNCHANGED saving /\ loop.op \notin {"save", "createSave"}
        /\ loop'.op \in {"insert", "release", "stop", "remove", "rmtree", "save", "createSave"}
    BY <1>8 DEF StopContainer, ThenWait
  <2>2. QED
    BY <2>1, LoopPending DEF Saved
<1>9. ASSUME NEW c \in Containers, RemoveContainer(c) PROVE Saved'
  <2>1. /\ UNCHANGED saving /\ loop.op \notin {"save", "createSave"}
        /\ loop'.op \in {"insert", "release", "stop", "remove", "rmtree", "save", "createSave"}
    BY <1>9 DEF RemoveContainer, ThenWait
  <2>2. QED
    BY <2>1, LoopPending DEF Saved
<1>10. ASSUME NEW c \in Containers, RefreshContainerState(c) PROVE Saved'
  <2>1. CASE mem[c].state # "exited"
    BY <1>10, <2>1, LoopPending DEF RefreshContainerState, Then, Saved
  <2>2. CASE mem[c].state = "exited"
    <3>1. UNCHANGED <<sandboxes, order, saving, disk, rootfsThread, daemon, loop>>
      BY <1>10, <2>2 DEF RefreshContainerState
    <3>2. SavedFields(ToState(mem'[c])) = SavedFields(ToState(mem[c]))
      <4>1. Sets(c, mem[c].state, mem[c].rootfs, mem[c].start, mem[c].proc)
        BY <1>10, <2>2, RefreshDoes
      <4>2. QED
        BY <4>1 DEF Sets, Changed, SavedFields, ToState
    <3>3. \A d \in Containers : /\ d # c => mem'[d] = mem[d]
                                /\ \A k \in Starts : starter'[d][k] = starter[d][k]
      BY <1>10, RefreshDoes DEF Only, Stays
    <3>4. QED
      BY <3>1, <3>2, <3>3, SameStateKeep DEF SameState
  <2>3. QED
    BY <2>1, <2>2
<1>11. CASE StartAnswer
  BY <1>11, SameStateKeep DEF StartAnswer, SameState
<1>12. CASE StopKill
  BY <1>12, SameStateKeep DEF StopKill, SameState
<1>13. CASE StopAnswer
  <2>1. /\ UNCHANGED saving /\ loop.op \notin {"save", "createSave"}
        /\ loop'.op \in {"insert", "release", "stop", "remove", "rmtree", "save", "createSave"}
    BY <1>13 DEF StopAnswer, Then
  <2>2. QED
    BY <2>1, LoopPending DEF Saved
<1>14. CASE RemoveDelete
  <2>1. /\ UNCHANGED saving /\ loop.op \notin {"save", "createSave"}
        /\ loop'.op \in {"insert", "release", "stop", "remove", "rmtree", "save", "createSave"}
    BY <1>14, RemoveDeleteDoes DEF RemoveDelete
  <2>2. QED
    BY <2>1, LoopPending DEF Saved
<1>15. CASE RemoveFinish
  <2>1. /\ UNCHANGED saving /\ loop.op \notin {"save", "createSave"}
        /\ loop'.op \in {"insert", "release", "stop", "remove", "rmtree", "save", "createSave"}
    BY <1>15 DEF RemoveFinish, Then
  <2>2. QED
    BY <2>1, LoopPending DEF Saved
<1>16. ASSUME NEW c \in Containers, RootfsPull(c) PROVE Saved'
  <2>1. /\ rootfsThread[c] \notin {"save", "errorSave"} /\ rootfsThread'[c] # "none"
        /\ UNCHANGED saving
    BY <1>16, RootfsStepDoes DEF RootfsPull, RootfsStep, Active
  <2>2. QED
    BY <2>1, RootfsPending DEF Saved
<1>17. ASSUME NEW c \in Containers, RootfsUnpack(c) PROVE Saved'
  <2>1. /\ rootfsThread[c] \notin {"save", "errorSave"} /\ rootfsThread'[c] # "none"
        /\ UNCHANGED saving
    BY <1>17, RootfsStepDoes DEF RootfsUnpack, RootfsStep, Active
  <2>2. QED
    BY <2>1, RootfsPending DEF Saved
<1>18. ASSUME NEW c \in Containers, RootfsMetadata(c) PROVE Saved'
  <2>1. /\ rootfsThread[c] \notin {"save", "errorSave"} /\ rootfsThread'[c] # "none"
        /\ UNCHANGED saving
    BY <1>18, RootfsStepDoes DEF RootfsMetadata, RootfsStep, Active
  <2>2. QED
    BY <2>1, RootfsPending DEF Saved
<1>19. ASSUME NEW c \in Containers, RootfsRaised(c) PROVE Saved'
  <2>1. /\ rootfsThread[c] \notin {"save", "errorSave"} /\ rootfsThread'[c] # "none"
        /\ UNCHANGED saving
    BY <1>19, RootfsStepDoes DEF RootfsRaised, RootfsStep, Active
  <2>2. QED
    BY <2>1, RootfsPending DEF Saved
<1>20. ASSUME NEW c \in Containers, NEW k \in Starts, StartRootfs(c, k) PROVE Saved'
  <2>1. starter[c][k] \notin {"save", "errorSave"} /\ starter'[c][k] \notin {"none", "done"}
    BY <1>20, StartRootfsDoes DEF Moves, Stays
  <2>2. UNCHANGED saving
    BY <1>20 DEF StartRootfs
  <2>3. QED
    BY <2>1, <2>2, StartPending DEF Saved
<1>21. ASSUME NEW c \in Containers, NEW k \in Starts, StartEnsure(c, k) \/ StartUnpack(c, k) PROVE Saved'
  <2>1. starter[c][k] \notin {"save", "errorSave"} /\ starter'[c][k] \notin {"none", "done"}
    BY <1>21, StartEnsureDoes DEF Moves, Stays
  <2>2. UNCHANGED saving
    BY <1>21 DEF StartEnsure, StartUnpack
  <2>3. QED
    BY <2>1, <2>2, StartPending DEF Saved
<1>22. ASSUME NEW c \in Containers, NEW k \in Starts, StartSpawn(c, k) PROVE Saved'
  <2>1. starter[c][k] \notin {"save", "errorSave"} /\ starter'[c][k] \notin {"none", "done"}
    BY <1>22, StartSpawnDoes DEF Moves, Stays
  <2>2. UNCHANGED saving
    BY <1>22 DEF StartSpawn
  <2>3. QED
    BY <2>1, <2>2, StartPending DEF Saved
<1>23. ASSUME NEW c \in Containers, NEW k \in Starts, StartCheck(c, k) PROVE Saved'
  <2>1. starter[c][k] \notin {"save", "errorSave"} /\ starter'[c][k] \notin {"none", "done"}
    BY <1>23, StartCheckDoes DEF Moves, Stays
  <2>2. UNCHANGED saving
    BY <1>23 DEF StartCheck
  <2>3. QED
    BY <2>1, <2>2, StartPending DEF Saved
<1>24. ASSUME NEW c \in Containers, NEW k \in Starts, StartRunning(c, k) PROVE Saved'
  <2>1. starter[c][k] \notin {"save", "errorSave"} /\ starter'[c][k] \notin {"none", "done"}
    BY <1>24, StartRunningDoes DEF Moves, Stays
  <2>2. UNCHANGED saving
    BY <1>24 DEF StartRunning
  <2>3. QED
    BY <2>1, <2>2, StartPending DEF Saved
<1>25. ASSUME NEW c \in Containers, NEW k \in Starts, StartKill(c, k) PROVE Saved'
  BY <1>25, SameStateKeep DEF StartKill, SameState
<1>26. ASSUME NEW c \in Containers, NEW k \in Starts, StartStopped(c, k) PROVE Saved'
  <2>1. starter[c][k] \notin {"save", "errorSave"} /\ starter'[c][k] \notin {"none", "done"}
    BY <1>26, StartStoppedDoes DEF Moves, Stays
  <2>2. UNCHANGED saving
    BY <1>26 DEF StartStopped
  <2>3. QED
    BY <2>1, <2>2, StartPending DEF Saved
<1>27. ASSUME NEW c \in Containers, NEW k \in Starts, StartRaised(c, k) PROVE Saved'
  <2>1. starter[c][k] \notin {"save", "errorSave"} /\ starter'[c][k] \notin {"none", "done"}
    BY <1>27, StartRaisedDoes DEF Moves, Stays
  <2>2. UNCHANGED saving
    BY <1>27 DEF StartRaised
  <2>3. QED
    BY <2>1, <2>2, StartPending DEF Saved
<1>28. ASSUME NEW c \in Containers, NEW k \in Starts, SetSid(c, k) PROVE Saved'
  BY <1>28, SameStateKeep DEF SetSid, SameState
<1>29. ASSUME NEW c \in Containers, NEW k \in Starts, Exit(c, k) PROVE Saved'
  BY <1>29, SameStateKeep DEF Exit, SameState
<1>30. ASSUME NEW by \in Savers, SaveBegin(by) PROVE Saved'
  <2> DEFINE s == [by |-> by, pods |-> sandboxes, listed |-> FALSE, keys |-> <<>>, conts |-> <<>>]
  <2>1. saving' = s /\ UNCHANGED sandboxes
    BY <1>30 DEF SaveBegin
  <2>2. s \in SaveInProgress
    <3>1. <<>> \in Seq(Containers) /\ <<>> \in Seq(SavedRecord)
      BY EmptySeq
    <3>2. QED
      BY <3>1 DEF ListsT, SaveInProgress
  <2>3. saving' # NoSave
    BY <2>1, <2>2, NoSaveInProgress
  <2>4. ~saving'.listed /\ saving'.pods = sandboxes
    BY <2>1
  <2>5. QED
    BY <2>1, <2>3, <2>4 DEF Saved
<1>31. CASE SavePods
  <2>1. /\ saving' # NoSave /\ saving'.listed /\ saving'.pods = sandboxes /\ saving'.keys = order
        /\ saving'.conts = saving.conts
    BY <1>31, SavingTypes, NoSaveInProgress DEF SavePods, SaveInProgress, ListsT
  <2>2. saving.conts = <<>>
    BY <1>31, SavingTypes DEF SavePods, Lists
  <2>3. UNCHANGED <<sandboxes, order>>
    BY <1>31 DEF SavePods
  <2>4. QED
    BY <2>1, <2>2, <2>3 DEF Saved, Agrees
<1>32. CASE SaveNext
  <2> DEFINE n == Len(saving.conts) + 1
  <2>1. /\ saving \in SaveInProgress /\ saving.conts \in Seq(SavedRecord) /\ n \in Nat
        /\ saving # NoSave /\ n \in DOMAIN order /\ saving.keys = order
    BY <1>32, SavingTypes DEF SaveNext, ListsT
  <2>2. saving' = [saving EXCEPT !.conts = Append(saving.conts, ToState(mem[order[n]]))]
    BY <1>32, <2>1 DEF SaveNext
  <2>3. ToState(mem[order[n]]) \in SavedRecord
    BY <2>1, DictsThere, RecordTypes DEF Listed, ListsT
  <2>4. /\ saving'.conts = Append(saving.conts, ToState(mem[order[n]]))
        /\ saving'.by = saving.by /\ saving'.pods = saving.pods /\ saving'.keys = saving.keys
        /\ saving'.listed = saving.listed /\ saving.listed
    BY <1>32, <2>1, <2>2 DEF SaveInProgress, SaveNext
  <2>5. saving' # NoSave
    BY <2>1, <2>2, <2>3, NoSaveInProgress, AppendProperties DEF SaveInProgress
  <2>6. UNCHANGED <<sandboxes, order, mem, loop, rootfsThread, starter, daemon>>
    BY <1>32 DEF SaveNext
  <2>7. Pending => Pending'
    BY <2>1, <2>4, <2>5, <2>6 DEF Pending, PendingLoop, PendingRootfs, PendingStart, Saves
  <2>8. Agrees(saving) => Agrees(saving)'
    <3>1. SUFFICES ASSUME Agrees(saving), NEW i \in DOMAIN saving'.conts
                   PROVE  SavedFields(saving'.conts[i]) = SavedFields(ToState(mem[order[i]]))
      BY <2>4, <2>6 DEF Agrees
    <3>2. CASE i = n
      BY <2>1, <2>3, <2>4, <3>1, <3>2, AppendProperties
    <3>3. CASE i # n
      BY <2>1, <2>3, <2>4, <3>1, <3>3, AppendProperties DEF Agrees
    <3>4. QED
      BY <3>2, <3>3
  <2> HIDE DEF n
  <2>9. QED
    BY <2>1, <2>4, <2>5, <2>6, <2>7, <2>8 DEF Saved
<1>33. CASE SaveCommit
  <2>1. /\ saving # NoSave /\ saving' = NoSave /\ saving.by \in Savers
        /\ Waits(saving.by) /\ UNCHANGED daemon
    BY <1>33, SaveEnds, SavingTypes, WaitsAtSave DEF Saver, SaveCommit
  <2>2. PendingLoop => PendingLoop'
    <3>1. loop' # loop => Saves("loop")
      BY <1>33, <2>1 DEF SaveCommit, LoopSaved, Saves
    <3>2. loop' # loop => loop.op \in {"save", "createSave"}
      BY <1>33, SaveEnds
    <3>3. QED
      BY <2>1, <3>1, <3>2 DEF PendingLoop, Saves
  <2>3. \A c \in Containers : PendingRootfs(c) => PendingRootfs(c)'
    BY <1>33, <2>1, SaveEnds, PreparesDoes DEF PendingRootfs, Saves
  <2>4. \A c \in Containers, k \in Starts : PendingStart(c, k) => PendingStart(c, k)'
    BY <1>33, <2>1, SaveEnds DEF PendingStart, Saves
  <2>5. CASE Pending
    BY <2>2, <2>3, <2>4, <2>5 DEF Pending, Saved
  <2>6. CASE ~Pending /\ Agrees(saving)
    <3>1. UNCHANGED <<sandboxes, order>> /\ saving' = NoSave
      BY <1>33, SaveEnds
    <3>2. disk' = [pods |-> saving.pods, keys |-> saving.keys, conts |-> saving.conts]
      BY <1>33 DEF SaveCommit
    <3>3. CASE UNCHANGED mem
      BY <2>6, <3>1, <3>2, <3>3 DEF Agrees, Saved
    <3>4. CASE \E c \in Containers : Prepares(c)
      <4>1. PICK c \in Containers : Prepares(c)
        BY <3>4
      <4>2. rootfsThread'[c] = "pull"
        BY <4>1, PreparesDoes
      <4>3. QED
        BY <3>1, <4>2 DEF Pending, PendingRootfs, Saves, Saved
    <3>5. QED
      BY <1>33, <3>3, <3>4, SaveEnds
  <2>7. QED
    BY <1>33, <2>5, <2>6 DEF SaveCommit, Saved
<1>34. CASE SaveRaise
  <2>1. /\ saving # NoSave /\ saving' = NoSave /\ saving.by \in Savers
        /\ Waits(saving.by) /\ UNCHANGED daemon
    BY <1>34, SaveEnds, SavingTypes, WaitsAtSave DEF Saver, SaveRaise
  <2>2. PendingLoop => PendingLoop'
    <3>1. loop' # loop => Saves("loop")
      BY <1>34, <2>1 DEF SaveRaise, LoopSaved, Saves
    <3>2. loop' # loop => loop.op \in {"save", "createSave"}
      BY <1>34, SaveEnds
    <3>3. QED
      BY <2>1, <3>1, <3>2 DEF PendingLoop, Saves
  <2>3. \A c \in Containers : PendingRootfs(c) => PendingRootfs(c)'
    BY <1>34, <2>1, SaveEnds, PreparesDoes DEF PendingRootfs, Saves
  <2>4. \A c \in Containers, k \in Starts : PendingStart(c, k) => PendingStart(c, k)'
    BY <1>34, <2>1, SaveEnds DEF PendingStart, Saves
  <2>5. CASE Pending
    BY <2>2, <2>3, <2>4, <2>5 DEF Pending, Saved
  <2>6. QED
    BY <1>34, <2>5 DEF SaveRaise, Saved, Agrees
<1>35. CASE Crash
  BY <1>35 DEF Crash, Saved
<1>36. CASE Restart
  <2>1. /\ saving' = NoSave /\ sandboxes' = disk.pods /\ order' = disk.keys
        /\ disk'.pods = disk.pods /\ disk'.keys = disk.keys
        /\ disk'.conts = [i \in DOMAIN disk.conts |-> ToState(FromState(disk.conts[i]))]
    BY <1>36 DEF Restart, Down, ListsT, Snapshot
  <2>2. ASSUME NEW i \in DOMAIN disk.conts PROVE mem'[disk.keys[i]] = FromState(disk.conts[i])
    <3>1. i \in DOMAIN disk.keys /\ disk.keys[i] \in Containers
      BY DEF Lists, ListsT, Snapshot
    <3>2. PICK j \in DOMAIN disk.keys :
            /\ j \in DOMAIN disk.conts /\ disk.keys[j] = disk.keys[i]
            /\ mem'[disk.keys[i]] = FromState(disk.conts[j])
      BY <1>36, <3>1, RestartDoes DEF Holds
    <3>3. QED
      BY <3>1, <3>2, OneConf
  <2>3. Agrees(disk)'
    BY <2>1, <2>2 DEF Agrees
  <2>4. QED
    BY <2>1, <2>3 DEF Saved
<1>37. CASE UNCHANGED vars
  BY <1>37, SameStateKeep DEF vars, SameState
<1>38. QED
  BY <1>1, <1>2, <1>3, <1>4, <1>5, <1>6, <1>7, <1>8, <1>9, <1>10, <1>11, <1>12, <1>13,
     <1>14, <1>15, <1>16, <1>17, <1>18, <1>19, <1>20, <1>21, <1>22, <1>23, <1>24, <1>25, <1>26,
     <1>27, <1>28, <1>29, <1>30, <1>31, <1>32, <1>33, <1>34, <1>35, <1>36, <1>37
   DEF Next, PodStep, LoopStep, SaveStep, ContainerStep, RootfsStep, StarterStep

(* Each part of the invariant holds at the start.                          *)
LEMMA RuntimeInit == Init => RuntimeInv
<1> SUFFICES ASSUME Init PROVE RuntimeInv
  OBVIOUS
<1>1. 0 \in 0..MaxCrashes /\ 0 \notin Starts /\ <<>> \in Seq(Containers) /\ <<>> \in Seq(SavedRecord)
  BY RuntimeAssumption DEF Starts
<1>2. /\ \A c \in Containers : ~Known(c) /\ ~Listed(c) /\ rootfsThread[c] = "none"
      /\ \A c \in Containers, k \in Starts : starter[c][k] = "none" /\ procs[c][k].at = "none"
                                             /\ procs[c][k].born = 0
      /\ loop.op = "idle" /\ loop = Idle /\ saving = NoSave /\ daemon = "up" /\ overruled = {}
      /\ removing = {}
  BY DEF Init, Known, Listed, Idle
<1>3. TypeOK
  <2>1. [at |-> "none", host |-> FALSE, born |-> 0] \in Process
    BY <1>1 DEF Process
  <2>2. ProcsT
    BY <2>1 DEF Init, ProcsT
  <2>3. MemT /\ StarterT /\ RootfsT /\ LoopT /\ SavingT
    BY DEF Init, MemT, StarterT, StarterAt, RootfsT, RootfsAt, LoopT, LoopState, Idle, SavingT
  <2>4. ListsT /\ RestT
    BY <1>1 DEF Init, ListsT, Snapshot, RestT
  <2>5. QED
    BY <2>2, <2>3, <2>4, Types
<1>4. Lists /\ Dicts /\ Down /\ Saver
  <2>1. Lists
    BY <1>2 DEF Init, Lists, Distinct
  <2>2. Dicts
    BY <1>2 DEF Init, Dicts, Holds
  <2>3. Down /\ Saver
    BY <1>1, <1>2 DEF Init, Down, Saver
  <2>4. QED
    BY <2>1, <2>2, <2>3
<1>5. Starting /\ Owned /\ Preparing
  BY <1>2 DEF Starting, StartingOf, Busy, Owned, OwnedOf, Mine, Preparing, PreparingOf, Active
<1>6. Unpacked /\ Removed
  BY <1>2 DEF Init, Unpacked, UnpackedOf, SavedReady, Removed, RemovedOf, Removing
<1>7. Saved
  BY <1>2 DEF Init, Saved, Agrees
<1>8. QED
  BY <1>3, <1>4, <1>5, <1>6, <1>7 DEF RuntimeInv

(* Each step keeps it.                                                     *)
LEMMA RuntimeStep == RuntimeInv /\ [Next]_vars => RuntimeInv'
<1> SUFFICES ASSUME RuntimeInv, [Next]_vars PROVE RuntimeInv'
  OBVIOUS
<1>1. /\ MemT /\ ProcsT /\ StarterT /\ RootfsT /\ LoopT /\ SavingT /\ ListsT /\ RestT
      /\ Lists /\ Dicts /\ Down /\ Starting /\ Owned /\ Preparing /\ Unpacked /\ Removed
      /\ Saver /\ Saved
  BY Types DEF RuntimeInv
<1>2. MemT' /\ ProcsT' /\ StarterT' /\ RootfsT' /\ LoopT' /\ SavingT' /\ ListsT' /\ RestT'
  BY <1>1, MemStep, ProcsStep, StartersStep, RootfsThreadStep, LoopStateStep, SavingStep,
     ListsTStep, RestStep
<1>3. TypeOK'
  BY <1>2 DEF TypeOK, MemT, ProcsT, StarterT, RootfsT, LoopT, SavingT, ListsT, RestT
<1>4. Lists' /\ Dicts' /\ Down' /\ Saver' /\ Saved'
  BY <1>1, ListsStep, DictsStep, DownStep, SaverStep, SavedStep
<1>5. \A d \in Containers :
        StartingOf(d)' /\ OwnedOf(d)' /\ PreparingOf(d)' /\ UnpackedOf(d)' /\ RemovedOf(d)'
  BY <1>1, StartingStep, OwnedStep, PreparingStep, UnpackedStep, RemovedStep
<1>6. Starting' /\ Owned' /\ Preparing' /\ Unpacked' /\ Removed'
  BY <1>5 DEF Starting, Owned, Preparing, Unpacked, Removed
<1>7. QED
  BY <1>3, <1>4, <1>6 DEF RuntimeInv

(* The inductive invariant of pods, containers, processes and saves holds. *)
THEOREM RuntimeInvariant == Spec => []RuntimeInv
<1>1. QED
  BY RuntimeInit, RuntimeStep, PTL DEF Spec

(* The variables keep their types.                                         *)
THEOREM RuntimeTypeCorrect == Spec => []TypeOK
<1>1. RuntimeInv => TypeOK
  BY DEF RuntimeInv
<1>2. QED
  BY <1>1, RuntimeInvariant, PTL

(* Two processes of a container that the daemon can still signal are one.  *)
LEMMA OneOwned ==
  ASSUME TypeOK, Dicts, Starting, Owned, NEW c \in Containers, c \notin overruled,
         NEW j \in Starts, NEW k \in Starts, Mine(c, j), Mine(c, k)
  PROVE  j = k
<1>1. MemT /\ (Known(c) => mem[c] \in Record) /\ (Listed(c) => Known(c)) /\ 0 \notin Starts
  BY Types, DictsThere, RuntimeAssumption DEF Dicts, Starts
<1>2. \A i \in Starts : Mine(c, i) => Known(c) /\ (mem[c].proc = i \/ Busy(c, i))
  BY <1>1 DEF Owned, OwnedOf, Busy
<1>3. \A i \in Starts : Mine(c, i) /\ mem[c].proc = i => ~Ended(ProcessOf(c))
  BY <1>1 DEF Mine, Ended, ProcessOf, ProcessAt
<1>4. \A i, l \in Starts : Busy(c, i) => Ended(ProcessOf(c)) /\ (Busy(c, l) => l = i)
  BY DEF Starting, StartingOf
<1>5. QED
  BY <1>2, <1>3, <1>4

(* However requests, start threads and crashes interleave, a container has *)
(* at most one process that this daemon started and has not signalled,     *)
(* unless a start of it was overruled, and one that is listed as running   *)
(* has a process.                                                          *)
THEOREM RunsOnce == Spec => []OneProcess
<1>1. RuntimeInv => OneProcess
  <2> SUFFICES ASSUME RuntimeInv, NEW c \in Containers
               PROVE  /\ c \notin overruled => Cardinality({k \in Starts : Mine(c, k)}) <= 1
                      /\ daemon = "up" /\ Listed(c) /\ mem[c].state = "running" => mem[c].proc # 0
    BY DEF OneProcess
  <2> DEFINE S == {k \in Starts : Mine(c, k)}
  <2>1. ASSUME c \notin overruled PROVE Cardinality(S) <= 1
    <3>1. \A j, k \in S : j = k
      BY <2>1, OneOwned DEF RuntimeInv
    <3>2. CASE S = {}
      BY <3>2, FS_EmptySet
    <3>3. CASE S # {}
      <4>1. PICK k : S = {k}
        BY <3>1, <3>3
      <4> HIDE DEF S
      <4>2. Cardinality(S) = 1
        BY <4>1, FS_Singleton
      <4>3. QED
        BY <4>2
    <3>4. QED
      BY <3>2, <3>3
  <2>2. Listed(c) => Known(c)
    BY DEF RuntimeInv, Dicts
  <2>3. Listed(c) /\ mem[c].state = "running" => mem[c].proc # 0
    BY <2>2 DEF RuntimeInv, Owned, OwnedOf
  <2>4. QED
    BY <2>1, <2>3
<1>2. QED
  BY <1>1, RuntimeInvariant, PTL

(* At rest the daemon can signal every process it started: it is the       *)
(* process of a container that is still listed.                            *)
THEOREM NoProcessStrays == Spec => []NoStrayProcess
<1>1. RuntimeInv => NoStrayProcess
  <2>1. SUFFICES ASSUME RuntimeInv, Quiescent, NEW c \in Containers \ overruled,
                        NEW k \in Starts, Mine(c, k)
                 PROVE  Listed(c) /\ mem[c].proc = k
    BY DEF NoStrayProcess
  <2>2. starter[c][k] \in {"none", "done"}
    BY <2>1 DEF Quiescent
  <2>3. QED
    BY <2>1, <2>2 DEF RuntimeInv, Owned, OwnedOf
<1>2. QED
  BY <1>1, RuntimeInvariant, PTL

(* Whatever saves raised or overlapped, at rest the state file says what   *)
(* the dicts say.                                                          *)
THEOREM StateFileCatchesUp == Spec => []Durable
<1>1. RuntimeInv => Durable
  <2>1. SUFFICES ASSUME RuntimeInv, Quiescent
                 PROVE  /\ disk.pods = sandboxes /\ disk.keys = order
                        /\ \A i \in DOMAIN order :
                             SavedFields(disk.conts[i]) = SavedFields(mem[order[i]])
    BY DEF Durable
  <2>2. /\ saving = NoSave /\ loop = Idle /\ daemon = "up"
        /\ \A c \in Containers : rootfsThread[c] = "none"
        /\ \A c \in Containers, k \in Starts : starter[c][k] \in {"none", "done"}
    BY <2>1 DEF Quiescent
  <2>3. ~Pending
    BY <2>2 DEF Pending, PendingLoop, PendingRootfs, PendingStart, Idle
  <2>4. Agrees(disk)
    BY <2>1, <2>2, <2>3 DEF RuntimeInv, Saved
  <2>5. DOMAIN order = DOMAIN disk.conts
    BY <2>1, <2>4 DEF RuntimeInv, Lists, Agrees, TypeOK, Snapshot
  <2>6. ASSUME NEW i \in DOMAIN order
        PROVE  SavedFields(ToState(mem[order[i]])) = SavedFields(mem[order[i]])
    <3>1. order[i] \in Containers /\ Known(order[i])
      BY <2>1 DEF RuntimeInv, TypeOK, Dicts, Listed
    <3>2. mem[order[i]].rootfs # "preparing"
      BY <2>1, <2>2, <3>1 DEF RuntimeInv, Preparing, PreparingOf, Active
    <3>3. mem[order[i]].start # "starting"
      BY <2>1, <2>2, <3>1 DEF RuntimeInv, Starting, StartingOf, Busy
    <3>4. QED
      BY <3>2, <3>3 DEF SavedFields, ToState
  <2>7. QED
    BY <2>4, <2>5, <2>6 DEF Agrees
<1>2. QED
  BY <1>1, RuntimeInvariant, PTL

(* A process is started over a complete rootfs, but for a container whose  *)
(* removal had begun and was cut short.                                    *)
THEOREM CompleteRootfs == Spec => StartsOnCompleteRootfs
<1>1. ASSUME RuntimeInv, [Next]_vars
      PROVE  \A c \in Containers, k \in Starts :
               procs[c][k].at = "none" /\ procs'[c][k].at # "none" /\ starter[c][k] = "spawn"
                 => bundle[c] = "complete" \/ RemovalCut(c)
  BY <1>1 DEF RuntimeInv, Removed, RemovedOf
<1>2. QED
  BY <1>1, RuntimeInvariant, PTL DEF Spec, StartsOnCompleteRootfs
=============================================================================
