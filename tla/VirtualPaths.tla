---------------------------- MODULE VirtualPaths ----------------------------
(***************************************************************************)
(* virtual_paths.py: how a tracer makes a directory the root of its tasks. *)
(*                                                                         *)
(* At the entry of a call the tracer replaces each path by the host path   *)
(* it stands for: it keeps a table of bind mounts, and for each pid the    *)
(* working directory and the directories behind descriptors, which it      *)
(* brings up to date at the exit.  Between the two the kernel runs the     *)
(* call, other tasks have their own entries and exits, and a task may be   *)
(* killed.  mount and umount never reach the kernel.                       *)
(*                                                                         *)
(* A virtual path is a sequence of names from /.  A host path starts with  *)
(* the directory it is in: "root", or "host" for what is bound from        *)
(* outside.  The tree does not change but for the modes of directories.    *)
(* Left out: absolute paths that name the rootfs by its host path, /dev    *)
(* and /proc, the text of generated files, and the interpreters of execve. *)
(***************************************************************************)
EXTENDS Integers, Sequences, SequencesExt, FiniteSets, FiniteSetsExt

CONSTANTS
  Pids, First,   \* tasks, and the one the tracer starts
  Fds,           \* descriptors of a process
  Tree,          \* what is at each host path
  MaxLinks,      \* links followed before host_path gives up (40)
  CliBinds,      \* --bind: files and directories; of those at one place the
                 \* first given, the only one that counts
  Guarded,       \* the directories the owner may not write to
  Calls,         \* the calls the processes make
  MaxCalls,      \* bound on the calls of all of them
  MaxKills,      \* bound on the SIGKILLs
  Given,         \* the files that come by calls that are not followed
  MaxUnfollowed, \* bound on those calls
  NoFile, AFile

Dir == [kind |-> "dir"]
File == [kind |-> "file"]
IsDir(h) == h \in DOMAIN Tree /\ Tree[h].kind = "dir"
IsLink(h) == h \in DOMAIN Tree /\ Tree[h].kind = "link"
Dirs == {h \in DOMAIN Tree : IsDir(h)}
AT_FDCWD == -100
Absolute == -1                 \* a path that starts with /
Bases == Fds \cup {AT_FDCWD, Absolute}

PathNames == Seq(STRING)
Virtual(p) == \A i \in DOMAIN p : p[i] # ".."

(* The calls that programs make: open and create stand for the *at calls   *)
(* too, chdir, mount and umount have none.                                 *)
Path == [base : {Absolute, AT_FDCWD}, path : PathNames]
PathAt == [base : Bases, path : PathNames]
ProgramCalls ==
  [name : {"chdir"}, arg : Path] \cup [name : {"open", "create"}, arg : PathAt]
  \cup [name : {"fchdir", "close", "dup"}, fd : Fds] \cup [name : {"dup2"}, fd : Fds, to : Fds]
  \cup [name : {"chmod"}, dir : Guarded, mode : {"ro", "rw"}] \cup [name : {"mtab"}]
  \cup [name : {"mount"}, source : Path, target : Path] \cup [name : {"umount"}, target : Path]

ASSUME PathsAssumption ==
  /\ First \in Pids /\ Fds \subseteq Nat
  /\ DOMAIN Tree \subseteq PathNames /\ <<"root">> \in Dirs /\ Guarded \subseteq Dirs
  /\ MaxLinks \in Nat /\ MaxCalls \in Nat /\ MaxKills \in Nat
  /\ MaxUnfollowed \in Nat /\ Given \subseteq Dirs \cup {AFile}
  /\ \A b \in CliBinds :
       /\ b.at \in PathNames /\ Virtual(b.at) /\ b.host \in DOMAIN Tree /\ ~IsLink(b.host)
       /\ b.at = <<>> => IsDir(b.host)
  /\ \A b, c \in CliBinds : b.at = c.at => b = c
  /\ Calls \subseteq ProgramCalls
  /\ NoFile \notin Dirs /\ AFile \notin Dirs /\ NoFile # AFile

VARIABLES
  life,        \* each task: unborn, alive, dead
  process,     \* whose thread it is
  binds,       \* self.binds; among those over a path the longest counts
  cwd,         \* cwd_by_pid
  fds,         \* fd_paths_by_pid
  call,        \* the call each is in: the record of its entry
  mode,        \* of the guarded directories, in the kernel
  own,         \* and as the processes set it
  temp,        \* tasks whose generated file exists
  kcwd, kfds,  \* the directories in the kernel, where threads have the same
  budget,      \* calls and kills that are left, and calls that are not followed
  remounted,   \* history: a bind was added or removed
  stray,       \* history: AT_FDCWD and descriptors that changed behind the tables
  raced,       \* history: those another thread changed since the kernel ran the call
  spoiled      \* history: directories whose mode was not restored

NoCall == [stage |-> "none"]
Alive(t) == life[t] = "alive"

Ran(t) == call[t] # NoCall /\ call[t].stage = "ran"
Threads(t) == {u \in Pids : process[u] = process[t]}

tables == <<binds, cwd, fds>>
kernel == <<kcwd, kfds>>
modes == <<mode, own>>
missed == <<stray, raced>>
ghosts == <<remounted, missed, spoiled>>
vars == <<life, process, tables, call, modes, temp, kernel, budget, ghosts>>
-----------------------------------------------------------------------------
(* Paths.                                                                  *)
Shortened(done, x) ==
  IF x # ".." THEN Append(done, x) ELSE IF done = <<>> THEN done ELSE Front(done)

Normalized(p) ==     \* normalize_virtual_path: by the names alone
  LET done[i \in 0..Len(p)] == IF i = 0 THEN <<>> ELSE Shortened(done[i - 1], p[i])
  IN done[Len(p)]

Over(bs, p) == {b \in bs : IsPrefix(b.at, p)}

(* Mutant: the binds are sorted the other way round.                       *)
BindForFirst(bs, p) == CHOOSE b \in Over(bs, p) : \A c \in Over(bs, p) : Len(b.at) <= Len(c.at)

BindFor(bs, p) == CHOOSE b \in Over(bs, p) : \A c \in Over(bs, p) : Len(c.at) <= Len(b.at)

RawHostPath(bs, p) ==
  IF Over(bs, p) = {} THEN <<"root">> \o p
  ELSE LET b == BindFor(bs, p) IN b.host \o SubSeq(p, Len(b.at) + 1, Len(p))

Upto(p, i) == SubSeq(p, 1, i)

(* Mutant: a link is looked for in the rootfs only.                        *)
LinksOfRoot(bs, p, follow) ==
  {i \in 1..Len(p) : IsLink(<<"root">> \o Upto(p, i)) /\ (follow \/ i < Len(p))}

LinksOf(bs, p, follow) ==
  {i \in 1..Len(p) : IsLink(RawHostPath(bs, Upto(p, i))) /\ (follow \/ i < Len(p))}

(* host_path: from the start for every link, the path normalised first.    *)
Followed(bs, p, follow) ==
  LET i == Min(LinksOf(bs, p, follow))
      link == Tree[RawHostPath(bs, Upto(p, i))]
      base == IF link.abs THEN <<>> ELSE Upto(p, i - 1)
  IN Normalized(base \o link.to \o SubSeq(p, i + 1, Len(p)))

AfterLinks(bs, p, follow) ==     \* MaxLinks of them, or as many as there are
  LET after[n \in 0..MaxLinks] ==
        IF n = 0 THEN p
        ELSE LET q == after[n - 1]
             IN IF LinksOf(bs, q, follow) = {} THEN q ELSE Followed(bs, q, follow)
  IN after[MaxLinks]

HostPath(bs, p, follow) ==
  LET q == AfterLinks(bs, p, follow)
      links == LinksOf(bs, q, follow)
  IN RawHostPath(bs, IF links = {} THEN q ELSE Upto(q, Min(links)))

(* virtual_path: what a path means to t; none for an unknown descriptor.   *)
HasBase(t, a) == a.base \in {Absolute, AT_FDCWD} \/ a.base \in DOMAIN fds[t]

VirtualPath(t, a) ==
  Normalized(CASE a.base = Absolute -> a.path
               [] a.base = AT_FDCWD -> cwd[t] \o a.path
               [] OTHER -> fds[t][a.base] \o a.path)
-----------------------------------------------------------------------------
Init ==
  /\ life = [t \in Pids |-> IF t = First THEN "alive" ELSE "unborn"]
  /\ binds = CliBinds
  /\ cwd = [t \in Pids |-> <<>>] /\ fds = [t \in Pids |-> <<>>]
  /\ call = [t \in Pids |-> NoCall]
  /\ mode = [d \in Guarded |-> "ro"] /\ own = mode
  /\ temp = {}
  /\ kcwd = [t \in Pids |-> RawHostPath(binds, <<>>)] /\ kfds = [t \in Pids |-> [f \in Fds |-> NoFile]]
  /\ budget = [calls |-> MaxCalls, kills |-> MaxKills, unfollowed |-> MaxUnfollowed]
  /\ remounted = FALSE /\ spoiled = {}
  /\ process = [t \in Pids |-> t] /\ stray = [t \in Pids |-> {}] /\ raced = stray

(* inherit_pid: a task that another one makes.                             *)
Inherit(t, u) ==
  /\ Alive(t) /\ call[t] = NoCall /\ life[u] = "unborn"
  /\ life' = [life EXCEPT ![u] = "alive"]
  /\ cwd' = [cwd EXCEPT ![u] = cwd[t]] /\ fds' = [fds EXCEPT ![u] = fds[t]]
  /\ kcwd' = [kcwd EXCEPT ![u] = kcwd[t]] /\ kfds' = [kfds EXCEPT ![u] = kfds[t]]
  /\ stray' = [stray EXCEPT ![u] = stray[t]]
  /\ UNCHANGED <<binds, call, modes, temp, budget, remounted, raced, spoiled>>

(* The kernel copies what a process has, and lets a thread share it.       *)
Fork(t, u) == Inherit(t, u) /\ UNCHANGED process
Clone(t, u) == Inherit(t, u) /\ process' = [process EXCEPT ![u] = process[t]]
-----------------------------------------------------------------------------
(* The entry of a call.                                                    *)

(* internal_mount_directory.                                               *)
Mountable(p) == Over(binds, p) = {} /\ HostPath(binds, p, TRUE)[1] = "root" /\ IsDir(HostPath(binds, p, TRUE))

(* prepare_mount and prepare_umount.                                       *)
Prepared(t, c) ==
  LET at == VirtualPath(t, c.target)
  IN IF c.name = "umount" THEN [ok |-> TRUE, at |-> at, host |-> <<>>]
     ELSE LET source == VirtualPath(t, c.source)
          IN [ok |-> Mountable(source) /\ Mountable(at) /\ at # <<>>, at |-> at,
              host |-> HostPath(binds, source, TRUE)]

(* The path of a call and the host path it becomes; a path behind a        *)
(* descriptor the table does not have is left as it is.                    *)
Rewritten(t, c) ==
  IF HasBase(t, c.arg)
  THEN LET p == VirtualPath(t, c.arg) IN [at |-> p, host |-> HostPath(binds, p, c.name # "create")]
  ELSE [at |-> <<>>, host |-> <<>>]

(* prepare_write_parent: the directory that is made writable for the call. *)
Unlocked(t, c) ==
  LET r == Rewritten(t, c)
      parent == Front(r.host)
  IN IF HasBase(t, c.arg) /\ Over(binds, r.at) = {} /\ parent[1] = "root"
        /\ parent \in Guarded /\ mode[parent] = "ro"
     THEN {parent} ELSE {}

Record(t, c) ==
  [of |-> c, stage |-> "entered", ok |-> FALSE, fd |-> 0,
   path |-> IF c.name \in {"chdir", "open", "create"} THEN Rewritten(t, c)
            ELSE [at |-> <<>>, host |-> <<>>],
   mount |-> IF c.name \in {"mount", "umount"} THEN Prepared(t, c)
             ELSE [ok |-> FALSE, at |-> <<>>, host |-> <<>>],
   chmods |-> IF c.name = "create" THEN Unlocked(t, c) ELSE {}]

Enter(t, c) ==
  /\ Alive(t) /\ call[t] = NoCall /\ budget.calls > 0
  /\ LET r == Record(t, c)
     IN /\ call' = [call EXCEPT ![t] = r]
        /\ mode' = [d \in Guarded |-> IF d \in r.chmods THEN "rw" ELSE mode[d]]
  /\ temp' = IF c.name = "mtab" THEN temp \cup {t} ELSE temp
  /\ budget' = [budget EXCEPT !.calls = @ - 1]
  /\ UNCHANGED <<life, process, tables, own, kernel, ghosts>>
-----------------------------------------------------------------------------
(* The kernel runs it.                                                     *)

(* The threads of t have these from now on.  None of their tables hears of *)
(* it but that of t, if its call is one the exit follows.                  *)
Changed(t, dir, files) ==
  {f \in Fds : files[f] # kfds[t][f]} \cup (IF dir = kcwd[t] THEN {} ELSE {AT_FDCWD})

KernelHas(t, dir, files, unseen) ==
  LET others == Threads(t) \ {t}
  IN /\ kcwd' = [u \in Pids |-> IF u \in Threads(t) THEN dir ELSE kcwd[u]]
     /\ kfds' = [u \in Pids |-> IF u \in Threads(t) THEN files ELSE kfds[u]]
     /\ raced' = [u \in Pids |-> raced[u] \cup
                    IF u \in others /\ Ran(u) THEN Changed(u, dir, files) ELSE {}]
     /\ stray' = [u \in Pids |-> stray[u] \cup
                    IF u = t THEN unseen
                    ELSE IF u \in others /\ ~Ran(u) THEN Changed(u, dir, files) ELSE {}]

(* Where it looks: a path that was left as it is is behind a descriptor.   *)
LookedUp(t, r) ==
  IF r.of.name \in {"open", "create"} /\ ~HasBase(t, r.of.arg) /\ kfds[t][r.of.arg.base] \in Dirs
  THEN [r EXCEPT !.path.host = kfds[t][r.of.arg.base] \o r.of.arg.path] ELSE r

Free(t) == {f \in Fds : kfds[t][f] = NoFile}

(* What becomes of the descriptors.                                        *)
Opened(t, r) ==
  IF r.path.host \in DOMAIN Tree /\ ~IsLink(r.path.host) /\ Free(t) # {}
  THEN {[ok |-> TRUE, fd |-> Min(Free(t)),
         fds |-> [kfds[t] EXCEPT ![Min(Free(t))] =
                    IF IsDir(r.path.host) THEN r.path.host ELSE AFile]]}
  ELSE {}

Duplicated(t, old, new) ==
  IF kfds[t][old] = NoFile THEN {}
  ELSE {[ok |-> TRUE, fd |-> f, fds |-> [kfds[t] EXCEPT ![f] = kfds[t][old]]] : f \in new}

Files(t, r) ==       \* the successful outcomes of a call on descriptors
  CASE r.of.name = "open" -> Opened(t, r)
    [] r.of.name = "close" -> IF kfds[t][r.of.fd] = NoFile THEN {}
                              ELSE {[ok |-> TRUE, fd |-> 0, fds |-> [kfds[t] EXCEPT ![r.of.fd] = NoFile]]}
    [] r.of.name = "dup" -> Duplicated(t, r.of.fd, IF Free(t) = {} THEN {} ELSE {Min(Free(t))})
    [] r.of.name = "dup2" -> Duplicated(t, r.of.fd, {r.of.to})
    [] OTHER -> {[ok |-> TRUE, fd |-> 0, fds |-> kfds[t]]}

Moved(t, r) ==       \* the working directory after it
  IF r.of.name = "chdir" THEN r.path.host
  ELSE IF r.of.name = "fchdir" THEN kfds[t][r.of.fd] ELSE kcwd[t]

Permitted(t, r) ==
  /\ Moved(t, r) \in Dirs
  /\ r.of.name = "create" =>
       /\ r.path.host \notin DOMAIN Tree \cup {<<>>} /\ Front(r.path.host) \in Dirs
       /\ Front(r.path.host) \in Guarded => mode[Front(r.path.host)] = "rw"

Run(t) ==
  LET r == LookedUp(t, call[t])
      results == IF Permitted(t, r) THEN Files(t, r) ELSE {}
  IN /\ Alive(t) /\ call[t] # NoCall /\ call[t].stage = "entered"
     /\ IF results = {}
        THEN call' = [call EXCEPT ![t].stage = "ran"] /\ UNCHANGED <<kernel, modes, spoiled, missed>>
        ELSE \E x \in results :
               /\ call' = [call EXCEPT ![t] = [r EXCEPT !.stage = "ran", !.ok = TRUE, !.fd = x.fd]]
               /\ KernelHas(t, Moved(t, r), x.fds, IF r.of.name = "fchdir" THEN {AT_FDCWD} ELSE {})
               /\ IF r.of.name = "chmod"
                  THEN /\ mode' = [mode EXCEPT ![r.of.dir] = r.of.mode]
                       /\ own' = [own EXCEPT ![r.of.dir] = r.of.mode]
                       /\ spoiled' = IF \E u \in Pids : call[u] # NoCall /\ r.of.dir \in call[u].chmods
                                     THEN spoiled \cup {r.of.dir} ELSE spoiled
                  ELSE UNCHANGED <<modes, spoiled>>
     /\ UNCHANGED <<life, process, tables, temp, budget, remounted>>

(* A call the exit does not follow: an execve or close_range that closes,  *)
(* the F_DUPFD of fcntl, openat2, a descriptor that came in a message.     *)
Unfollowed(t, f) ==
  /\ Alive(t) /\ call[t] = NoCall /\ budget.unfollowed > 0
  /\ budget' = [budget EXCEPT !.unfollowed = @ - 1]
  /\ \E h \in ({NoFile} \cup Given \cup {kfds[t][g] : g \in Fds}) \ {kfds[t][f]} :
       KernelHas(t, kcwd[t], [kfds[t] EXCEPT ![f] = h], {f})
  /\ UNCHANGED <<life, process, tables, call, modes, temp, remounted, spoiled>>
-----------------------------------------------------------------------------
(* The exit of a call.                                                     *)
Without(table, f) == [g \in DOMAIN table \ {f} |-> table[g]]
With(table, f, p) == [g \in DOMAIN table \cup {f} |-> IF g = f THEN p ELSE table[g]]
Copied(table, old, new) == IF old \in DOMAIN table THEN With(table, new, table[old]) ELSE table

(* Mutant: dup2 leaves the directory of the descriptor it closes.          *)
FdsAfterKept(t, r) ==
  LET was == fds[t]
  IN IF ~r.ok THEN was
     ELSE CASE r.of.name = "open" /\ IsDir(r.path.host) /\ HasBase(t, r.of.arg)
                 -> With(was, r.fd, r.path.at)
            [] r.of.name = "close" -> Without(was, r.of.fd)
            [] r.of.name = "dup" -> Copied(was, r.of.fd, r.fd)
            [] r.of.name = "dup2" -> Copied(was, r.of.fd, r.of.to)
            [] OTHER -> was

(* handle_syscall_exit_record.                                             *)
FdsAfter(t, r) ==
  LET was == fds[t]
  IN IF ~r.ok THEN was
     ELSE CASE r.of.name = "open" /\ IsDir(r.path.host) /\ HasBase(t, r.of.arg)
                 -> With(was, r.fd, r.path.at)
            [] r.of.name = "close" -> Without(was, r.of.fd)
            [] r.of.name = "dup" -> Copied(was, r.of.fd, r.fd)
            [] r.of.name = "dup2" -> Copied(Without(was, r.of.to), r.of.fd, r.of.to)
            [] OTHER -> was

CwdAfter(t, r) == IF r.ok /\ r.of.name = "chdir" THEN r.path.at ELSE cwd[t]

(* Which entries of the tables do not follow the kernel now.  A directory  *)
(* that is opened, closed or copied brings an entry back; dup2 of a        *)
(* descriptor to itself takes its entry away.                              *)
StrayAfter(t, r) ==
  LET was == stray[t]
      like(old, new) == IF old \in was THEN was \cup {new} ELSE was \ {new}
  IN IF ~r.ok THEN was
     ELSE CASE r.of.name = "chdir" -> was \ {AT_FDCWD}
            [] r.of.name = "open" /\ IsDir(r.path.host) /\ HasBase(t, r.of.arg) -> was \ {r.fd}
            [] r.of.name = "open" /\ IsDir(r.path.host) /\ ~HasBase(t, r.of.arg) -> was \cup {r.fd}
            [] r.of.name = "close" -> was \ {r.of.fd}
            [] r.of.name = "dup" -> IF r.of.fd \in DOMAIN fds[t] THEN like(r.of.fd, r.fd)
                                    ELSE was \cup (IF r.of.fd \in was THEN {r.fd} ELSE {})
            [] r.of.name = "dup2" -> IF r.of.fd = r.of.to THEN was \cup {r.of.fd}
                                     ELSE like(r.of.fd, r.of.to)
            [] OTHER -> was

(* Mutant: a bind that is at the same path stays.                          *)
AddBindAgain(at, host) == binds \cup {[at |-> at, host |-> host]}

(* add_bind: the bind is in the table when making its mount point fails,   *)
(* as it does behind an absolute link, which leads out of the rootfs.      *)
AddBind(at, host) == {b \in binds : b.at # at} \cup {[at |-> at, host |-> host]}

MountPointFails(at) ==
  \E i \in 1..Len(at) : LET h == <<"root">> \o Upto(at, i) IN IsLink(h) /\ Tree[h].abs

RemoveBind(at) == {b \in binds : b.at # at}

(* handle_mount_exit.                                                      *)
BindsAfter(r) ==
  IF ~r.mount.ok THEN binds
  ELSE IF r.of.name = "mount" THEN AddBind(r.mount.at, r.mount.host) ELSE RemoveBind(r.mount.at)

MountAnswer(r) ==
  /\ r.mount.ok
  /\ IF r.of.name = "mount" THEN ~MountPointFails(r.mount.at) ELSE RemoveBind(r.mount.at) # binds

(* Mutant: a call that failed returns before the modes are restored.       *)
CleanUpAfterSuccess(t, r) ==
  /\ mode' = [d \in Guarded |-> IF r.ok /\ d \in r.chmods THEN "ro" ELSE mode[d]]
  /\ temp' = temp \ {t}

(* cleanup_temporary_chmods and cleanup_temporary_paths.                   *)
CleanUp(t, r) ==
  /\ mode' = [d \in Guarded |-> IF d \in r.chmods THEN "ro" ELSE mode[d]]
  /\ temp' = temp \ {t}

Exit(t) ==
  LET r == call[t]
  IN /\ Alive(t) /\ r # NoCall /\ r.stage = "ran"
     /\ call' = [call EXCEPT ![t] = NoCall]
     /\ fds' = [fds EXCEPT ![t] = FdsAfter(t, r)]
     /\ cwd' = [cwd EXCEPT ![t] = CwdAfter(t, r)]
     /\ binds' = IF r.of.name \in {"mount", "umount"} THEN BindsAfter(r) ELSE binds
     /\ CleanUp(t, r)
     /\ stray' = [stray EXCEPT ![t] = StrayAfter(t, r) \cup raced[t]]
     /\ raced' = [raced EXCEPT ![t] = {}]
     /\ remounted' = (remounted \/ binds' # binds)
     /\ UNCHANGED <<life, process, own, kernel, budget, spoiled>>

(* drop_pid of a task that is killed, or ended by the execve of another    *)
(* thread; the record of its call is forgotten, and what was to be cleaned *)
(* up at its exit stays.                                                   *)
Kill(t) ==
  /\ Alive(t) /\ budget.kills > 0
  /\ budget' = [budget EXCEPT !.kills = @ - 1]
  /\ life' = [life EXCEPT ![t] = "dead"]
  /\ call' = [call EXCEPT ![t] = NoCall]
  /\ cwd' = [cwd EXCEPT ![t] = <<>>] /\ fds' = [fds EXCEPT ![t] = <<>>]
  /\ spoiled' = IF call[t] = NoCall THEN spoiled ELSE spoiled \cup call[t].chmods
  /\ UNCHANGED <<process, binds, modes, temp, kernel, remounted, missed>>
-----------------------------------------------------------------------------
Next ==
  \E t \in Pids :
    \/ \E u \in Pids : Fork(t, u) \/ Clone(t, u)
    \/ \E c \in Calls : Enter(t, c)
    \/ Run(t) \/ Exit(t) \/ Kill(t)
    \/ \E f \in Fds : Unfollowed(t, f)

Spec == Init /\ [][Next]_vars
-----------------------------------------------------------------------------
(* The variables have their types, and no path has two binds.              *)
TypeOK ==
  /\ life \in [Pids -> {"unborn", "alive", "dead"}] /\ process \in [Pids -> Pids]
  /\ \A b \in binds : Virtual(b.at) /\ b.host \in DOMAIN Tree /\ ~IsLink(b.host)
  /\ \A b, c \in binds : b.at = c.at => b = c
  /\ \A t \in Pids :
       /\ Virtual(cwd[t]) /\ DOMAIN fds[t] \subseteq Fds
       /\ \A f \in DOMAIN fds[t] : Virtual(fds[t][f])
       /\ call[t] = NoCall \/ (call[t].of \in Calls /\ call[t].stage \in {"entered", "ran"})
       /\ kcwd[t] \in Dirs /\ stray[t] \cup raced[t] \subseteq Fds \cup {AT_FDCWD}
  /\ mode \in [Guarded -> {"ro", "rw"}] /\ own \in [Guarded -> {"ro", "rw"}]
  /\ temp \subseteq Pids /\ spoiled \subseteq Guarded /\ remounted \in BOOLEAN
  /\ kfds \in [Pids -> [Fds -> Dirs \cup {NoFile, AFile}]]
  /\ budget.calls \in 0..MaxCalls /\ budget.kills \in 0..MaxKills
  /\ budget.unfollowed \in 0..MaxUnfollowed

(* Between its calls, the tables say of a task what the kernel has: its    *)
(* working directory, and the directories behind its descriptors, while no *)
(* bind comes or goes.  But not of what changed behind its tables: by      *)
(* fchdir, by another thread of its process, by calls that are not         *)
(* followed, below a descriptor that is not in the table, and by copies of *)
(* those; a later call that is followed brings an entry back.              *)
TablesAgree ==
  \A t \in Pids : (Alive(t) /\ call[t] = NoCall /\ ~remounted) =>
    /\ AT_FDCWD \notin stray[t] => HostPath(binds, cwd[t], TRUE) = kcwd[t]
    /\ \A f \in Fds \ stray[t] :
         /\ f \in DOMAIN fds[t] <=> kfds[t][f] \in Dirs
         /\ f \in DOMAIN fds[t] => HostPath(binds, fds[t][f], TRUE) = kfds[t][f]

(* A call leaves nothing behind: generated files are removed, and a        *)
(* directory that was made writable for a call has its mode again, however *)
(* the calls of two processes overlap; but when the process is killed in   *)
(* its call, or the directory is changed meanwhile.                        *)
CallsCleanUp ==
  /\ \A t \in temp : Alive(t) => call[t] # NoCall
  /\ \A d \in Guarded \ spoiled :
       (\A t \in Pids : call[t] = NoCall \/ d \notin call[t].chmods) => mode[d] = own[d]

(* A mount that is told to have succeeded is in effect, one that is told   *)
(* to have failed is not, also when other mounts came between its entry    *)
(* and its exit; but for a target behind a link: a path goes where the     *)
(* link leads, and a mount that fails there leaves its bind in the table.  *)
Ends(t) == Alive(t) /\ call[t] # NoCall /\ call[t].stage = "ran" /\ call'[t] = NoCall /\ Alive(t)'
LinkFree(p) == \A i \in 1..Len(p) : ~IsLink(RawHostPath(binds, Upto(p, i)))
LinkInTree(p) == \E i \in 1..Len(p) : IsLink(<<"root">> \o Upto(p, i))

MountsTakeEffect ==
  [][\A t \in Pids : (Ends(t) /\ call[t].of.name \in {"mount", "umount"}) =>
       LET m == call[t].mount
       IN IF ~MountAnswer(call[t]) THEN binds' = binds \/ LinkInTree(m.at)
          ELSE IF call[t].of.name = "mount"
               THEN \A at \in {m.at}, bs \in {binds'} : LinkFree(at) => HostPath(bs, at, TRUE) = m.host
               ELSE \A b \in binds' : b.at # m.at]_vars
=============================================================================
