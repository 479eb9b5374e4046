--------------------------- MODULE VirtualSockets ---------------------------
(***************************************************************************)
(* virtual_network.py: the table of sockets by pid and fd, and what the    *)
(* tracer does at the entry and the exit of the calls on sockets.          *)
(*                                                                         *)
(* The kernel has one fd table and one memory per process (space), shared  *)
(* by its threads, and open files (Descs) that dup and fork share between  *)
(* tables.  The tracer has a row of its own for each pid and fd, a copy    *)
(* where the kernel has a reference: the table is right as long as each    *)
(* call that changes the kernel's tables is followed.  An address is       *)
(* rewritten in the program's memory at the entry of bind and connect and  *)
(* written back at the exit.                                               *)
(***************************************************************************)
EXTENDS Naturals, FiniteSetsExt

CONSTANTS
  Tasks, First,     \* processes and threads; the one launch_tracee forked
  Fds,              \* numbers of fds, per process
  Descs,            \* the kernel's open files
  Ports,            \* virtual ports that programs bind and connect to
  Ephemeral,        \* a port the kernel picks
  Names,            \* the calls that programs make
  WithCloexec,      \* whether they open sockets with SOCK_CLOEXEC
  MaxCalls,         \* bound on the calls of all tasks together
  NoTask, NoFd, NoDesc, NoRow, NoCall, NoKind

AllNames == {"socket", "open", "close", "dup", "dup2", "close_range", "accept", "bind",
             "connect", "getsockname", "message", "fork", "clone", "exec"}

ASSUME SocketsAssumption ==
  /\ First \in Tasks /\ NoTask \notin Tasks
  /\ Fds \subseteq Nat /\ NoFd \notin Fds /\ NoDesc \notin Descs
  /\ Ports \subseteq Nat \ {0} /\ Ephemeral \in Nat \ (Ports \cup {0})
  /\ Names \subseteq AllNames /\ WithCloexec \in BOOLEAN /\ MaxCalls \in Nat

(* An address on the container's networks, elsewhere, of the host's        *)
(* loopback (the port that stands for a virtual one has its name here), or *)
(* the interface's address with the port of a host address.                *)
Address == [at : {"virtual", "outside", "host", "mixed"}, port : Ports \cup {Ephemeral, 0}]
Unset == [at |-> "unset", port |-> 0]
OnHost(a) == [at |-> "host", port |-> a.port]
Written == [at : {"virtual", "outside"}, port : Ports]    \* by programs

Kinds == {"tcp", "route"}                                 \* of sockets
Free == [kind |-> "free", local |-> Unset, remote |-> Unset]

VARIABLES
  space,     \* the process a task belongs to; NoTask when it does not exist
  fds,       \* by process: the open file behind each fd
  cloexec,   \* by process: the fds that execve closes
  desc,      \* the open files
  memory,    \* by process: the sockaddr it passes to bind and connect
  wrote,     \* by process: what the program itself wrote there
  rows,      \* SocketTable._sockets
  call,      \* the call each task is in, with its SyscallRecord
  calls,     \* how many calls there were
  left,      \* history: by task, the fds whose row an execve left behind
  untold     \* history: by process, the fds whose file was bound or connected
             \* without the row being told

kernelVars == <<space, fds, cloexec, desc, wrote, untold>>
vars == <<kernelVars, memory, rows, call, calls, left>>

Told == {a \in Address : a.at # "host"} \cup {Unset}        \* to programs
Row == [kind : Kinds, local : Told, remote : Told]
Call == [name : Names, fd : Fds, to : Fds \cup {NoFd}, kind : Kinds \cup {NoKind}]
Answers == {"none", "allow", "refuse", "redirect", "emulated"}
Pending == [call : Call, stage : {"entered", "returned"}, ok : BOOLEAN,
            answer : Answers,                    \* what the entry decided
            address : Address \cup {Unset},      \* network_virtual_local, _remote
            out : Fds \cup {NoFd},               \* a new fd
            seen : Address \cup {Unset}]         \* the kernel's getsockname

ASSUME NonesAssumption == NoRow \notin Row /\ NoCall \notin Pending

TypeOK ==
  /\ space \in [Tasks -> Tasks \cup {NoTask}]
  /\ fds \in [Tasks -> [Fds -> Descs \cup {NoDesc}]]
  /\ cloexec \in [Tasks -> SUBSET Fds]
  /\ desc \in [Descs -> [kind : Kinds \cup {"file", "free"}, local : Address \cup {Unset},
                         remote : Address \cup {Unset}]]
  /\ memory \in [Tasks -> Address \cup {Unset}] /\ wrote \in [Tasks -> Address \cup {Unset}]
  /\ rows \in [Tasks -> [Fds -> Row \cup {NoRow}]]
  /\ call \in [Tasks -> Pending \cup {NoCall}]
  /\ calls \in 0..MaxCalls
  /\ left \in [Tasks -> SUBSET Fds] /\ untold \in [Tasks -> SUBSET Fds]

NoFds == [fd \in Fds |-> NoDesc]
NoRows == [fd \in Fds |-> NoRow]

Init ==
  /\ space = [t \in Tasks |-> IF t = First THEN First ELSE NoTask]
  /\ fds = [t \in Tasks |-> NoFds]
  /\ cloexec = [t \in Tasks |-> {}]
  /\ desc = [d \in Descs |-> Free]
  /\ memory = [t \in Tasks |-> Unset] /\ wrote = [t \in Tasks |-> Unset]
  /\ rows = [t \in Tasks |-> NoRows]
  /\ call = [t \in Tasks |-> NoCall]
  /\ calls = 0 /\ left = [t \in Tasks |-> {}] /\ untold = [t \in Tasks |-> {}]

Born == {t \in Tasks : space[t] # NoTask}
ThreadsOf(s) == {t \in Born : space[t] = s}
Table(t) == fds[space[t]]
File(t, fd) == IF Table(t)[fd] = NoDesc THEN Free ELSE desc[Table(t)[fd]]
FreeFds(t) == {fd \in Fds : Table(t)[fd] = NoDesc}
FreeDescs == {d \in Descs : desc[d] = Free}

(* A file that no fd refers to is closed.                                  *)
Swept(tables, files) ==
  [d \in Descs |-> IF \E s \in Tasks, fd \in Fds : tables[s][fd] = d THEN files[d] ELSE Free]

-----------------------------------------------------------------------------
(* The entry of a call: rewrite_syscall_entry.                             *)

IsTcpStream(row) == row # NoRow /\ row.kind = "tcp"
IsRouteNetlink(row) == row # NoRow /\ row.kind = "route"

(* prepare_sendmsg, prepare_sendto, prepare_write and prepare_recvmsg      *)
MessageAnswers(row) == IF IsRouteNetlink(row) THEN {"emulated"} ELSE {"none"}

(* prepare_connect: the service may be gone, or know no route (refuse); an *)
(* address outside its networks may be allowed.                            *)
ConnectAnswers(row, address) ==
  CASE row # NoRow /\ ~IsTcpStream(row) -> {"none"}
    [] (row = NoRow \/ IsTcpStream(row)) /\ address.at = "virtual" -> {"redirect", "refuse"}
    [] OTHER -> {"allow", "refuse"}

(* Mutant: without an answer of the service, the bind is let through.      *)
BindAnswersOrAllow(row, address) ==
  CASE row # NoRow /\ ~IsTcpStream(row) -> {"none"}
    [] (row = NoRow \/ IsTcpStream(row)) /\ address.at = "virtual" -> {"redirect", "none"}
    [] OTHER -> {"refuse"}

(* prepare_bind: to an address that is not the container's it is refused.  *)
BindAnswers(row, address) ==
  CASE row # NoRow /\ ~IsTcpStream(row) -> {"none"}
    [] (row = NoRow \/ IsTcpStream(row)) /\ address.at = "virtual" -> {"redirect", "refuse"}
    [] OTHER -> {"refuse"}

EntryAnswers(t, c) ==
  LET row == rows[t][c.fd] IN
  CASE c.name = "message" -> MessageAnswers(row)
    [] c.name = "connect" -> ConnectAnswers(row, memory[space[t]])
    [] c.name = "bind"    -> BindAnswers(row, memory[space[t]])
    [] OTHER              -> {"none"}

(* Of a call without an fd, c.fd means nothing.  Calls on a closed fd that  *)
(* fail without having been looked at are left out.                        *)
CallsMade ==
  {c \in Call :
    /\ (c.to # NoFd) <=> (c.name \in {"dup2", "close_range"})
    /\ (c.kind # NoKind) <=> (c.name = "socket")
    /\ c.name \in {"socket", "open", "fork", "clone", "exec"} => c.fd = Min(Fds)}

Entry(t, c) ==
  /\ t \in Born /\ call[t] = NoCall /\ calls < MaxCalls
  /\ c.name \in {"bind", "connect"} => memory[space[t]] # Unset
  /\ c.name = "exec" => ThreadsOf(space[t]) = {t}
  /\ c.name \in {"accept", "dup", "dup2", "getsockname"} => Table(t)[c.fd] # NoDesc
  /\ calls' = calls + 1
  /\ \E answer \in EntryAnswers(t, c) :
       /\ call' = [call EXCEPT ![t] =
            [call |-> c, stage |-> "entered", ok |-> TRUE, answer |-> answer,
             address |-> IF answer \in {"redirect", "allow"} THEN memory[space[t]] ELSE Unset,
             out |-> NoFd, seen |-> Unset]]
       /\ memory' = IF answer = "redirect"
                    THEN [memory EXCEPT ![space[t]] = OnHost(@)] ELSE memory
  /\ UNCHANGED <<kernelVars, rows, left>>

-----------------------------------------------------------------------------
(* The kernel, and what programs do outside calls.                         *)

In(t, names) ==
  /\ t \in Born /\ call[t] # NoCall /\ call[t].stage = "entered"
  /\ call[t].call.name \in names /\ call[t].answer \notin {"refuse", "emulated"}

Returns(t, ok, out, seen) ==
  /\ call' = [call EXCEPT ![t] = [@ EXCEPT !.stage = "returned", !.ok = ok, !.out = out,
                                           !.seen = seen]]
  /\ UNCHANGED calls

(* A program fills in the address, once, before its threads use it.        *)
Write(t, a) ==
  /\ t \in Born /\ call[t] = NoCall /\ wrote[space[t]] = Unset
  /\ wrote' = [wrote EXCEPT ![space[t]] = a]
  /\ memory' = [memory EXCEPT ![space[t]] = a]
  /\ UNCHANGED <<space, fds, cloexec, desc, rows, call, calls, left, untold>>

(* The neutralised calls, which run as getpid.                             *)
Neutralised(t) ==
  /\ t \in Born /\ call[t] # NoCall /\ call[t].stage = "entered"
  /\ call[t].answer \in {"refuse", "emulated"}
  /\ Returns(t, TRUE, NoFd, Unset)
  /\ UNCHANGED <<kernelVars, memory, rows, left>>

(* Any call may fail, without effect; close only of a closed fd.  (The      *)
(* failure that has one, of a connect that goes on, is KConnect's.)        *)
KernelFails(t) ==
  /\ In(t, AllNames)
  /\ call[t].call.name \in {"close"} => Table(t)[call[t].call.fd] = NoDesc
  /\ Returns(t, FALSE, NoFd, Unset)
  /\ UNCHANGED <<kernelVars, memory, rows, left>>

(* A new file at the lowest free fd; its row is made from those of from.   *)
Opens(t, file, from) ==
  LET fd == Min(FreeFds(t)) IN
  /\ FreeFds(t) # {}
  /\ \E d \in FreeDescs :
       /\ fds' = [fds EXCEPT ![space[t]][fd] = d]
       /\ desc' = [desc EXCEPT ![d] = file]
  /\ \E flag \in (IF WithCloexec /\ file.kind \in Kinds THEN BOOLEAN ELSE {FALSE}) :
       cloexec' = [cloexec EXCEPT ![space[t]] = IF flag THEN @ \cup {fd} ELSE @ \ {fd}]
  /\ untold' = [untold EXCEPT ![space[t]] = IF from \cap @ = {} THEN @ \ {fd} ELSE @ \cup {fd}]
  /\ Returns(t, TRUE, fd, Unset)
  /\ UNCHANGED <<space, wrote, memory, rows, left>>

KSocket(t) == In(t, {"socket"}) /\ Opens(t, [Free EXCEPT !.kind = call[t].call.kind], {})
KOpen(t)   == In(t, {"open"}) /\ Opens(t, [Free EXCEPT !.kind = "file"], {})
KAccept(t) ==
  LET listener == File(t, call[t].call.fd) IN
  /\ In(t, {"accept"})
  /\ listener.kind = "tcp" /\ listener.local # Unset /\ listener.remote = Unset
  /\ Opens(t, [listener EXCEPT !.remote = [at |-> "host", port |-> Ephemeral]],
              {call[t].call.fd})

(* Of an fd table: what is left open, the flags that are left, and of      *)
(* which fds the rows were not told.                                       *)
Retable(t, table, flags, unknown) ==
  /\ fds' = [fds EXCEPT ![space[t]] = table]
  /\ desc' = Swept(fds', desc)
  /\ cloexec' = [cloexec EXCEPT ![space[t]] = flags]
  /\ untold' = [untold EXCEPT ![space[t]] = unknown]

KClose(t) ==
  LET c == call[t].call
      gone == {fd \in Fds : IF c.name = "close" THEN fd = c.fd ELSE c.fd <= fd /\ fd <= c.to} IN
  /\ In(t, {"close", "close_range"})
  /\ c.name = "close" => Table(t)[c.fd] # NoDesc
  /\ Retable(t, [fd \in Fds |-> IF fd \in gone THEN NoDesc ELSE Table(t)[fd]],
                cloexec[space[t]] \ gone, untold[space[t]] \ gone)
  /\ Returns(t, TRUE, NoFd, Unset)
  /\ UNCHANGED <<space, wrote, memory, rows, left>>

KDup(t) ==
  LET c == call[t].call
      new == IF c.name = "dup" THEN Min(FreeFds(t)) ELSE c.to IN
  /\ In(t, {"dup", "dup2"})
  /\ Table(t)[c.fd] # NoDesc
  /\ c.name = "dup" => FreeFds(t) # {}
  /\ Retable(t, [Table(t) EXCEPT ![new] = Table(t)[c.fd]],
                IF new = c.fd THEN cloexec[space[t]] ELSE cloexec[space[t]] \ {new},
                IF c.fd \in untold[space[t]] THEN untold[space[t]] \cup {new}
                ELSE untold[space[t]] \ {new})
  /\ Returns(t, TRUE, new, Unset)
  /\ UNCHANGED <<space, wrote, memory, rows, left>>

(* What becomes of d, every fd that stands for it gets to know; the row of *)
(* t's fd is told, the other rows are not.                                 *)
OnlyTold(d, told) ==
  untold' = [s \in Tasks |->
    untold[s] \cup {fd \in Fds : fds[s][fd] = d /\ <<s, fd>> \notin told}]

(* The kernel reads the address now, not when the tracer looked at it.     *)
KBind(t) ==
  LET fd == call[t].call.fd
      file == File(t, fd) IN
  /\ In(t, {"bind"})
  /\ file.kind = "tcp" /\ file.local = Unset
  /\ desc' = [desc EXCEPT ![Table(t)[fd]].local = memory[space[t]]]
  /\ OnlyTold(Table(t)[fd], {<<space[t], fd>>})
  /\ Returns(t, TRUE, NoFd, Unset)
  /\ UNCHANGED <<space, fds, cloexec, wrote, memory, rows, left>>

(* ok is FALSE when the answer is EINPROGRESS or EINTR: the connection is  *)
(* made all the same.                                                      *)
KConnect(t) ==
  LET fd == call[t].call.fd
      file == File(t, fd) IN
  /\ In(t, {"connect"})
  /\ file.kind = "tcp" /\ file.remote = Unset
  /\ desc' = [desc EXCEPT ![Table(t)[fd]] =
       [file EXCEPT !.remote = memory[space[t]],
                    !.local = IF @ = Unset THEN [at |-> "host", port |-> Ephemeral] ELSE @]]
  /\ \E ok \in BOOLEAN :
       /\ OnlyTold(Table(t)[fd], IF ok THEN {<<space[t], fd>>} ELSE {})
       /\ Returns(t, ok, NoFd, Unset)
  /\ UNCHANGED <<space, fds, cloexec, wrote, memory, rows, left>>

(* getsockname, and messages of whatever kind the kernel gets to see.      *)
KUses(t) ==
  /\ In(t, {"getsockname", "message"})
  /\ File(t, call[t].call.fd).kind \in (IF call[t].call.name = "message"
                                        THEN Kinds \cup {"file"} ELSE Kinds)
  /\ Returns(t, TRUE, NoFd, File(t, call[t].call.fd).local)
  /\ UNCHANGED <<kernelVars, memory, rows, left>>

(* Mutant: the child of a fork starts with an empty table.                 *)
InheritNothing(parent, child) == rows

(* SocketTable.inherit_pid                                                 *)
InheritPid(parent, child) ==
  [rows EXCEPT ![child] =
     [fd \in Fds |-> IF rows[parent][fd] # NoRow THEN rows[parent][fd] ELSE rows[child][fd]]]

(* fork and clone, with the event that makes the child known.              *)
KFork(t, child) ==
  LET shares == call[t].call.name = "clone" IN
  /\ In(t, {"fork", "clone"}) /\ child \notin Born
  /\ space' = [space EXCEPT ![child] = IF shares THEN space[t] ELSE child]
  /\ IF shares THEN UNCHANGED <<fds, cloexec, memory, wrote, untold>>
     ELSE /\ fds' = [fds EXCEPT ![child] = Table(t)]
          /\ cloexec' = [cloexec EXCEPT ![child] = cloexec[space[t]]]
          /\ memory' = [memory EXCEPT ![child] = memory[space[t]]]
          /\ wrote' = [wrote EXCEPT ![child] = wrote[space[t]]]
          /\ untold' = [untold EXCEPT ![child] = untold[space[t]]]
  /\ rows' = InheritPid(t, child)
  /\ left' = [left EXCEPT ![child] = left[t]]
  /\ Returns(t, TRUE, NoFd, Unset)
  /\ UNCHANGED desc

(* execve of a process without other threads: a new memory, and the table  *)
(* of sockets stays as it is.                                              *)
KExec(t) ==
  /\ In(t, {"exec"})
  /\ Retable(t, [fd \in Fds |-> IF fd \in cloexec[space[t]] THEN NoDesc ELSE Table(t)[fd]],
             {}, untold[space[t]] \ cloexec[space[t]])
  /\ memory' = [memory EXCEPT ![space[t]] = Unset]
  /\ wrote' = [wrote EXCEPT ![space[t]] = Unset]
  /\ left' = [left EXCEPT ![t] = @ \cup {fd \in cloexec[space[t]] : rows[t][fd] # NoRow}]
  /\ Returns(t, TRUE, NoFd, Unset)
  /\ UNCHANGED <<space, rows>>

(* A task ends: drop_pid.  (Ended inside a call it leaves no more behind.)  *)
End(t) ==
  LET last == ThreadsOf(space[t]) = {t} IN
  /\ t \in Born /\ call[t] = NoCall /\ Born # {t}
  /\ space' = [space EXCEPT ![t] = NoTask]
  /\ rows' = [rows EXCEPT ![t] = NoRows]
  /\ left' = [left EXCEPT ![t] = {}]
  /\ UNCHANGED <<call, calls>>
  /\ IF last
     THEN /\ Retable(t, NoFds, {}, {})
          /\ memory' = [memory EXCEPT ![space[t]] = Unset]
          /\ wrote' = [wrote EXCEPT ![space[t]] = Unset]
     ELSE UNCHANGED <<fds, cloexec, desc, untold, memory, wrote>>

-----------------------------------------------------------------------------
(* The exit of a call: handle_syscall_exit.                                *)

(* handle_socket_exit *)
NewRow(kind) == [kind |-> kind, local |-> Unset, remote |-> Unset]

(* SocketTable.duplicate                                                   *)
Duplicate(table, old, new) == [table EXCEPT ![new] = table[old]]

(* SocketTable.close and close_range                                       *)
Dropped(table, first, last) ==
  [fd \in Fds |-> IF first <= fd /\ fd <= last THEN NoRow ELSE table[fd]]

(* handle_connect_exit and handle_bind_exit make the row if there is none. *)
Tracked(table, fd) ==
  IF table[fd] = NoRow THEN NewRow("tcp") ELSE table[fd]

(* Mutant: the program is told what the kernel told.                       *)
NamedAsSeen(row, seen) ==
  IF row.kind = "tcp" /\ row.local = Unset THEN [row EXCEPT !.local = seen] ELSE row

(* handle_socket_name_exit: without a known address, the interface's with  *)
(* the port the kernel told; only for an IPv4 address.                     *)
Named(row, seen) ==
  IF row.kind = "tcp" /\ row.local = Unset
  THEN [row EXCEPT !.local = [at |-> "mixed", port |-> seen.port]] ELSE row

(* handle_accept_exit, of a listener the table knows                       *)
Accepted(listener) == [listener EXCEPT !.remote = Unset]

(* Mutant: the result of the call is not looked at.                        *)
AnyResult(c) == c.answer \notin {"refuse", "emulated"}

(* The calls whose exit changes the table.                                 *)
Followed(c) == c.ok /\ c.answer \notin {"refuse", "emulated"}

(* handle_connect_exit *)
Connected(row, c) == IF c.address = Unset THEN row ELSE [row EXCEPT !.remote = c.address]

(* handle_bind_exit *)
Bound(row, c) == IF c.address = Unset THEN row ELSE [row EXCEPT !.local = c.address]

(* handle_syscall_exit_record *)
RowsAfter(t, c) ==
  LET table == rows[t]
      fd == c.call.fd
      name == c.call.name IN
  CASE name = "socket"          -> [table EXCEPT ![c.out] = NewRow(c.call.kind)]
    [] name = "close"           -> Dropped(table, fd, fd)
    [] name = "close_range"     -> Dropped(table, fd, c.call.to)
    [] name \in {"dup", "dup2"} -> Duplicate(table, fd, c.out)
    [] name = "bind"            -> [table EXCEPT ![fd] = Bound(Tracked(table, fd), c)]
    [] name = "connect"         -> [table EXCEPT ![fd] = Connected(Tracked(table, fd), c)]
    [] name = "accept" /\ table[fd] # NoRow      -> [table EXCEPT ![c.out] = Accepted(table[fd])]
    [] name = "getsockname" /\ table[fd] # NoRow -> [table EXCEPT ![fd] = Named(@, c.seen)]
    [] OTHER -> table

(* Which rows an execve left behind are still there, or were copied.       *)
LeftAfter(t, c) ==
  CASE c.call.name \in {"socket", "accept"} -> left[t] \ {c.out}
    [] c.call.name \in {"dup", "dup2"} ->
         IF c.call.fd \in left[t] THEN left[t] \cup {c.out} ELSE left[t] \ {c.out}
    [] c.call.name = "close" -> left[t] \ {c.call.fd}
    [] c.call.name = "close_range" -> left[t] \ (c.call.fd .. c.call.to)
    [] OTHER -> left[t]

(* Mutant: the address is written back only after a call that succeeded.   *)
RestoredIfOk(t, c) ==
  IF c.answer = "redirect" /\ c.ok THEN [memory EXCEPT ![space[t]] = c.address] ELSE memory

(* restore_sockaddr_if_needed                                              *)
Restored(t, c) ==
  IF c.answer = "redirect" THEN [memory EXCEPT ![space[t]] = c.address] ELSE memory

Exit(t) ==
  LET c == call[t] IN
  /\ t \in Born /\ c # NoCall /\ c.stage = "returned"
  /\ rows' = IF Followed(c) THEN [rows EXCEPT ![t] = RowsAfter(t, c)] ELSE rows
  /\ left' = IF Followed(c) THEN [left EXCEPT ![t] = LeftAfter(t, c)] ELSE left
  /\ memory' = Restored(t, c)
  /\ call' = [call EXCEPT ![t] = NoCall]
  /\ UNCHANGED <<kernelVars, calls>>

-----------------------------------------------------------------------------
Kernel(t) ==
  \/ Neutralised(t) \/ KernelFails(t) \/ KSocket(t) \/ KOpen(t) \/ KAccept(t)
  \/ KClose(t) \/ KDup(t) \/ KBind(t) \/ KConnect(t) \/ KUses(t) \/ KExec(t)
  \/ \E child \in Tasks : KFork(t, child)

Next == \E t \in Tasks :
  \/ \E a \in Written : Write(t, a)
  \/ \E c \in CallsMade : Entry(t, c)
  \/ Kernel(t) \/ Exit(t) \/ End(t)

Spec == Init /\ [][Next]_vars

-----------------------------------------------------------------------------
(* Properties.                                                             *)

Idle(s) == \A t \in ThreadsOf(s) : call[t] = NoCall

(* What a row may say of a local address.  A port the service mapped has   *)
(* its virtual address; before the kernel has an address, and for a port   *)
(* it picked, there is none, or what an earlier getsockname made up.       *)
LocalTold(said, real) ==
  IF real.port \in Ports THEN said = [at |-> "virtual", port |-> real.port]
  ELSE said \in {Unset} \cup {[at |-> "mixed", port |-> port] : port \in {0, real.port}}

(* Of a remote one: nothing of who connected, and else what was connected. *)
RemoteTold(said, real) ==
  IF real.port \in Ports
  THEN said = IF real.at = "host" THEN [at |-> "virtual", port |-> real.port] ELSE real
  ELSE said = Unset

(* Outside calls, a task has a row for just the sockets it has open, of    *)
(* the kind they are.  A virtual address in it is the one behind which the *)
(* service put the address the kernel has.  And the row has the address    *)
(* whenever the service gave one, except of a file that was bound or       *)
(* connected through another fd, or by a connect that did not wait.  (All  *)
(* this but for the rows an execve left behind.)                           *)
RowsTellTruth == \A t \in Born : Idle(space[t]) =>
  \A fd \in Fds \ left[t] :
    LET row == rows[t][fd]
        file == File(t, fd) IN
    /\ row # NoRow <=> file.kind \in Kinds
    /\ row # NoRow =>
         /\ row.kind = file.kind
         /\ row.local.at = "virtual" => file.local = OnHost(row.local)
         /\ row.remote.at = "virtual" => file.remote = OnHost(row.remote)
         /\ fd \notin untold[space[t]] =>
              LocalTold(row.local, file.local) /\ RemoteTold(row.remote, file.remote)

(* No TCP socket gets to a virtual address past the service.               *)
KernelSeesReal == \A d \in Descs :
  desc[d].local.at \in {"unset", "host"} /\ desc[d].remote.at \in {"unset", "host", "outside"}

(* Outside calls a program finds the address it wrote in its memory.       *)
MemoryIntact == \A t \in Born : Idle(space[t]) => memory[space[t]] = wrote[space[t]]

(* A message of t whose entry was decided now, while no thread of the      *)
(* process was in a call.                                                  *)
Messages(t) == Idle(space[t]) /\ call'[t] # NoCall /\ call'[t].call.name = "message"

(* The host's interfaces are not seen: the tracer answers every message on *)
(* a route socket itself, and takes nothing else for one, but for the rows *)
(* an execve left behind.  (Of processes with one thread: another thread's *)
(* route socket has no row.)                                               *)
HostStaysHidden == [][\A t \in Born : Messages(t) =>
  LET fd == call'[t].call.fd
  IN \/ fd \in left[t] /\ File(t, fd).kind # "route"
     \/ call'[t].answer = "emulated" <=> File(t, fd).kind = "route"]_vars
=============================================================================
