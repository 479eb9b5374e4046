----------------------- MODULE VirtualSockets_proofs -----------------------
(***************************************************************************)
(* TLAPS proofs about the table of sockets: what it says of processes with *)
(* one thread each is so, for any number of processes, fds and calls.      *)
(***************************************************************************)
EXTENDS VirtualSockets, WellFoundedInduction, TLAPS

(* Threads share fds and memory in the kernel, and the table does not: of  *)
(* a process with threads the properties do not hold.                      *)
OneThreadEach == "clone" \notin Names

(* A process has its own space, and before it is born, nothing.            *)
Alone(t) ==
  /\ space[t] \in {t, NoTask}
  /\ space[t] = NoTask => fds[t] = NoFds /\ rows[t] = NoRows /\ call[t] = NoCall

(* An fd stands for a file that is open.                                   *)
FilesOpen == \A t \in Tasks, fd \in Fds : fds[t][fd] # NoDesc => desc[fds[t][fd]].kind # "free"

(* The address in a program's memory is its own, but during a redirected   *)
(* call.  What is let through as it is goes elsewhere; what the tracer     *)
(* did not look at is a call on a route socket.                            *)
Underway(t) ==
  LET c == call[t] IN
  /\ wrote[t] \in Written \cup {Unset}
  /\ c = NoCall \/ c.answer # "redirect" => memory[t] = wrote[t]
  /\ c # NoCall =>
       /\ c.call \in CallsMade
       /\ c.answer = "redirect" =>
            /\ c.call.name \in {"bind", "connect"}
            /\ c.address = wrote[t] /\ c.address.at = "virtual"
            /\ memory[t] = OnHost(c.address)
       /\ c.answer = "allow" =>
            c.call.name = "connect" /\ c.address = wrote[t] /\ c.address.at = "outside"
       /\ c.answer \notin {"redirect", "allow"} => c.address = Unset
       /\ Followed(c) /\ c.stage = "returned" /\ c.call.name \in {"dup", "dup2"} => c.out \in Fds
       /\ c.call.name \in {"bind", "connect"} /\ c.answer = "none" => IsRouteNetlink(rows[t][c.call.fd])

(* What the table will say of t at the end of the call it is in.           *)
Ahead(t) == call[t] # NoCall /\ call[t].stage = "returned" /\ Followed(call[t])
NextRows(t) == IF Ahead(t) THEN RowsAfter(t, call[t]) ELSE rows[t]
NextLeft(t) == IF Ahead(t) THEN LeftAfter(t, call[t]) ELSE left[t]

Describes(row, file, fd, unknown) ==
  /\ row # NoRow <=> file.kind \in Kinds
  /\ row # NoRow =>
       /\ row.kind = file.kind
       /\ row.local.at = "virtual" => file.local = OnHost(row.local)
       /\ row.remote.at = "virtual" => file.remote = OnHost(row.remote)
       /\ fd \notin unknown =>
            LocalTold(row.local, file.local) /\ RemoteTold(row.remote, file.remote)

(* It is true of each fd, but of those an execve closed, which are no      *)
(* sockets.                                                                *)
Tells(t, fd) ==
  IF fd \in NextLeft(t) THEN File(t, fd).kind \notin Kinds
  ELSE Describes(NextRows(t)[fd], File(t, fd), fd, untold[t])

TableTells == \A t \in Born, fd \in Fds : Tells(t, fd)

SocketsInv ==
  /\ TypeOK
  /\ \A t \in Tasks : Alone(t)
  /\ FilesOpen
  /\ KernelSeesReal
  /\ \A t \in Born : Underway(t)
  /\ TableTells

LEMMA MinOfNaturals ==
  ASSUME NEW S, S \subseteq Nat, S # {}
  PROVE  Min(S) \in S
<1>1. IsWellFoundedOn({ss \in Nat \X Nat : ss[1] < ss[2]}, Nat)
  BY NatLessThanWellFounded DEF OpToRel
<1>2. PICK x \in S : \A y \in S : ~ (<<y, x>> \in {ss \in Nat \X Nat : ss[1] < ss[2]})
  BY <1>1, WFMin
<1>3. ASSUME NEW y \in S
      PROVE  x =< y
  <2>1. <<y, x>> \in Nat \X Nat
    OBVIOUS
  <2>2. ~ (y < x)
    BY <1>2, <2>1
  <2> QED  BY <2>2
<1> QED  BY <1>3 DEF Min

-----------------------------------------------------------------------------
(* What the invariant says of a process.                                   *)

FileRecord == [kind : Kinds \cup {"file", "free"}, local : Address \cup {Unset},
               remote : Address \cup {Unset}]

LEMMA OwnSpace ==
  ASSUME SocketsInv, NEW t \in Born
  PROVE  t \in Tasks /\ space[t] = t /\ Table(t) = fds[t]
BY DEF SocketsInv, Alone, Born, Table

(* With one thread, a process is idle when its task is in no call.         *)
LEMMA IdleAlone ==
  ASSUME SocketsInv, NEW t \in Born
  PROVE  Idle(space[t]) <=> call[t] = NoCall
<1>1. ThreadsOf(space[t]) = {t}
  BY OwnSpace DEF ThreadsOf
<1> QED  BY <1>1 DEF Idle

LEMMA FileOf ==
  ASSUME SocketsInv, NEW t \in Born, NEW fd \in Fds
  PROVE  /\ File(t, fd) = IF fds[t][fd] = NoDesc THEN Free ELSE desc[fds[t][fd]]
         /\ fds[t][fd] # NoDesc => fds[t][fd] \in Descs
         /\ File(t, fd) \in FileRecord
         /\ File(t, fd).kind = "free" <=> fds[t][fd] = NoDesc
<1>1. t \in Tasks /\ Table(t) = fds[t]
  BY OwnSpace
<1>2. Free \in FileRecord /\ Free.kind = "free"
  BY DEF Free, FileRecord
<1>3. fds[t][fd] # NoDesc =>
        fds[t][fd] \in Descs /\ desc[fds[t][fd]] \in FileRecord /\ desc[fds[t][fd]].kind # "free"
  BY <1>1 DEF SocketsInv, TypeOK, FilesOpen, FileRecord
<1> QED  BY <1>1, <1>2, <1>3 DEF File

(* Before its kernel part a call has told the table nothing.               *)
LEMMA EnteredTells ==
  ASSUME SocketsInv, NEW t \in Born, NEW fd \in Fds,
         call[t] = NoCall \/ call[t].stage = "entered"
  PROVE  IF fd \in left[t] THEN File(t, fd).kind \notin Kinds
         ELSE Describes(rows[t][fd], File(t, fd), fd, untold[t])
<1>1. ~Ahead(t)
  BY DEF Ahead
<1>2. Tells(t, fd)
  BY DEF SocketsInv, TableTells
<1> QED  BY <1>1, <1>2 DEF Tells, NextRows, NextLeft

(* An open file may become bound or connected, and nothing else; then the  *)
(* rows that were not told are known.                                      *)
Grows(f, g) ==
  /\ g.kind = f.kind
  /\ f.local # Unset => g.local = f.local
  /\ f.remote # Unset => g.remote = f.remote

SameTask(u) ==
  /\ space'[u] = space[u] /\ fds'[u] = fds[u] /\ rows'[u] = rows[u] /\ left'[u] = left[u]
  /\ memory'[u] = memory[u] /\ wrote'[u] = wrote[u] /\ call'[u] = call[u]

FilesGrow(u) ==
  /\ untold[u] \subseteq untold'[u]
  /\ \A fd \in Fds : fds[u][fd] # NoDesc =>
       /\ Grows(desc[fds[u][fd]], desc'[fds[u][fd]])
       /\ desc'[fds[u][fd]] = desc[fds[u][fd]] \/ fd \in untold'[u]

LEMMA VirtualIsNoUnset ==
  \A a \in Told : a.at = "virtual" => OnHost(a) # Unset
BY DEF OnHost, Unset

LEMMA GrownDescribes ==
  ASSUME NEW row \in Row \cup {NoRow}, NEW f, NEW g, NEW fd, NEW before, NEW after,
         Grows(f, g), Describes(row, f, fd, before), before \subseteq after,
         g = f \/ fd \in after
  PROVE  Describes(row, g, fd, after)
<1>1. CASE row = NoRow
  BY <1>1 DEF Grows, Describes
<1>2. CASE row # NoRow
  <2>1. row.local \in Told /\ row.remote \in Told
    BY <1>2 DEF Row
  <2>2. row.local.at = "virtual" => g.local = f.local
    BY <1>2, <2>1, VirtualIsNoUnset DEF Grows, Describes
  <2>3. row.remote.at = "virtual" => g.remote = f.remote
    BY <1>2, <2>1, VirtualIsNoUnset DEF Grows, Describes
  <2>4. fd \notin after =>
          LocalTold(row.local, g.local) /\ RemoteTold(row.remote, g.remote)
    BY <1>2 DEF Describes
  <2> QED  BY <1>2, <2>2, <2>3, <2>4 DEF Grows, Describes
<1> QED  BY <1>1, <1>2

LEMMA RowTypes ==
  /\ \A kind \in Kinds : NewRow(kind) \in Row
  /\ \A row \in Row : Accepted(row) \in Row
  /\ \A row \in Row, seen \in Address \cup {Unset} : Named(row, seen) \in Row
  /\ \A row \in Row, a \in Told : [row EXCEPT !.local = a] \in Row /\ [row EXCEPT !.remote = a] \in Row
<1>1. Unset \in Told
  BY DEF Told
<1>2. \A seen \in Address \cup {Unset} : [at |-> "mixed", port |-> seen.port] \in Told
  BY DEF Told, Address, Unset
<1>3. \A row \in Row : row.kind \in Kinds /\ row.local \in Told /\ row.remote \in Told
                       /\ row = [kind |-> row.kind, local |-> row.local, remote |-> row.remote]
  BY DEF Row
<1>4. \A kind \in Kinds : NewRow(kind) \in Row
  BY <1>1 DEF NewRow, Row
<1>5. \A row \in Row, a \in Told : [row EXCEPT !.local = a] \in Row /\ [row EXCEPT !.remote = a] \in Row
  BY <1>3 DEF Row
<1> QED  BY <1>1, <1>2, <1>4, <1>5 DEF Accepted, Named

(* What the exit of a call makes of the table is a table.                  *)
LEMMA NextRowsTyped ==
  ASSUME SocketsInv, NonesAssumption, NEW t \in Born
  PROVE  NextRows(t) \in [Fds -> Row \cup {NoRow}] /\ NextLeft(t) \subseteq Fds
<1> DEFINE c == call[t]
           table == rows[t]
<1>1. t \in Tasks /\ table \in [Fds -> Row \cup {NoRow}] /\ left[t] \subseteq Fds
  BY OwnSpace DEF SocketsInv, TypeOK
<1>2. CASE ~Ahead(t)
  BY <1>1, <1>2 DEF NextRows, NextLeft
<1>3. CASE Ahead(t)
  <2>1. c \in Pending
    BY <1>1, <1>3 DEF SocketsInv, TypeOK, Ahead
  <2>2. /\ c.call \in Call /\ c.out \in Fds \cup {NoFd} /\ c.seen \in Address \cup {Unset}
        /\ c.call.fd \in Fds /\ c.call.kind \in Kinds \cup {NoKind}
    BY <2>1 DEF Pending, Call
  <2>3. Underway(t)
    BY DEF SocketsInv
  <2>4. c.address = Unset \/ c.address \in Told
    BY <1>3, <2>3 DEF Underway, Ahead, Written, Told, Address
  <2>5. Tracked(table, c.call.fd) \in Row
    BY <1>1, <2>2, RowTypes DEF Tracked, Kinds
  <2>6. /\ Bound(Tracked(table, c.call.fd), c) \in Row
        /\ Connected(Tracked(table, c.call.fd), c) \in Row
    BY <2>4, <2>5, RowTypes DEF Bound, Connected
  <2>7. \A fd \in Fds, row \in Row \cup {NoRow} : [table EXCEPT ![fd] = row] \in [Fds -> Row \cup {NoRow}]
    BY <1>1
  <2>8. NextRows(t) = RowsAfter(t, c) /\ NextLeft(t) = LeftAfter(t, c)
    BY <1>3 DEF NextRows, NextLeft
  <2>9. c.call.name \in {"dup", "dup2"} => c.out \in Fds
    BY <1>3, <2>3 DEF Underway, Ahead
  <2>10. LeftAfter(t, c) \subseteq Fds
    BY <1>1, <2>9 DEF LeftAfter
  <2>11. \A first, last : Dropped(table, first, last) \in [Fds -> Row \cup {NoRow}]
    BY <1>1 DEF Dropped
  <2>12. CASE c.call.name \in {"bind", "connect"}
    BY <1>1, <2>2, <2>6, <2>7, <2>8, <2>10, <2>12 DEF RowsAfter
  <2>13. CASE c.call.name \in {"dup", "dup2"}
    <3>1. table[c.call.fd] \in Row \cup {NoRow} /\ c.out \in Fds
      BY <1>1, <2>2, <2>9, <2>13
    <3>2. RowsAfter(t, c) = [table EXCEPT ![c.out] = table[c.call.fd]]
      BY <2>13 DEF RowsAfter, Duplicate
    <3> QED  BY <2>7, <2>8, <2>10, <3>1, <3>2
  <2>14. CASE c.call.name \in {"socket", "accept"}
    <3>1. c.call.name = "socket" => NewRow(c.call.kind) \in Row
      BY <1>3, <2>2, <2>3, RowTypes DEF Underway, CallsMade, Ahead
    <3>2. table[c.call.fd] # NoRow => Accepted(table[c.call.fd]) \in Row
      BY <1>1, <2>2, RowTypes
    <3> QED  BY <1>1, <2>2, <2>8, <2>10, <2>14, <3>1, <3>2 DEF RowsAfter
  <2>15. CASE c.call.name = "getsockname"
    BY <1>1, <2>2, <2>7, <2>8, <2>10, <2>15, RowTypes DEF RowsAfter
  <2>16. CASE c.call.name \in {"open", "message", "fork", "clone", "exec"}
    BY <1>1, <2>8, <2>10, <2>16 DEF RowsAfter
  <2>17. CASE c.call.name \in {"close", "close_range"}
    <3>1. RowsAfter(t, c) \in {Dropped(table, c.call.fd, c.call.fd), Dropped(table, c.call.fd, c.call.to)}
      BY <2>17 DEF RowsAfter
    <3> QED  BY <2>8, <2>10, <2>11, <3>1
  <2>18. c.call.name \in AllNames
    BY <2>2, SocketsAssumption DEF Call
  <2> QED  BY <2>12, <2>13, <2>14, <2>15, <2>16, <2>17, <2>18 DEF AllNames
<1> QED  BY <1>2, <1>3

(* A task that takes no part in a step.                                    *)
LEMMA Elsewhere ==
  ASSUME SocketsInv, NEW u \in Tasks, SameTask(u), FilesGrow(u)
  PROVE  /\ Alone(u)'
         /\ (u \in Born)' => u \in Born /\ Underway(u)' /\ \A fd \in Fds : Tells(u, fd)'
<1>1. Alone(u)'
  BY DEF SocketsInv, Alone, SameTask
<1>2. ASSUME (u \in Born)'
      PROVE  u \in Born /\ Underway(u)' /\ \A fd \in Fds : Tells(u, fd)'
  <2>1. u \in Born /\ space[u] = u
    BY <1>2, OwnSpace DEF Born, SameTask
  <2>2. Underway(u)
    BY <2>1 DEF SocketsInv
  <2>3. Underway(u)'
    BY <2>2 DEF SameTask, Underway
  <2>4. NextRows(u)' = NextRows(u) /\ NextLeft(u)' = NextLeft(u)
    BY DEF SameTask, NextRows, NextLeft, Ahead, RowsAfter, LeftAfter
  <2>5. ASSUME NEW fd \in Fds
        PROVE  Tells(u, fd)'
    <3>1. Tells(u, fd)
      BY <2>1 DEF SocketsInv, TableTells
    <3>2. File(u, fd)' = IF fds[u][fd] = NoDesc THEN Free ELSE desc'[fds[u][fd]]
      BY <2>1 DEF SameTask, File, Table
    <3>3. /\ Grows(File(u, fd), File(u, fd)') /\ untold[u] \subseteq untold'[u]
          /\ File(u, fd)' = File(u, fd) \/ fd \in untold'[u]
      BY <2>1, <3>2, FileOf DEF FilesGrow, Grows
    <3>4. NextRows(u)[fd] \in Row \cup {NoRow}
      BY <2>1, NextRowsTyped, NonesAssumption
    <3>5. CASE fd \in NextLeft(u)
      BY <2>4, <3>1, <3>3, <3>5 DEF Tells, Grows
    <3>6. CASE fd \notin NextLeft(u)
      <4>1. Describes(NextRows(u)[fd], File(u, fd)', fd, untold'[u])
        BY <3>1, <3>3, <3>4, <3>6, GrownDescribes DEF Tells
      <4>2. Describes(NextRows(u)[fd], File(u, fd), fd, untold[u])'
        BY <2>4, <4>1 DEF Describes
      <4> QED  BY <2>4, <3>6, <4>2 DEF Tells
    <3> QED  BY <3>5, <3>6
  <2> QED  BY <2>1, <2>3, <2>5
<1> QED  BY <1>1, <1>2

(* A step of the tasks in W keeps the invariant when it keeps it for them, *)
(* leaves the other tasks alone and at most binds or connects their files. *)
LEMMA StepOf ==
  ASSUME SocketsInv, NEW W, W \subseteq Tasks, TypeOK', FilesOpen', KernelSeesReal',
         \A t \in W : /\ Alone(t)'
                      /\ (t \in Born)' => Underway(t)' /\ \A fd \in Fds : Tells(t, fd)',
         \A u \in Tasks \ W : SameTask(u) /\ FilesGrow(u)
  PROVE  SocketsInv'
<1>1. \A t \in Tasks : /\ Alone(t)'
                       /\ (t \in Born)' => Underway(t)' /\ \A fd \in Fds : Tells(t, fd)'
  BY Elsewhere
<1>2. \A t \in Born' : t \in Tasks
  BY DEF Born
<1> QED  BY <1>1, <1>2 DEF SocketsInv, TableTells

-----------------------------------------------------------------------------
(* The kernel's part of a call.                                            *)

LEMMA ReturnsDoes ==
  ASSUME TypeOK, NonesAssumption, NEW t \in Tasks, call[t] # NoCall,
         NEW ok \in BOOLEAN, NEW out \in Fds \cup {NoFd}, NEW seen \in Address \cup {Unset},
         Returns(t, ok, out, seen)
  PROVE  /\ call' \in [Tasks -> Pending \cup {NoCall}] /\ calls' = calls
         /\ \A u \in Tasks \ {t} : call'[u] = call[u]
         /\ call'[t] # NoCall
         /\ call'[t].stage = "returned" /\ call'[t].ok = ok /\ call'[t].out = out
         /\ call'[t].seen = seen /\ call'[t].call = call[t].call
         /\ call'[t].answer = call[t].answer /\ call'[t].address = call[t].address
<1>1. call \in [Tasks -> Pending \cup {NoCall}] /\ call[t] \in Pending
  BY DEF TypeOK
<1> DEFINE next == [call[t] EXCEPT !.stage = "returned", !.ok = ok, !.out = out, !.seen = seen]
<1>2. /\ next \in Pending
      /\ next.stage = "returned" /\ next.ok = ok /\ next.out = out /\ next.seen = seen
      /\ next.call = call[t].call /\ next.answer = call[t].answer /\ next.address = call[t].address
  BY <1>1 DEF Pending
<1>3. call' = [call EXCEPT ![t] = next] /\ calls' = calls
  BY DEF Returns
<1> HIDE DEF next
<1> QED  BY <1>1, <1>2, <1>3, NonesAssumption

(* The kernel's part of a call of t, when it changes no more than files    *)
(* and fds: what is left to show is that the table will tell the truth.    *)
LEMMA KernelStep ==
  ASSUME SocketsInv, NonesAssumption, NEW t \in Born, call[t] # NoCall,
         NEW ok \in BOOLEAN, NEW out \in Fds \cup {NoFd}, NEW seen \in Address \cup {Unset},
         Returns(t, ok, out, seen), UNCHANGED <<space, wrote, memory, rows, left>>,
         ok /\ call[t].answer \notin {"refuse", "emulated"}
            /\ call[t].call.name \in {"dup", "dup2"} => out \in Fds,
         fds' \in [Tasks -> [Fds -> Descs \cup {NoDesc}]], cloexec' \in [Tasks -> SUBSET Fds],
         desc' \in [Descs -> FileRecord], FilesOpen', KernelSeesReal',
         \A u \in Tasks \ {t} : fds'[u] = fds[u] /\ FilesGrow(u),
         untold' \in [Tasks -> SUBSET Fds], \A fd \in Fds : Tells(t, fd)'
  PROVE  SocketsInv'
<1>1. t \in Tasks /\ space[t] = t
  BY OwnSpace
<1>2. TypeOK
  BY DEF SocketsInv
<1>3. /\ call' \in [Tasks -> Pending \cup {NoCall}] /\ calls' = calls
      /\ \A u \in Tasks \ {t} : call'[u] = call[u]
      /\ call'[t] # NoCall
      /\ call'[t].stage = "returned" /\ call'[t].ok = ok /\ call'[t].out = out
      /\ call'[t].seen = seen /\ call'[t].call = call[t].call
      /\ call'[t].answer = call[t].answer /\ call'[t].address = call[t].address
  BY <1>1, <1>2, ReturnsDoes, NonesAssumption
<1>4. TypeOK'
  BY <1>2, <1>3 DEF TypeOK, FileRecord
<1>5. Alone(t)'
  BY <1>1, SocketsAssumption DEF Alone
<1>6. Underway(t)'
  <2>1. Underway(t)
    BY DEF SocketsInv
  <2> QED  BY <1>3, <2>1 DEF Underway, Followed
<1>7. \A u \in Tasks \ {t} : SameTask(u) /\ FilesGrow(u)
  BY <1>3 DEF SameTask
<1> DEFINE W == {t}
<1>8. W \subseteq Tasks /\ \A u \in Tasks \ W : SameTask(u) /\ FilesGrow(u)
  BY <1>1, <1>7
<1>9. \A u \in W : /\ Alone(u)'
                   /\ (u \in Born)' => Underway(u)' /\ \A fd \in Fds : Tells(u, fd)'
  BY <1>5, <1>6
<1> HIDE DEF W
<1> QED  BY <1>4, <1>8, <1>9, StepOf

(* What the table will say after it, then.                                 *)
LEMMA KernelTells ==
  ASSUME SocketsInv, NonesAssumption, NEW t \in Born, call[t] # NoCall,
         call[t].answer \notin {"refuse", "emulated"},
         NEW out \in Fds \cup {NoFd}, NEW seen \in Address \cup {Unset},
         Returns(t, TRUE, out, seen), UNCHANGED <<rows, left>>
  PROVE  /\ call'[t].call = call[t].call /\ call'[t].out = out /\ call'[t].seen = seen
         /\ call'[t].answer = call[t].answer /\ call'[t].address = call[t].address
         /\ NextRows(t)' = RowsAfter(t, call'[t]) /\ NextLeft(t)' = LeftAfter(t, call'[t])
<1>1. t \in Tasks /\ TypeOK
  BY OwnSpace DEF SocketsInv
<1>2. /\ call'[t] # NoCall
      /\ call'[t].stage = "returned" /\ call'[t].ok = TRUE /\ call'[t].out = out
      /\ call'[t].seen = seen /\ call'[t].call = call[t].call
      /\ call'[t].answer = call[t].answer /\ call'[t].address = call[t].address
  BY <1>1, ReturnsDoes, NonesAssumption
<1>3. Ahead(t)'
  BY <1>2 DEF Ahead, Followed
<1>4. RowsAfter(t, call[t])' = RowsAfter(t, call'[t]) /\ LeftAfter(t, call[t])' = LeftAfter(t, call'[t])
  BY DEF RowsAfter, LeftAfter
<1>5. /\ NextRows(t)' = RowsAfter(t, call'[t])
      /\ NextLeft(t)' = LeftAfter(t, call'[t])
  BY <1>3, <1>4 DEF NextRows, NextLeft
<1> QED  BY <1>2, <1>5

(* A new file at fd, which was free.                                       *)
OpenedAt(t, fd, file, from) ==
  /\ fds[t][fd] = NoDesc /\ Returns(t, TRUE, fd, Unset)
  /\ UNCHANGED <<space, wrote, memory, rows, left>>
  /\ fds' \in [Tasks -> [Fds -> Descs \cup {NoDesc}]] /\ cloexec' \in [Tasks -> SUBSET Fds]
  /\ desc' \in [Descs -> FileRecord] /\ FilesOpen'
  /\ \A d \in Descs : desc'[d] \in {desc[d], file}
  /\ \A u \in Tasks \ {t} : fds'[u] = fds[u] /\ FilesGrow(u)
  /\ File(t, fd)' = file
  /\ \A fd2 \in Fds \ {fd} : File(t, fd2)' = File(t, fd2)
  /\ untold' \in [Tasks -> SUBSET Fds]
  /\ \A fd2 \in Fds \ {fd} : fd2 \in untold'[t] <=> fd2 \in untold[t]
  /\ fd \notin untold'[t] => from \cap untold[t] = {}

LEMMA OpensDoes ==
  ASSUME SocketsInv, NEW t \in Born, NEW file \in FileRecord, file.kind # "free",
         NEW from, Opens(t, file, from)
  PROVE  \E fd \in Fds : OpenedAt(t, fd, file, from)
<1>1. /\ t \in Tasks /\ space[t] = t /\ Table(t) = fds[t] /\ space' = space
      /\ fds \in [Tasks -> [Fds -> Descs \cup {NoDesc}]] /\ cloexec \in [Tasks -> SUBSET Fds]
      /\ desc \in [Descs -> FileRecord] /\ FilesOpen /\ untold \in [Tasks -> SUBSET Fds]
  BY OwnSpace DEF SocketsInv, TypeOK, FileRecord, Opens
<1>2. PICK fd \in Fds : fd = Min(FreeFds(t)) /\ fds[t][fd] = NoDesc
  <2>1. FreeFds(t) # {} /\ FreeFds(t) \subseteq Nat
    BY SocketsAssumption DEF Opens, FreeFds
  <2>2. Min(FreeFds(t)) \in FreeFds(t)
    BY <2>1, MinOfNaturals
  <2> QED  BY <1>1, <2>2 DEF FreeFds
<1>3. PICK d \in FreeDescs : /\ fds' = [fds EXCEPT ![space[t]][fd] = d]
                             /\ desc' = [desc EXCEPT ![d] = file]
  BY <1>2 DEF Opens
<1>4. d \in Descs /\ d # NoDesc /\ desc[d].kind = "free"
  BY <1>3, SocketsAssumption DEF FreeDescs, Free
<1>5. /\ fds' \in [Tasks -> [Fds -> Descs \cup {NoDesc}]] /\ desc' \in [Descs -> FileRecord]
      /\ desc'[d] = file /\ \A e \in Descs \ {d} : desc'[e] = desc[e]
      /\ fds'[t][fd] = d /\ \A fd2 \in Fds \ {fd} : fds'[t][fd2] = fds[t][fd2]
      /\ \A u \in Tasks \ {t} : fds'[u] = fds[u]
  BY <1>1, <1>3, <1>4
<1>6. \A u \in Tasks, fd2 \in Fds : fds[u][fd2] # NoDesc => /\ fds[u][fd2] \in Descs \ {d}
                                                          /\ desc'[fds[u][fd2]] = desc[fds[u][fd2]]
  BY <1>1, <1>4, <1>5 DEF FilesOpen
<1>7. FilesOpen'
  BY <1>1, <1>5, <1>6 DEF FilesOpen
<1>13. /\ untold' = [untold EXCEPT ![t] = IF from \cap @ = {} THEN @ \ {fd} ELSE @ \cup {fd}]
  BY <1>1, <1>2 DEF Opens
<1>14. /\ untold' \in [Tasks -> SUBSET Fds] /\ \A u \in Tasks \ {t} : untold'[u] = untold[u]
       /\ untold'[t] = IF from \cap untold[t] = {} THEN untold[t] \ {fd} ELSE untold[t] \cup {fd}
  BY <1>1, <1>13
<1>8. \A u \in Tasks \ {t} : FilesGrow(u)
  BY <1>6, <1>14 DEF FilesGrow, Grows
<1>9. File(t, fd)' = file
  BY <1>1, <1>4, <1>5 DEF File, Table
<1>10. \A fd2 \in Fds \ {fd} : File(t, fd2)' = File(t, fd2)
  BY <1>1, <1>5, <1>6 DEF File, Table
<1>11. cloexec' \in [Tasks -> SUBSET Fds]
  BY <1>1, <1>2 DEF Opens
<1>12. Returns(t, TRUE, fd, Unset) /\ UNCHANGED <<space, wrote, memory, rows, left>>
  BY <1>2 DEF Opens
<1>15. /\ \A fd2 \in Fds \ {fd} : fd2 \in untold'[t] <=> fd2 \in untold[t]
       /\ fd \notin untold'[t] => from \cap untold[t] = {}
  BY <1>14
<1>16. OpenedAt(t, fd, file, from)
  BY <1>1, <1>2, <1>5, <1>7, <1>8, <1>9, <1>10, <1>11, <1>12, <1>14, <1>15 DEF OpenedAt
<1> QED  BY <1>16

(* A table made of the files of the old one.                               *)
LEMMA RetableDoes ==
  ASSUME SocketsInv, NEW t \in Born,
         fds' = [fds EXCEPT ![t] = fds'[t]], fds'[t] \in [Fds -> Descs \cup {NoDesc}],
         cloexec' = [cloexec EXCEPT ![t] = cloexec'[t]], cloexec'[t] \in SUBSET Fds,
         untold' = [untold EXCEPT ![t] = untold'[t]], untold'[t] \in SUBSET Fds,
         desc' = Swept(fds', desc),
         \A fd \in Fds : fds'[t][fd] # NoDesc => \E old \in Fds : fds'[t][fd] = fds[t][old]
  PROVE  /\ fds' \in [Tasks -> [Fds -> Descs \cup {NoDesc}]] /\ cloexec' \in [Tasks -> SUBSET Fds]
         /\ desc' \in [Descs -> FileRecord] /\ FilesOpen' /\ KernelSeesReal'
         /\ \A u \in Tasks \ {t} : fds'[u] = fds[u] /\ FilesGrow(u)
         /\ \A fd \in Fds : fds'[t][fd] # NoDesc => desc'[fds'[t][fd]] = desc[fds'[t][fd]]
         /\ untold' \in [Tasks -> SUBSET Fds]
<1>1. /\ t \in Tasks /\ space[t] = t
      /\ fds \in [Tasks -> [Fds -> Descs \cup {NoDesc}]] /\ cloexec \in [Tasks -> SUBSET Fds]
      /\ desc \in [Descs -> FileRecord] /\ FilesOpen /\ KernelSeesReal
      /\ untold \in [Tasks -> SUBSET Fds]
  BY OwnSpace DEF SocketsInv, TypeOK, FileRecord
<1> DEFINE table == fds'[t]
           unknown == untold'[t]
           flags == cloexec'[t]
<1> HIDE DEF table, unknown, flags
<1>2. /\ fds' = [fds EXCEPT ![t] = table] /\ desc' = Swept(fds', desc)
      /\ cloexec' = [cloexec EXCEPT ![t] = flags] /\ untold' = [untold EXCEPT ![t] = unknown]
      /\ table \in [Fds -> Descs \cup {NoDesc}] /\ flags \in SUBSET Fds /\ unknown \in SUBSET Fds
      /\ \A fd \in Fds : table[fd] # NoDesc => \E old \in Fds : table[fd] = fds[t][old]
  BY DEF table, unknown, flags
<1>3. /\ fds' \in [Tasks -> [Fds -> Descs \cup {NoDesc}]] /\ cloexec' \in [Tasks -> SUBSET Fds]
      /\ fds'[t] = table /\ \A u \in Tasks \ {t} : fds'[u] = fds[u]
  BY <1>1, <1>2
<1>11. /\ untold' \in [Tasks -> SUBSET Fds] /\ untold'[t] = unknown
       /\ \A u \in Tasks \ {t} : untold'[u] = untold[u]
  BY <1>1, <1>2
<1>4. \A d \in Descs : desc'[d] \in {desc[d], Free}
  BY <1>2 DEF Swept
<1>5. desc' \in [Descs -> FileRecord]
  <2>1. Free \in FileRecord
    BY DEF Free, FileRecord
  <2>2. desc' = [d \in Descs |-> desc'[d]]
    BY <1>2 DEF Swept
  <2> QED  BY <1>1, <1>4, <2>1, <2>2
<1>6. ASSUME NEW s \in Tasks, NEW fd \in Fds, fds'[s][fd] # NoDesc
      PROVE  desc'[fds'[s][fd]] = desc[fds'[s][fd]] /\ desc[fds'[s][fd]].kind # "free"
  <2>1. fds'[s][fd] \in Descs
    BY <1>3, <1>6
  <2>2. desc'[fds'[s][fd]] = desc[fds'[s][fd]]
    BY <1>2, <2>1 DEF Swept
  <2>3. \E old \in Fds : fds'[s][fd] = fds[s][old]
    BY <1>2, <1>3, <1>6
  <2> QED  BY <1>1, <1>6, <2>2, <2>3 DEF FilesOpen
<1>7. FilesOpen'
  BY <1>6 DEF FilesOpen
<1>8. \A u \in Tasks \ {t} : FilesGrow(u)
  BY <1>3, <1>6, <1>11 DEF FilesGrow, Grows
<1>9. KernelSeesReal'
  BY <1>1, <1>4 DEF KernelSeesReal, Free, Unset
<1>10. \A fd \in Fds : table[fd] # NoDesc => desc'[table[fd]] = desc[table[fd]]
  BY <1>1, <1>3, <1>6
<1> QED  BY <1>3, <1>5, <1>7, <1>8, <1>9, <1>10, <1>11 DEF table

LEMMA FilesStay ==
  ASSUME SocketsInv, UNCHANGED <<space, fds, cloexec, desc, untold>>
  PROVE  /\ fds' \in [Tasks -> [Fds -> Descs \cup {NoDesc}]] /\ cloexec' \in [Tasks -> SUBSET Fds]
         /\ desc' \in [Descs -> FileRecord] /\ FilesOpen' /\ KernelSeesReal'
         /\ \A u \in Tasks : fds'[u] = fds[u] /\ FilesGrow(u)
         /\ \A u \in Born, fd \in Fds : File(u, fd)' = File(u, fd)
         /\ untold' = untold /\ untold' \in [Tasks -> SUBSET Fds]
BY DEF SocketsInv, TypeOK, FileRecord, FilesOpen, KernelSeesReal, FilesGrow, Grows, File, Table

(* A call that fails, or was neutralised, tells the table nothing.         *)
LEMMA NothingDone ==
  ASSUME SocketsInv, NonesAssumption, NEW t \in Tasks, Neutralised(t) \/ KernelFails(t)
  PROVE  SocketsInv'
<1>1. /\ t \in Born /\ call[t] # NoCall /\ call[t].stage = "entered"
      /\ UNCHANGED <<space, fds, cloexec, desc, untold, wrote, memory, rows, left>>
  BY DEF Neutralised, KernelFails, In, kernelVars
<1>2. PICK ok \in BOOLEAN : /\ Returns(t, ok, NoFd, Unset)
                            /\ ok => call[t].answer \in {"refuse", "emulated"}
  BY DEF Neutralised, KernelFails
<1>3. call'[t].ok = ok /\ call'[t].answer = call[t].answer
  BY <1>1, <1>2, ReturnsDoes, NonesAssumption DEF SocketsInv
<1>4. ~Ahead(t)'
  BY <1>2, <1>3 DEF Ahead, Followed
<1>5. NextRows(t)' = rows[t] /\ NextLeft(t)' = left[t]
  BY <1>1, <1>4 DEF NextRows, NextLeft
<1>6. \A fd \in Fds : Tells(t, fd)'
  <2>1. TAKE fd \in Fds
  <2>2. File(t, fd)' = File(t, fd)
    BY <1>1, FilesStay
  <2>3. IF fd \in left[t] THEN File(t, fd).kind \notin Kinds
        ELSE Describes(rows[t][fd], File(t, fd), fd, untold[t])
    BY <1>1, EnteredTells
  <2> QED  BY <1>1, <1>5, <2>2, <2>3 DEF Tells, Describes
<1> QED  BY <1>1, <1>2, <1>6, FilesStay, KernelStep

LEMMA UsesStep ==
  ASSUME SocketsInv, NonesAssumption, NEW t \in Tasks, KUses(t)
  PROVE  SocketsInv'
<1> DEFINE seen == File(t, call[t].call.fd).local
           at == call[t].call.fd
           c == call'[t]
<1>1. /\ t \in Born /\ call[t] # NoCall /\ call[t].stage = "entered"
      /\ call[t].call.name \in {"getsockname", "message"}
      /\ call[t].answer \notin {"refuse", "emulated"}
      /\ UNCHANGED <<space, fds, cloexec, desc, untold, wrote, memory, rows, left>>
      /\ Returns(t, TRUE, NoFd, seen)
  BY DEF KUses, In, kernelVars
<1>2. at \in Fds /\ seen \in Address \cup {Unset} /\ rows[t] \in [Fds -> Row \cup {NoRow}]
  <2>1. call[t].call.fd \in Fds /\ rows[t] \in [Fds -> Row \cup {NoRow}]
    BY <1>1 DEF SocketsInv, TypeOK, Pending, Call
  <2> QED  BY <1>1, <2>1, FileOf DEF FileRecord
<1>3. /\ c.call = call[t].call /\ c.seen = seen
      /\ NextRows(t)' = RowsAfter(t, c) /\ NextLeft(t)' = LeftAfter(t, c)
  BY <1>1, <1>2, KernelTells, NonesAssumption, ZenonT(60)
<1>4. NextLeft(t)' = left[t]
  BY <1>1, <1>3 DEF LeftAfter
<1>5. ASSUME NEW fd \in Fds
      PROVE  Tells(t, fd)'
  <2>1. File(t, fd)' = File(t, fd)
    BY <1>1, FilesStay
  <2>2. IF fd \in left[t] THEN File(t, fd).kind \notin Kinds
        ELSE Describes(rows[t][fd], File(t, fd), fd, untold[t])
    BY <1>1, EnteredTells
  <2>3. \/ NextRows(t)'[fd] = rows[t][fd]
        \/ fd = at /\ rows[t][fd] # NoRow /\ NextRows(t)'[fd] = Named(rows[t][fd], seen)
    <3>1. NextRows(t)' = IF call[t].call.name = "getsockname" /\ rows[t][at] # NoRow
                         THEN [rows[t] EXCEPT ![at] = Named(@, seen)] ELSE rows[t]
      BY <1>1, <1>3 DEF RowsAfter
    <3>2. [rows[t] EXCEPT ![at] = Named(@, seen)][fd]
            = IF fd = at THEN Named(rows[t][fd], seen) ELSE rows[t][fd]
      BY <1>2
    <3>3. CASE call[t].call.name = "getsockname" /\ rows[t][at] # NoRow
      <4>1. NextRows(t)'[fd] = [rows[t] EXCEPT ![at] = Named(@, seen)][fd]
        BY <3>1, <3>3
      <4>2. CASE fd = at
        BY <3>2, <3>3, <4>1, <4>2
      <4>3. CASE fd # at
        BY <3>2, <4>1, <4>3
      <4> QED  BY <4>2, <4>3
    <3>4. CASE ~(call[t].call.name = "getsockname" /\ rows[t][at] # NoRow)
      BY <3>1, <3>4
    <3> QED  BY <3>3, <3>4
  <2>4. CASE fd \in left[t]
    BY <1>4, <2>1, <2>2, <2>4 DEF Tells
  <2>5. CASE fd \notin left[t] /\ NextRows(t)'[fd] = rows[t][fd]
    BY <1>1, <1>4, <2>1, <2>2, <2>5 DEF Tells, Describes
  <2>6. CASE /\ fd = at /\ fd \notin left[t] /\ rows[t][fd] # NoRow
             /\ NextRows(t)'[fd] = Named(rows[t][fd], seen)
    <3> DEFINE row == rows[t][fd]
    <3>1. row \in Row
      BY <1>2, <2>6
    <3>2. /\ Named(row, seen) # NoRow /\ Named(row, seen).kind = row.kind
          /\ Named(row, seen).remote = row.remote
          /\ \/ Named(row, seen).local = row.local
             \/ /\ row.local = Unset
                /\ Named(row, seen).local = [at |-> "mixed", port |-> seen.port]
      BY <1>2, <3>1, RowTypes, NonesAssumption DEF Named, Row
    <3>3. Describes(row, File(t, fd), fd, untold[t])
      BY <2>2, <2>6
    <3>4. fd \notin untold[t] => LocalTold(Named(row, seen).local, File(t, fd).local)
      <4>1. File(t, fd).local = seen
        BY <2>6
      <4>2. LocalTold(Unset, seen) => LocalTold([at |-> "mixed", port |-> seen.port], seen)
        BY DEF LocalTold, Unset
      <4> HIDE DEF seen
      <4> QED  BY <2>6, <3>2, <3>3, <4>1, <4>2 DEF Describes
    <3>5. Describes(Named(row, seen), File(t, fd), fd, untold[t])
      BY <2>6, <3>2, <3>3, <3>4, SMTT(30) DEF Describes
    <3> QED  BY <1>1, <1>4, <2>1, <2>6, <3>5 DEF Tells, Describes
  <2> QED  BY <2>3, <2>4, <2>5, <2>6
<1> QED  BY <1>1, <1>2, <1>5, FilesStay, KernelStep

LEMMA SocketStep ==
  ASSUME SocketsInv, NonesAssumption, NEW t \in Tasks, KSocket(t) \/ KOpen(t)
  PROVE  SocketsInv'
<1>1. /\ t \in Born /\ call[t] # NoCall /\ call[t].stage = "entered"
      /\ call[t].call.name \in {"socket", "open"}
      /\ call[t].answer \notin {"refuse", "emulated"}
  BY DEF KSocket, KOpen, In
<1>2. call[t].call.name = "socket" => call[t].call.kind \in Kinds
  <2>1. call[t].call \in CallsMade
    BY <1>1 DEF SocketsInv, Underway
  <2> QED  BY <1>1, <2>1 DEF CallsMade, Call
<1> DEFINE kind == IF call[t].call.name = "socket" THEN call[t].call.kind ELSE "file"
           file == [Free EXCEPT !.kind = kind]
<1>3. /\ file \in FileRecord /\ file.kind = kind /\ file.local = Unset /\ file.remote = Unset
      /\ kind \in Kinds \cup {"file"}
  BY <1>2 DEF Free, FileRecord
<1>4. Opens(t, file, {}) /\ file.kind # "free"
  BY <1>3 DEF KSocket, KOpen, In, Kinds
<1> HIDE DEF file
<1>20. PICK new \in Fds : OpenedAt(t, new, file, {})
  BY <1>1, <1>3, <1>4, OpensDoes
<1>5. /\ fds[t][new] = NoDesc /\ Returns(t, TRUE, new, Unset)
      /\ UNCHANGED <<space, wrote, memory, rows, left>>
      /\ fds' \in [Tasks -> [Fds -> Descs \cup {NoDesc}]] /\ cloexec' \in [Tasks -> SUBSET Fds]
      /\ desc' \in [Descs -> FileRecord] /\ FilesOpen'
      /\ \A d \in Descs : desc'[d] \in {desc[d], file}
      /\ \A u \in Tasks \ {t} : fds'[u] = fds[u] /\ FilesGrow(u)
      /\ File(t, new)' = file
      /\ \A fd2 \in Fds \ {new} : File(t, fd2)' = File(t, fd2)
      /\ untold' \in [Tasks -> SUBSET Fds]
      /\ \A fd2 \in Fds \ {new} : fd2 \in untold'[t] <=> fd2 \in untold[t]
      /\ new \notin untold'[t] => {} \cap untold[t] = {}
  BY <1>20 DEF OpenedAt
<1>6. KernelSeesReal'
  BY <1>3, <1>5 DEF SocketsInv, KernelSeesReal, Unset
<1> DEFINE c == call'[t]
<1>7. /\ c.call = call[t].call /\ c.out = new
      /\ NextRows(t)' = RowsAfter(t, c) /\ NextLeft(t)' = LeftAfter(t, c)
  BY <1>1, <1>5, KernelTells, NonesAssumption
<1>8. rows[t] \in [Fds -> Row \cup {NoRow}]
  BY <1>1 DEF SocketsInv, TypeOK
<1>9. ASSUME NEW fd \in Fds
      PROVE  Tells(t, fd)'
  <2>1. IF fd \in left[t] THEN File(t, fd).kind \notin Kinds
        ELSE Describes(rows[t][fd], File(t, fd), fd, untold[t])
    BY <1>1, EnteredTells
  <2>2. CASE fd # new
    <3>1. NextRows(t)'[fd] = rows[t][fd] /\ (fd \in NextLeft(t)' <=> fd \in left[t])
      BY <1>1, <1>7, <1>8, <2>2 DEF RowsAfter, LeftAfter
    <3> QED  BY <1>5, <2>1, <2>2, <3>1 DEF Tells, Describes
  <2>3. CASE fd = new /\ call[t].call.name = "socket"
    <3>1. NextRows(t)'[fd] = NewRow(kind) /\ fd \notin NextLeft(t)'
      BY <1>7, <1>8, <2>3 DEF RowsAfter, LeftAfter
    <3>2. NewRow(kind) # NoRow
      BY <1>2, <2>3, RowTypes, NonesAssumption
    <3>3. Describes(NewRow(kind), file, fd, untold'[t])
      <4>1. LocalTold(Unset, Unset) /\ RemoteTold(Unset, Unset)
        BY SocketsAssumption DEF LocalTold, RemoteTold, Unset
      <4> QED  BY <1>2, <1>3, <2>3, <3>2, <4>1 DEF Describes, NewRow, Unset
    <3> QED  BY <1>5, <2>3, <3>1, <3>3 DEF Tells, Describes
  <2>4. CASE fd = new /\ call[t].call.name = "open"
    <3>1. NextRows(t)' = rows[t] /\ NextLeft(t)' = left[t]
      BY <1>7, <2>4 DEF RowsAfter, LeftAfter
    <3>2. File(t, fd) = Free
      BY <1>1, <1>5, <2>4, FileOf
    <3>3. fd \notin left[t] => rows[t][fd] = NoRow
      BY <2>1, <3>2 DEF Describes, Free, Kinds
    <3>4. File(t, fd)' = file /\ file.kind \notin Kinds
      BY <1>3, <1>5, <2>4 DEF Kinds
    <3> QED  BY <3>1, <3>3, <3>4 DEF Tells, Describes
  <2> QED  BY <1>1, <2>2, <2>3, <2>4
<1> QED  BY <1>1, <1>5, <1>6, <1>9, KernelStep

LEMMA AcceptStep ==
  ASSUME SocketsInv, NonesAssumption, NEW t \in Tasks, KAccept(t)
  PROVE  SocketsInv'
<1> DEFINE at == call[t].call.fd
           listener == File(t, at)
           file == [listener EXCEPT !.remote = [at |-> "host", port |-> Ephemeral]]
<1>1. /\ t \in Born /\ call[t] # NoCall /\ call[t].stage = "entered"
      /\ call[t].call.name = "accept" /\ call[t].answer \notin {"refuse", "emulated"}
      /\ listener.kind = "tcp" /\ Opens(t, file, {at})
  BY DEF KAccept, In
<1>2. at \in Fds /\ rows[t] \in [Fds -> Row \cup {NoRow}]
  BY <1>1 DEF SocketsInv, TypeOK, Pending, Call
<1>3. /\ file \in FileRecord /\ file.kind = "tcp"
      /\ file.local = listener.local /\ file.remote.at = "host" /\ file.remote.port = Ephemeral
  <2>1. listener \in FileRecord
    BY <1>1, <1>2, FileOf
  <2>2. [at |-> "host", port |-> Ephemeral] \in Address
    BY DEF Address
  <2> HIDE DEF listener
  <2> QED  BY <1>1, <2>1, <2>2 DEF FileRecord
<1>4. file.local.at \in {"unset", "host"}
  <2>1. listener.local.at \in {"unset", "host"}
    <3>1. listener = Free \/ \E d \in Descs : listener = desc[d]
      BY <1>1, <1>2, FileOf
    <3> QED  BY <3>1 DEF SocketsInv, KernelSeesReal, Free, Unset
  <2> QED  BY <1>3, <2>1
<1>5. at \notin left[t] /\ rows[t][at] \in Row /\ Describes(rows[t][at], listener, at, untold[t])
  <2>1. IF at \in left[t] THEN listener.kind \notin Kinds
        ELSE Describes(rows[t][at], listener, at, untold[t])
    BY <1>1, <1>2, EnteredTells
  <2> QED  BY <1>1, <1>2, <2>1 DEF Describes, Kinds
<1> HIDE DEF file
<1>20. PICK new \in Fds : OpenedAt(t, new, file, {at})
  BY <1>1, <1>3, OpensDoes
<1>6. /\ fds[t][new] = NoDesc /\ Returns(t, TRUE, new, Unset)
      /\ UNCHANGED <<space, wrote, memory, rows, left>>
      /\ fds' \in [Tasks -> [Fds -> Descs \cup {NoDesc}]] /\ cloexec' \in [Tasks -> SUBSET Fds]
      /\ desc' \in [Descs -> FileRecord] /\ FilesOpen'
      /\ \A d \in Descs : desc'[d] \in {desc[d], file}
      /\ \A u \in Tasks \ {t} : fds'[u] = fds[u] /\ FilesGrow(u)
      /\ File(t, new)' = file
      /\ \A fd2 \in Fds \ {new} : File(t, fd2)' = File(t, fd2)
      /\ untold' \in [Tasks -> SUBSET Fds]
      /\ \A fd2 \in Fds \ {new} : fd2 \in untold'[t] <=> fd2 \in untold[t]
      /\ new \notin untold'[t] => {at} \cap untold[t] = {}
  BY <1>20 DEF OpenedAt
<1>7. KernelSeesReal'
  BY <1>3, <1>4, <1>6 DEF SocketsInv, KernelSeesReal
<1> DEFINE c == call'[t]
<1>8. /\ c.call = call[t].call /\ c.out = new
      /\ NextRows(t)' = RowsAfter(t, c) /\ NextLeft(t)' = LeftAfter(t, c)
  BY <1>1, <1>6, KernelTells, NonesAssumption
<1>9. /\ NextRows(t)' = [rows[t] EXCEPT ![new] = Accepted(rows[t][at])]
      /\ NextLeft(t)' = left[t] \ {new}
  BY <1>1, <1>5, <1>8, NonesAssumption DEF RowsAfter, LeftAfter
<1>10. ASSUME NEW fd \in Fds
       PROVE  Tells(t, fd)'
  <2>1. IF fd \in left[t] THEN File(t, fd).kind \notin Kinds
        ELSE Describes(rows[t][fd], File(t, fd), fd, untold[t])
    BY <1>1, EnteredTells
  <2>2. CASE fd # new
    <3>1. NextRows(t)'[fd] = rows[t][fd] /\ (fd \in NextLeft(t)' <=> fd \in left[t])
      BY <1>2, <1>9, <2>2
    <3> QED  BY <1>6, <2>1, <2>2, <3>1 DEF Tells, Describes
  <2>3. CASE fd = new
    <3> DEFINE row == Accepted(rows[t][at])
    <3>1. NextRows(t)'[fd] = row /\ fd \notin NextLeft(t)'
      BY <1>2, <1>9, <2>3
    <3>2. /\ row \in Row /\ row # NoRow /\ row.kind = rows[t][at].kind
          /\ row.local = rows[t][at].local /\ row.remote = Unset
      BY <1>5, RowTypes, NonesAssumption DEF Accepted, Row
    <3>3. rows[t][at].kind = file.kind /\ file.kind \in Kinds
          /\ (row.local.at = "virtual" => file.local = OnHost(row.local))
      BY <1>1, <1>3, <1>5, <3>2 DEF Describes, Kinds
    <3>4. row.remote.at # "virtual"
      BY <3>2 DEF Unset
    <3>6. fd \notin untold'[t] => LocalTold(row.local, file.local) /\ RemoteTold(row.remote, file.remote)
      <4>1. RemoteTold(Unset, file.remote)
        BY <1>3, SocketsAssumption DEF RemoteTold
      <4>2. fd \notin untold'[t] => at \notin untold[t]
        BY <1>6, <2>3
      <4> QED  BY <1>3, <1>5, <3>2, <4>1, <4>2, NonesAssumption DEF Describes
    <3>5. Describes(row, file, fd, untold'[t])
      BY <3>2, <3>3, <3>4, <3>6 DEF Describes
    <3> QED  BY <1>6, <2>3, <3>1, <3>5 DEF Tells, Describes
  <2> QED  BY <2>2, <2>3
<1> QED  BY <1>1, <1>6, <1>7, <1>10, KernelStep

LEMMA Between ==
  ASSUME NEW m \in Nat, NEW n \in Nat
  PROVE  m = n <=> (n <= m /\ m <= n)
OBVIOUS

LEMMA CloseStep ==
  ASSUME SocketsInv, NonesAssumption, NEW t \in Tasks, KClose(t)
  PROVE  SocketsInv'
<1> DEFINE first == call[t].call.fd
           last == IF call[t].call.name = "close" THEN call[t].call.fd ELSE call[t].call.to
           gone == {fd \in Fds : first <= fd /\ fd <= last}
           table == [fd \in Fds |-> IF fd \in gone THEN NoDesc ELSE fds[t][fd]]
<1>1. /\ t \in Born /\ call[t] # NoCall /\ call[t].stage = "entered"
      /\ call[t].call.name \in {"close", "close_range"}
      /\ call[t].answer \notin {"refuse", "emulated"}
      /\ Returns(t, TRUE, NoFd, Unset)
      /\ UNCHANGED <<space, wrote, memory, rows, left>>
  BY DEF KClose, In
<1>2. /\ first \in Fds /\ last \in Fds /\ Fds \subseteq Nat
      /\ rows[t] \in [Fds -> Row \cup {NoRow}] /\ left[t] \subseteq Fds
      /\ fds[t] \in [Fds -> Descs \cup {NoDesc}] /\ cloexec[t] \subseteq Fds
      /\ untold[t] \subseteq Fds
  <2>1. call[t].call \in CallsMade /\ rows[t] \in [Fds -> Row \cup {NoRow}] /\ left[t] \subseteq Fds
        /\ fds[t] \in [Fds -> Descs \cup {NoDesc}] /\ cloexec[t] \subseteq Fds
        /\ untold[t] \subseteq Fds
    BY <1>1 DEF SocketsInv, TypeOK, Underway
  <2> QED  BY <1>1, <2>1, SocketsAssumption DEF CallsMade, Call
<1>3. Retable(t, table, cloexec[t] \ gone, untold[t] \ gone)
  <2>1. space[t] = t /\ Table(t) = fds[t]
    BY <1>1, OwnSpace
  <2>2. {fd \in Fds : IF call[t].call.name = "close" THEN fd = first
                      ELSE first <= fd /\ fd <= call[t].call.to} = gone
    <3>1. CASE call[t].call.name = "close"
      <4>1. \A fd \in Fds : fd = first <=> (first <= fd /\ fd <= first)
        BY <1>2, Between
      <4> QED  BY <3>1, <4>1
    <3>2. CASE call[t].call.name # "close"
      BY <3>2
    <3> QED  BY <3>1, <3>2
  <2> QED  BY <2>1, <2>2 DEF KClose
<1>4. /\ table \in [Fds -> Descs \cup {NoDesc}] /\ cloexec[t] \ gone \in SUBSET Fds
      /\ untold[t] \ gone \in SUBSET Fds
      /\ \A fd \in Fds : table[fd] # NoDesc => \E old \in Fds : table[fd] = fds[t][old]
  BY <1>2
<1> HIDE DEF table
<1>30. /\ fds'[t] = table /\ cloexec'[t] = cloexec[t] \ gone /\ untold'[t] = untold[t] \ gone
       /\ desc' = Swept(fds', desc) /\ fds' = [fds EXCEPT ![t] = fds'[t]]
       /\ cloexec' = [cloexec EXCEPT ![t] = cloexec'[t]]
       /\ untold' = [untold EXCEPT ![t] = untold'[t]]
  BY <1>1, <1>3, OwnSpace DEF Retable, SocketsInv, TypeOK
<1>5. /\ fds' \in [Tasks -> [Fds -> Descs \cup {NoDesc}]] /\ cloexec' \in [Tasks -> SUBSET Fds]
      /\ desc' \in [Descs -> FileRecord] /\ FilesOpen' /\ KernelSeesReal'
      /\ fds'[t] = table
      /\ \A u \in Tasks \ {t} : fds'[u] = fds[u] /\ FilesGrow(u)
      /\ \A fd \in Fds : table[fd] # NoDesc => desc'[table[fd]] = desc[table[fd]]
      /\ untold' \in [Tasks -> SUBSET Fds] /\ untold'[t] = untold[t] \ gone
  BY <1>1, <1>3, <1>4, <1>30, RetableDoes
<1>6. \A fd \in Fds : File(t, fd)' = IF fd \in gone THEN Free ELSE File(t, fd)
  <2>1. space[t] = t /\ space'[t] = t
    BY <1>1, OwnSpace
  <2>2. \A fd \in Fds : table[fd] = IF fd \in gone THEN NoDesc ELSE fds[t][fd]
    BY DEF table
  <2> QED  BY <1>5, <2>1, <2>2 DEF File, Table
<1> DEFINE c == call'[t]
<1>7. /\ c.call = call[t].call
      /\ NextRows(t)' = RowsAfter(t, c) /\ NextLeft(t)' = LeftAfter(t, c)
  BY <1>1, KernelTells, NonesAssumption
<1>8. /\ NextRows(t)' = [fd \in Fds |-> IF fd \in gone THEN NoRow ELSE rows[t][fd]]
      /\ \A fd \in Fds : fd \in NextLeft(t)' <=> fd \in left[t] /\ fd \notin gone
  <2>1. CASE call[t].call.name = "close"
    <3>1. RowsAfter(t, c) = Dropped(rows[t], first, first) /\ LeftAfter(t, c) = left[t] \ {first}
      BY <1>7, <2>1 DEF RowsAfter, LeftAfter
    <3>2. \A fd \in Fds : fd = first <=> (first <= fd /\ fd <= first)
      BY <1>2, Between
    <3> QED  BY <1>2, <1>7, <2>1, <3>1, <3>2 DEF Dropped
  <2>2. CASE call[t].call.name = "close_range"
    <3>1. RowsAfter(t, c) = Dropped(rows[t], first, last) /\ LeftAfter(t, c) = left[t] \ (first .. last)
      BY <1>7, <2>2 DEF RowsAfter, LeftAfter
    <3> QED  BY <1>2, <1>7, <2>2, <3>1 DEF Dropped
  <2> QED  BY <1>1, <2>1, <2>2
<1>9. ASSUME NEW fd \in Fds
      PROVE  Tells(t, fd)'
  <2>1. IF fd \in left[t] THEN File(t, fd).kind \notin Kinds
        ELSE Describes(rows[t][fd], File(t, fd), fd, untold[t])
    BY <1>1, EnteredTells
  <2>2. CASE fd \in gone
    <3>1. NextRows(t)'[fd] = NoRow /\ fd \notin NextLeft(t)' /\ File(t, fd)' = Free
      BY <1>6, <1>8, <2>2
    <3> QED  BY <3>1 DEF Tells, Describes, Free, Kinds
  <2>3. CASE fd \notin gone
    <3>1. /\ NextRows(t)'[fd] = rows[t][fd] /\ (fd \in NextLeft(t)' <=> fd \in left[t])
          /\ File(t, fd)' = File(t, fd) /\ (fd \in untold'[t] <=> fd \in untold[t])
      BY <1>5, <1>6, <1>8, <2>3
    <3> QED  BY <2>1, <3>1 DEF Tells, Describes
  <2> QED  BY <2>2, <2>3
<1> QED  BY <1>1, <1>5, <1>9, KernelStep

LEMMA DupStep ==
  ASSUME SocketsInv, NonesAssumption, NEW t \in Tasks, KDup(t)
  PROVE  SocketsInv'
<1> DEFINE old == call[t].call.fd
           new == IF call[t].call.name = "dup" THEN Min(FreeFds(t)) ELSE call[t].call.to
           table == [fds[t] EXCEPT ![new] = fds[t][old]]
           flags == IF new = old THEN cloexec[t] ELSE cloexec[t] \ {new}
           unknown == IF old \in untold[t] THEN untold[t] \cup {new} ELSE untold[t] \ {new}
<1>1. /\ t \in Born /\ call[t] # NoCall /\ call[t].stage = "entered"
      /\ call[t].call.name \in {"dup", "dup2"}
      /\ call[t].answer \notin {"refuse", "emulated"}
      /\ space[t] = t /\ Table(t) = fds[t]
      /\ UNCHANGED <<space, wrote, memory, rows, left>>
  BY OwnSpace DEF KDup, In
<1>2. Retable(t, table, flags, unknown) /\ Returns(t, TRUE, new, Unset) /\ fds[t][old] # NoDesc
  BY <1>1 DEF KDup
<1>3. /\ old \in Fds /\ new \in Fds
      /\ rows[t] \in [Fds -> Row \cup {NoRow}] /\ left[t] \subseteq Fds
      /\ fds[t] \in [Fds -> Descs \cup {NoDesc}] /\ cloexec[t] \subseteq Fds
      /\ untold[t] \subseteq Fds
  <2>1. call[t].call \in CallsMade /\ rows[t] \in [Fds -> Row \cup {NoRow}] /\ left[t] \subseteq Fds
        /\ fds[t] \in [Fds -> Descs \cup {NoDesc}] /\ cloexec[t] \subseteq Fds
        /\ untold[t] \subseteq Fds
    BY <1>1 DEF SocketsInv, TypeOK, Underway
  <2>2. call[t].call.name = "dup" => Min(FreeFds(t)) \in FreeFds(t)
    <3>1. FreeFds(t) \subseteq Nat
      BY SocketsAssumption DEF FreeFds
    <3> QED  BY <3>1, MinOfNaturals DEF KDup
  <2>3. FreeFds(t) \subseteq Fds
    BY DEF FreeFds
  <2> QED  BY <1>1, <2>1, <2>2, <2>3 DEF CallsMade, Call
<1> HIDE DEF new
<1>4. /\ table \in [Fds -> Descs \cup {NoDesc}] /\ flags \in SUBSET Fds /\ unknown \in SUBSET Fds
      /\ \A fd \in Fds : fd \in unknown <=> (IF fd = new THEN old ELSE fd) \in untold[t]
      /\ \A fd \in Fds : table[fd] = IF fd = new THEN fds[t][old] ELSE fds[t][fd]
      /\ \A fd \in Fds : table[fd] # NoDesc => \E fd2 \in Fds : table[fd] = fds[t][fd2]
  BY <1>3
<1> HIDE DEF table, flags, unknown
<1>30. /\ fds'[t] = table /\ cloexec'[t] = flags /\ untold'[t] = unknown
       /\ desc' = Swept(fds', desc) /\ fds' = [fds EXCEPT ![t] = fds'[t]]
       /\ cloexec' = [cloexec EXCEPT ![t] = cloexec'[t]]
       /\ untold' = [untold EXCEPT ![t] = untold'[t]]
  BY <1>1, <1>2, OwnSpace DEF Retable, SocketsInv, TypeOK
<1>5. /\ fds' \in [Tasks -> [Fds -> Descs \cup {NoDesc}]] /\ cloexec' \in [Tasks -> SUBSET Fds]
      /\ desc' \in [Descs -> FileRecord] /\ FilesOpen' /\ KernelSeesReal'
      /\ fds'[t] = table
      /\ \A u \in Tasks \ {t} : fds'[u] = fds[u] /\ FilesGrow(u)
      /\ \A fd \in Fds : table[fd] # NoDesc => desc'[table[fd]] = desc[table[fd]]
      /\ untold' \in [Tasks -> SUBSET Fds] /\ untold'[t] = unknown
  BY <1>1, <1>2, <1>4, <1>30, RetableDoes
<1>6. \A fd \in Fds : File(t, fd)' = IF fd = new THEN File(t, old) ELSE File(t, fd)
  BY <1>1, <1>3, <1>4, <1>5 DEF File, Table
<1> DEFINE c == call'[t]
<1>7. /\ c.call = call[t].call /\ c.out = new
      /\ NextRows(t)' = RowsAfter(t, c) /\ NextLeft(t)' = LeftAfter(t, c)
  BY <1>1, <1>2, <1>3, KernelTells, NonesAssumption
<1>8. /\ NextRows(t)' = [rows[t] EXCEPT ![new] = rows[t][old]]
      /\ NextLeft(t)' = IF old \in left[t] THEN left[t] \cup {new} ELSE left[t] \ {new}
  BY <1>1, <1>7 DEF RowsAfter, LeftAfter, Duplicate
<1>9. ASSUME NEW fd \in Fds
      PROVE  Tells(t, fd)'
  <2> DEFINE from == IF fd = new THEN old ELSE fd
  <2>1. from \in Fds
    BY <1>3
  <2>2. IF from \in left[t] THEN File(t, from).kind \notin Kinds
        ELSE Describes(rows[t][from], File(t, from), from, untold[t])
    BY <1>1, <2>1, EnteredTells
  <2>3. /\ NextRows(t)'[fd] = rows[t][from] /\ (fd \in NextLeft(t)' <=> from \in left[t])
        /\ File(t, fd)' = File(t, from)
    BY <1>3, <1>6, <1>8
  <2>6. fd \in untold'[t] <=> from \in untold[t]
    BY <1>4, <1>5
  <2>4. (fd \in NextLeft(t)' => File(t, fd)'.kind \notin Kinds)
        /\ (fd \notin NextLeft(t)' => Describes(NextRows(t)'[fd], File(t, fd)', fd, untold'[t]))
    BY <2>2, <2>3, <2>6 DEF Describes
  <2>5. Describes(NextRows(t)[fd], File(t, fd), fd, untold[t])'
          <=> Describes(NextRows(t)'[fd], File(t, fd)', fd, untold'[t])
    BY DEF Describes
  <2> QED  BY <2>4, <2>5 DEF Tells
<1> QED  BY <1>1, <1>2, <1>3, <1>5, <1>9, KernelStep

(* bind and connect: the address of the file, shared by all who have it,   *)
(* is set, and each row for it was without a virtual one.                  *)
LEMMA AddressStep ==
  ASSUME SocketsInv, NonesAssumption, NEW t \in Tasks, KBind(t) \/ KConnect(t)
  PROVE  SocketsInv'
<1> DEFINE at == call[t].call.fd
           file == File(t, at)
           address == memory[t]
           next == IF call[t].call.name = "bind" THEN [file EXCEPT !.local = address]
                   ELSE [file EXCEPT !.remote = address,
                           !.local = IF @ = Unset THEN [at |-> "host", port |-> Ephemeral] ELSE @]
<1>1. /\ t \in Born /\ call[t] # NoCall /\ call[t].stage = "entered"
      /\ call[t].call.name \in {"bind", "connect"}
      /\ call[t].answer \notin {"refuse", "emulated"}
      /\ space[t] = t /\ Table(t) = fds[t]
      /\ UNCHANGED <<space, fds, cloexec, wrote, memory, rows, left>>
      /\ file.kind = "tcp"
      /\ IF call[t].call.name = "bind" THEN file.local = Unset ELSE file.remote = Unset
  BY OwnSpace DEF KBind, KConnect, In
<1>19. PICK ok \in BOOLEAN :
         /\ Returns(t, ok, NoFd, Unset) /\ (call[t].call.name = "bind" => ok)
         /\ OnlyTold(fds[t][at], IF ok THEN {<<t, at>>} ELSE {})
  BY <1>1 DEF KBind, KConnect, In
<1>2. /\ at \in Fds /\ rows[t] \in [Fds -> Row \cup {NoRow}] /\ call[t] \in Pending
      /\ call[t].answer \in Answers /\ address \in Address \cup {Unset}
      /\ desc \in [Descs -> FileRecord]
  BY <1>1 DEF SocketsInv, TypeOK, Pending, Call, FileRecord
<1>3. /\ fds[t][at] \in Descs /\ fds[t][at] # NoDesc /\ file = desc[fds[t][at]]
      /\ file \in FileRecord
  BY <1>1, <1>2, FileOf
<1>4. at \notin left[t] /\ rows[t][at] \in Row /\ Describes(rows[t][at], file, at, untold[t])
  <2>1. IF at \in left[t] THEN file.kind \notin Kinds ELSE Describes(rows[t][at], file, at, untold[t])
    BY <1>1, <1>2, EnteredTells
  <2> QED  BY <1>1, <1>2, <2>1 DEF Describes, Kinds
<1>5. /\ call[t].answer \in {"redirect", "allow"}
      /\ call[t].answer = "redirect" => call[t].address.at = "virtual" /\ address = OnHost(call[t].address)
      /\ call[t].answer = "allow" => /\ call[t].call.name = "connect"
                                     /\ call[t].address = address /\ address.at = "outside"
  <2>1. Underway(t)
    BY <1>1 DEF SocketsInv
  <2>2. ~IsRouteNetlink(rows[t][at])
    BY <1>1, <1>4 DEF IsRouteNetlink, Describes
  <2> QED  BY <1>1, <1>2, <2>1, <2>2 DEF Underway, Answers
<1>6. /\ next \in FileRecord /\ next.kind = file.kind
      /\ call[t].call.name = "bind" => next.local = address /\ next.remote = file.remote
      /\ call[t].call.name = "connect" =>
           /\ next.remote = address
           /\ next.local = IF file.local = Unset THEN [at |-> "host", port |-> Ephemeral] ELSE file.local
  <2>1. [at |-> "host", port |-> Ephemeral] \in Address
    BY DEF Address
  <2> HIDE DEF file
  <2> QED  BY <1>1, <1>2, <1>3, <2>1 DEF FileRecord
<1>7. desc' = [desc EXCEPT ![fds[t][at]] = next]
  <2>1. CASE call[t].call.name = "bind"
    <3>1. KBind(t)
      BY <2>1 DEF KConnect, In
    <3> QED  BY <1>1, <1>2, <1>3, <2>1, <3>1 DEF KBind
  <2>2. CASE call[t].call.name = "connect"
    <3>1. KConnect(t)
      BY <2>2 DEF KBind, In
    <3>2. desc' = [desc EXCEPT ![Table(t)[at]] = next]
      BY <1>1, <2>2, <3>1 DEF KConnect
    <3> HIDE DEF next
    <3> QED  BY <1>1, <3>2
  <2> QED  BY <1>1, <2>1, <2>2
<1> HIDE DEF next
<1>8. Grows(file, next)
  BY <1>1, <1>6 DEF Grows
<1>9. /\ desc' \in [Descs -> FileRecord] /\ desc'[fds[t][at]] = next
      /\ \A d \in Descs \ {fds[t][at]} : desc'[d] = desc[d]
  BY <1>2, <1>3, <1>6, <1>7
<1>10. \A d \in Descs : Grows(desc[d], desc'[d])
  BY <1>3, <1>8, <1>9 DEF Grows
<1>11. fds \in [Tasks -> [Fds -> Descs \cup {NoDesc}]] /\ cloexec \in [Tasks -> SUBSET Fds]
  BY DEF SocketsInv, TypeOK
<1>20. /\ untold' \in [Tasks -> SUBSET Fds]
       /\ \A u \in Tasks : untold[u] \subseteq untold'[u]
       /\ \A u \in Tasks, fd \in Fds : fds[u][fd] = fds[t][at] =>
            fd \in untold'[u] \/ (ok /\ u = t /\ fd = at)
       /\ t \in Tasks
  <2>1. untold \in [Tasks -> SUBSET Fds] /\ t \in Tasks
    BY <1>1, OwnSpace DEF SocketsInv, TypeOK
  <2> QED  BY <1>19, <2>1 DEF OnlyTold
<1>12. \A u \in Tasks \ {t} : fds'[u] = fds[u] /\ FilesGrow(u)
  <2>1. \A u \in Tasks, fd \in Fds : fds[u][fd] # NoDesc => fds[u][fd] \in Descs
    BY <1>11
  <2>2. \A u \in Tasks \ {t}, fd \in Fds : fds[u][fd] # NoDesc =>
          desc'[fds[u][fd]] = desc[fds[u][fd]] \/ fd \in untold'[u]
    BY <1>9, <1>20, <2>1
  <2> QED  BY <1>1, <1>10, <1>20, <2>1, <2>2 DEF FilesGrow
<1>13. FilesOpen'
  BY <1>1, <1>10, <1>11 DEF SocketsInv, FilesOpen, Grows
<1>14. KernelSeesReal'
  <2>1. next.local.at \in {"unset", "host"} /\ next.remote.at \in {"unset", "host", "outside"}
    <3>1. file.local.at \in {"unset", "host"} /\ file.remote.at \in {"unset", "host", "outside"}
      BY <1>3 DEF SocketsInv, KernelSeesReal
    <3>2. address.at \in {"host", "outside"} /\ (call[t].call.name = "bind" => address.at = "host")
      BY <1>5 DEF OnHost
    <3> HIDE DEF file
    <3> QED  BY <1>1, <1>6, <3>1, <3>2
  <2> QED  BY <1>9, <2>1 DEF SocketsInv, KernelSeesReal
<1> DEFINE c == call'[t]
<1>15. ok => /\ c.call = call[t].call /\ c.address = call[t].address
             /\ NextRows(t)' = RowsAfter(t, c) /\ NextLeft(t)' = LeftAfter(t, c)
  BY <1>1, <1>19, KernelTells, NonesAssumption, ZenonT(30)
<1>21. ~ok => NextRows(t)' = rows[t] /\ NextLeft(t)' = left[t]
  <2>1. TypeOK
    BY DEF SocketsInv
  <2>2. call'[t].ok = ok
    BY <1>1, <1>19, <1>20, <2>1, ReturnsDoes, NonesAssumption
  <2> QED  BY <1>1, <2>2 DEF NextRows, NextLeft, Ahead, Followed
<1> DEFINE row == IF ~ok THEN rows[t][at]
                  ELSE IF call[t].call.name = "bind" THEN [rows[t][at] EXCEPT !.local = call[t].address]
                  ELSE [rows[t][at] EXCEPT !.remote = call[t].address]
<1>16. NextRows(t)' = [rows[t] EXCEPT ![at] = row] /\ NextLeft(t)' = left[t]
  <2>5. CASE ~ok
    BY <1>2, <1>21, <2>5
  <2> SUFFICES ASSUME ok
               PROVE  NextRows(t)' = [rows[t] EXCEPT ![at] = row] /\ NextLeft(t)' = left[t]
    BY <2>5
  <2>1. c.address # Unset
    BY <1>5, <1>15 DEF Unset
  <2>2. Tracked(rows[t], at) = rows[t][at]
    BY <1>4, NonesAssumption DEF Tracked
  <2>3. CASE call[t].call.name = "bind"
    BY <1>15, <2>1, <2>2, <2>3 DEF RowsAfter, LeftAfter, Bound
  <2>4. CASE call[t].call.name = "connect"
    BY <1>15, <2>1, <2>2, <2>4 DEF RowsAfter, LeftAfter, Connected
  <2> QED  BY <1>1, <2>3, <2>4
<1>17. Describes(row, next, at, untold'[t])
  <2>1. Describes(rows[t][at], next, at, untold[t] \cup {at})
    BY <1>4, <1>8, GrownDescribes
  <2>2. CASE ~ok
    <3>1. at \in untold'[t]
      BY <1>2, <1>20, <2>2
    <3> QED  BY <2>1, <2>2, <3>1 DEF Describes
  <2>3. CASE ok
    <3>1. /\ row # NoRow /\ row.kind = rows[t][at].kind
          /\ call[t].call.name = "bind" => row.local = call[t].address /\ row.remote = rows[t][at].remote
          /\ call[t].call.name = "connect" => row.remote = call[t].address /\ row.local = rows[t][at].local
      <4>1. call[t].address \in Told
        BY <1>2, <1>5 DEF Told, Pending, Unset
      <4>2. row \in Row
        BY <1>4, <2>3, <4>1, RowTypes
      <4> QED  BY <1>1, <1>4, <2>3, <4>2, NonesAssumption DEF Row
    <3>2. /\ call[t].address.port \in Ports /\ address.port = call[t].address.port
          /\ call[t].address = [at |-> call[t].address.at, port |-> call[t].address.port]
          /\ address.at = "outside" => call[t].address = address
          /\ address.at = "host" => call[t].address.at = "virtual"
          /\ address.at \in {"host", "outside"}
      <4>1. call[t].address \in Written
        BY <1>1, <1>5 DEF SocketsInv, Underway, Unset
      <4> QED  BY <1>5, <4>1 DEF OnHost, Written
    <3>3. at \notin untold'[t] => at \notin untold[t]
      BY <1>20
    <3>4. at \notin untold[t] => LocalTold(row.local, next.local) /\ RemoteTold(row.remote, next.remote)
      <4>1. at \notin untold[t] =>
              LocalTold(rows[t][at].local, file.local) /\ RemoteTold(rows[t][at].remote, file.remote)
        BY <1>4, NonesAssumption DEF Describes
      <4>2. CASE call[t].call.name = "bind"
        <5>1. LocalTold(row.local, next.local)
          BY <1>5, <1>6, <3>1, <3>2, <4>2 DEF LocalTold
        <5> QED  BY <1>6, <3>1, <4>1, <4>2, <5>1
      <4>3. CASE call[t].call.name = "connect"
        <5>1. RemoteTold(row.remote, next.remote)
          BY <1>6, <3>1, <3>2, <4>3 DEF RemoteTold
        <5>2. LocalTold(rows[t][at].local, Unset)
                => LocalTold(rows[t][at].local, [at |-> "host", port |-> Ephemeral])
          BY SocketsAssumption DEF LocalTold, Unset
        <5> HIDE DEF file
        <5> QED  BY <1>6, <3>1, <4>1, <4>3, <5>1, <5>2
      <4> QED  BY <1>1, <4>2, <4>3
    <3>5. call[t].address.at = "virtual" => address = OnHost(call[t].address)
      BY <1>5
    <3> HIDE DEF row, file
    <3> QED  BY <1>1, <1>4, <1>6, <2>1, <3>1, <3>3, <3>4, <3>5, NonesAssumption DEF Describes
  <2> QED  BY <2>2, <2>3
<1>18. ASSUME NEW fd \in Fds
       PROVE  Tells(t, fd)'
  <2>1. IF fd \in left[t] THEN File(t, fd).kind \notin Kinds
        ELSE Describes(rows[t][fd], File(t, fd), fd, untold[t])
    BY <1>1, EnteredTells
  <2>2. CASE fd = at
    <3>1. File(t, fd)' = next
      BY <1>1, <1>3, <1>9, <2>2 DEF File, Table
    <3>2. NextRows(t)'[fd] = row /\ fd \notin NextLeft(t)'
      BY <1>2, <1>4, <1>16, <2>2
    <3> HIDE DEF row
    <3> QED  BY <1>17, <2>2, <3>1, <3>2 DEF Tells, Describes
  <2>3. CASE fd # at
    <3>1. File(t, fd)' = IF fds[t][fd] = NoDesc THEN Free ELSE desc'[fds[t][fd]]
      BY <1>1 DEF File, Table
    <3>2. Grows(File(t, fd), File(t, fd)')
      BY <1>1, <1>10, <3>1, FileOf DEF Grows
    <3>6. untold[t] \subseteq untold'[t] /\ (File(t, fd)' = File(t, fd) \/ fd \in untold'[t])
      BY <1>1, <1>9, <1>20, <2>3, <3>1, FileOf
    <3>3. NextRows(t)'[fd] = rows[t][fd] /\ (fd \in NextLeft(t)' <=> fd \in left[t])
      BY <1>2, <1>16, <2>3
    <3>4. CASE fd \in left[t]
      BY <2>1, <3>2, <3>3, <3>4 DEF Tells, Grows
    <3>5. CASE fd \notin left[t]
      <4>1. Describes(rows[t][fd], File(t, fd)', fd, untold'[t])
        BY <1>2, <2>1, <3>2, <3>5, <3>6, GrownDescribes
      <4> QED  BY <3>3, <3>5, <4>1 DEF Tells, Describes
    <3> QED  BY <3>4, <3>5
  <2> QED  BY <2>2, <2>3
<1> QED  BY <1>1, <1>9, <1>11, <1>12, <1>13, <1>14, <1>18, <1>19, <1>20, KernelStep

(* execve, of a process with one thread: the rows of what it closes stay.  *)
LEMMA ExecStep ==
  ASSUME SocketsInv, NonesAssumption, NEW t \in Tasks, KExec(t)
  PROVE  SocketsInv'
<1> DEFINE table == [fd \in Fds |-> IF fd \in cloexec[t] THEN NoDesc ELSE fds[t][fd]]
<1>1. /\ t \in Born /\ call[t] # NoCall /\ call[t].stage = "entered"
      /\ call[t].call.name = "exec" /\ call[t].answer \notin {"refuse", "emulated"}
      /\ space[t] = t /\ Table(t) = fds[t]
      /\ Retable(t, table, {}, untold[t] \ cloexec[t]) /\ Returns(t, TRUE, NoFd, Unset)
      /\ memory' = [memory EXCEPT ![t] = Unset] /\ wrote' = [wrote EXCEPT ![t] = Unset]
      /\ left' = [left EXCEPT ![t] = @ \cup {fd \in cloexec[t] : rows[t][fd] # NoRow}]
      /\ space' = space /\ rows' = rows
  BY OwnSpace DEF KExec, In
<1>2. /\ fds[t] \in [Fds -> Descs \cup {NoDesc}] /\ cloexec[t] \subseteq Fds /\ left[t] \subseteq Fds
      /\ left \in [Tasks -> SUBSET Fds] /\ memory \in [Tasks -> Address \cup {Unset}]
      /\ wrote \in [Tasks -> Address \cup {Unset}] /\ TypeOK
      /\ untold[t] \ cloexec[t] \in SUBSET Fds
  BY DEF SocketsInv, TypeOK
<1>3. /\ table \in [Fds -> Descs \cup {NoDesc}]
      /\ \A fd \in Fds : table[fd] = IF fd \in cloexec[t] THEN NoDesc ELSE fds[t][fd]
      /\ \A fd \in Fds : table[fd] # NoDesc => \E old \in Fds : table[fd] = fds[t][old]
  BY <1>2
<1> HIDE DEF table
<1>30. /\ fds'[t] = table /\ cloexec'[t] = {} /\ untold'[t] = untold[t] \ cloexec[t]
       /\ desc' = Swept(fds', desc) /\ fds' = [fds EXCEPT ![t] = fds'[t]]
       /\ cloexec' = [cloexec EXCEPT ![t] = cloexec'[t]]
       /\ untold' = [untold EXCEPT ![t] = untold'[t]]
  BY <1>1, OwnSpace DEF Retable, SocketsInv, TypeOK
<1>4. /\ fds' \in [Tasks -> [Fds -> Descs \cup {NoDesc}]] /\ cloexec' \in [Tasks -> SUBSET Fds]
      /\ desc' \in [Descs -> FileRecord] /\ FilesOpen' /\ KernelSeesReal'
      /\ fds'[t] = table
      /\ \A u \in Tasks \ {t} : fds'[u] = fds[u] /\ FilesGrow(u)
      /\ \A fd \in Fds : table[fd] # NoDesc => desc'[table[fd]] = desc[table[fd]]
      /\ untold' \in [Tasks -> SUBSET Fds] /\ untold'[t] = untold[t] \ cloexec[t]
  BY <1>1, <1>2, <1>3, <1>30, RetableDoes
<1>5. /\ call' \in [Tasks -> Pending \cup {NoCall}] /\ calls' = calls
      /\ \A u \in Tasks \ {t} : call'[u] = call[u]
      /\ call'[t] # NoCall /\ call'[t].stage = "returned" /\ call'[t].ok = TRUE
      /\ call'[t].call = call[t].call
      /\ call'[t].answer = call[t].answer /\ call'[t].address = call[t].address
  BY <1>1, <1>2, ReturnsDoes, NonesAssumption
<1>6. \A fd \in Fds : File(t, fd)' = IF fd \in cloexec[t] THEN Free ELSE File(t, fd)
  BY <1>1, <1>3, <1>4 DEF File, Table
<1>7. left' \in [Tasks -> SUBSET Fds]
      /\ left'[t] = left[t] \cup {fd \in cloexec[t] : rows[t][fd] # NoRow}
  BY <1>1, <1>2
<1>8. memory'[t] = Unset /\ wrote'[t] = Unset
  BY <1>1, <1>2
<1>9. TypeOK'
  <2>1. memory' \in [Tasks -> Address \cup {Unset}] /\ wrote' \in [Tasks -> Address \cup {Unset}]
    BY <1>1, <1>2
  <2> QED  BY <1>1, <1>2, <1>4, <1>5, <1>7, <2>1 DEF TypeOK, FileRecord
<1>10. Alone(t)'
  BY <1>1, SocketsAssumption DEF Alone
<1>11. Underway(t)'
  <2>1. Underway(t)
    BY <1>1 DEF SocketsInv
  <2> QED  BY <1>1, <1>5, <1>8, <2>1 DEF Underway, Followed
<1>12. ASSUME NEW fd \in Fds
       PROVE  Tells(t, fd)'
  <2>1. IF fd \in left[t] THEN File(t, fd).kind \notin Kinds
        ELSE Describes(rows[t][fd], File(t, fd), fd, untold[t])
    BY <1>1, EnteredTells
  <2>2. NextRows(t)' = rows[t] /\ NextLeft(t)' = left'[t]
    BY <1>1, <1>5 DEF NextRows, NextLeft, RowsAfter, LeftAfter
  <2>3. CASE fd \in cloexec[t]
    <3>1. File(t, fd)' = Free /\ Free.kind \notin Kinds
      BY <1>6, <2>3 DEF Free, Kinds
    <3>2. fd \notin left'[t] => rows[t][fd] = NoRow
      BY <1>7, <2>3
    <3> QED  BY <2>2, <3>1, <3>2 DEF Tells, Describes
  <2>4. CASE fd \notin cloexec[t]
    <3>1. /\ File(t, fd)' = File(t, fd) /\ (fd \in left'[t] <=> fd \in left[t])
          /\ fd \in untold'[t] <=> fd \in untold[t]
      BY <1>4, <1>6, <1>7, <2>4
    <3> QED  BY <2>1, <2>2, <3>1 DEF Tells, Describes
  <2> QED  BY <2>3, <2>4
<1>13. \A u \in Tasks \ {t} : SameTask(u) /\ FilesGrow(u)
  BY <1>1, <1>2, <1>4, <1>5 DEF SameTask
<1> DEFINE W == {t}
<1>14. W \subseteq Tasks /\ \A u \in Tasks \ W : SameTask(u) /\ FilesGrow(u)
  BY <1>13
<1>15. \A u \in W : /\ Alone(u)'
                    /\ (u \in Born)' => Underway(u)' /\ \A fd \in Fds : Tells(u, fd)'
  BY <1>10, <1>11, <1>12
<1> HIDE DEF W
<1> QED  BY <1>4, <1>9, <1>14, <1>15, StepOf

(* fork: a copy of the rows for a copy of the fds.                         *)
LEMMA ForkStep ==
  ASSUME SocketsInv, NonesAssumption, OneThreadEach,
         NEW t \in Tasks, NEW child \in Tasks, KFork(t, child)
  PROVE  SocketsInv'
<1>1. /\ TypeOK /\ t \in Born /\ call[t] # NoCall /\ call[t].stage = "entered"
      /\ call[t].call.name \in {"fork", "clone"} /\ call[t].answer \notin {"refuse", "emulated"}
      /\ space[t] = t /\ Table(t) = fds[t]
      /\ child \notin Born /\ t # child /\ Underway(t)
  BY OwnSpace DEF KFork, In, SocketsInv
<1>2. call[t].call.name = "fork"
  BY <1>1 DEF OneThreadEach, TypeOK, Pending, Call
<1>3. /\ space' = [space EXCEPT ![child] = child]
      /\ fds' = [fds EXCEPT ![child] = fds[t]] /\ cloexec' = [cloexec EXCEPT ![child] = cloexec[t]]
      /\ memory' = [memory EXCEPT ![child] = memory[t]] /\ wrote' = [wrote EXCEPT ![child] = wrote[t]]
      /\ rows' = InheritPid(t, child) /\ left' = [left EXCEPT ![child] = left[t]]
      /\ untold' = [untold EXCEPT ![child] = untold[t]]
      /\ Returns(t, TRUE, NoFd, Unset) /\ desc' = desc
  BY <1>1, <1>2 DEF KFork
<1>4. /\ call' \in [Tasks -> Pending \cup {NoCall}] /\ calls' = calls
      /\ \A u \in Tasks \ {t} : call'[u] = call[u]
      /\ call'[t] # NoCall /\ call'[t].stage = "returned" /\ call'[t].ok = TRUE
      /\ call'[t].call = call[t].call
      /\ call'[t].answer = call[t].answer /\ call'[t].address = call[t].address
  BY <1>1, <1>3, ReturnsDoes, NonesAssumption
<1>5. space[child] = NoTask /\ rows[child] = NoRows /\ call'[child] = NoCall
  BY <1>1, <1>4 DEF SocketsInv, Alone, Born
<1>6. /\ rows \in [Tasks -> [Fds -> Row \cup {NoRow}]]
      /\ rows'[child] = rows[t] /\ \A u \in Tasks \ {child} : rows'[u] = rows[u]
      /\ rows' \in [Tasks -> [Fds -> Row \cup {NoRow}]]
  <2>1. rows \in [Tasks -> [Fds -> Row \cup {NoRow}]]
    BY <1>1 DEF TypeOK
  <2>2. [fd \in Fds |-> IF rows[t][fd] # NoRow THEN rows[t][fd] ELSE rows[child][fd]] = rows[t]
    BY <1>5, <2>1 DEF NoRows
  <2>3. rows' = [rows EXCEPT ![child] = rows[t]]
    BY <1>3, <2>2 DEF InheritPid
  <2> QED  BY <2>1, <2>3
<1>7. /\ space'[child] = child /\ space'[t] = t
      /\ fds'[child] = fds[t] /\ fds'[t] = fds[t] /\ left'[child] = left[t] /\ left'[t] = left[t]
      /\ memory'[child] = memory[t] /\ memory'[t] = memory[t]
      /\ wrote'[child] = wrote[t] /\ wrote'[t] = wrote[t]
      /\ untold'[child] = untold[t] /\ untold'[t] = untold[t]
      /\ \A u \in Tasks \ {child} : /\ space'[u] = space[u] /\ fds'[u] = fds[u] /\ left'[u] = left[u]
                                    /\ memory'[u] = memory[u] /\ wrote'[u] = wrote[u]
                                    /\ untold'[u] = untold[u]
  BY <1>1, <1>3 DEF TypeOK
<1>8. TypeOK'
  <2>1. /\ fds' \in [Tasks -> [Fds -> Descs \cup {NoDesc}]] /\ cloexec' \in [Tasks -> SUBSET Fds]
        /\ space' \in [Tasks -> Tasks \cup {NoTask}] /\ left' \in [Tasks -> SUBSET Fds]
        /\ memory' \in [Tasks -> Address \cup {Unset}] /\ wrote' \in [Tasks -> Address \cup {Unset}]
        /\ untold' \in [Tasks -> SUBSET Fds]
    BY <1>1, <1>3 DEF TypeOK
  <2> QED  BY <1>1, <1>3, <1>4, <1>6, <2>1 DEF TypeOK
<1>9. FilesOpen' /\ KernelSeesReal'
  <2>1. FilesOpen
    BY DEF SocketsInv
  <2> QED  BY <1>3, <1>7, <2>1 DEF SocketsInv, FilesOpen, KernelSeesReal
<1>10. \A u \in Tasks \ {t, child} : FilesGrow(u)
  BY <1>3, <1>7 DEF FilesGrow, Grows
<1>11. \A u \in Tasks \ {t, child} : SameTask(u) /\ FilesGrow(u)
  BY <1>4, <1>6, <1>7, <1>10 DEF SameTask
<1>12. Alone(t)' /\ Alone(child)'
  BY <1>1, <1>7, SocketsAssumption DEF Alone
<1>13. memory[t] = wrote[t]
  BY <1>1, <1>2 DEF Underway
<1>14. Underway(t)' /\ Underway(child)'
  BY <1>1, <1>2, <1>4, <1>5, <1>6, <1>7, <1>13 DEF Underway, Followed
<1>15. ASSUME NEW fd \in Fds
       PROVE  Tells(t, fd)' /\ Tells(child, fd)'
  <2>1. IF fd \in left[t] THEN File(t, fd).kind \notin Kinds
        ELSE Describes(rows[t][fd], File(t, fd), fd, untold[t])
    BY <1>1, EnteredTells
  <2>2. NextRows(t)' = rows[t] /\ NextLeft(t)' = left[t]
    BY <1>1, <1>2, <1>4, <1>6, <1>7 DEF NextRows, NextLeft, RowsAfter, LeftAfter
  <2>3. NextRows(child)' = rows[t] /\ NextLeft(child)' = left[t]
    BY <1>5, <1>6, <1>7 DEF NextRows, NextLeft, Ahead
  <2>4. File(t, fd)' = File(t, fd) /\ File(child, fd)' = File(t, fd)
    BY <1>1, <1>3, <1>7 DEF File, Table
  <2> QED  BY <1>7, <2>1, <2>2, <2>3, <2>4 DEF Tells, Describes
<1> DEFINE W == {t, child}
<1>16. W \subseteq Tasks /\ \A u \in Tasks \ W : SameTask(u) /\ FilesGrow(u)
  BY <1>11
<1>17. \A u \in W : /\ Alone(u)'
                    /\ (u \in Born)' => Underway(u)' /\ \A fd \in Fds : Tells(u, fd)'
  BY <1>12, <1>14, <1>15
<1> HIDE DEF W
<1> QED  BY <1>8, <1>9, <1>16, <1>17, StepOf

-----------------------------------------------------------------------------
(* What the tracer and the program do.                                     *)

LEMMA EntryStep ==
  ASSUME SocketsInv, NonesAssumption, NEW t \in Tasks, NEW c \in CallsMade, Entry(t, c)
  PROVE  SocketsInv'
<1>1. /\ t \in Born /\ call[t] = NoCall /\ calls < MaxCalls /\ space[t] = t
      /\ c.name \in {"bind", "connect"} => memory[t] # Unset
      /\ UNCHANGED <<space, fds, cloexec, desc, untold, wrote, rows, left>> /\ calls' = calls + 1
  BY OwnSpace DEF Entry, kernelVars
<1>2. PICK answer \in EntryAnswers(t, c) :
        /\ call' = [call EXCEPT ![t] =
             [call |-> c, stage |-> "entered", ok |-> TRUE, answer |-> answer,
              address |-> IF answer \in {"redirect", "allow"} THEN memory[t] ELSE Unset,
              out |-> NoFd, seen |-> Unset]]
        /\ memory' = IF answer = "redirect" THEN [memory EXCEPT ![t] = OnHost(@)] ELSE memory
  BY <1>1 DEF Entry
<1>3. /\ c \in Call /\ c.fd \in Fds /\ Underway(t) /\ TypeOK
      /\ rows[t] \in [Fds -> Row \cup {NoRow}] /\ memory[t] = wrote[t]
      /\ wrote[t] \in Written \cup {Unset} /\ memory[t] \in Address \cup {Unset}
      /\ call \in [Tasks -> Pending \cup {NoCall}] /\ memory \in [Tasks -> Address \cup {Unset}]
  BY <1>1 DEF SocketsInv, TypeOK, Underway, CallsMade, Call
<1> DEFINE row == rows[t][c.fd]
           entered == [call |-> c, stage |-> "entered", ok |-> TRUE, answer |-> answer,
                       address |-> IF answer \in {"redirect", "allow"} THEN memory[t] ELSE Unset,
                       out |-> NoFd, seen |-> Unset]
<1>4. row # NoRow /\ ~IsTcpStream(row) => IsRouteNetlink(row)
  BY <1>3 DEF IsTcpStream, IsRouteNetlink, Row, Kinds
<1>5. c.name \in {"bind", "connect"} => memory[t].at \in {"virtual", "outside"}
  BY <1>1, <1>3 DEF Written
<1>6. /\ answer \in Answers
      /\ answer = "redirect" => c.name \in {"bind", "connect"} /\ memory[t].at = "virtual"
      /\ answer = "allow" => c.name = "connect" /\ memory[t].at = "outside"
      /\ c.name \in {"bind", "connect"} /\ answer = "none" => IsRouteNetlink(row)
  <2>1. CASE c.name = "connect"
    <3>1. answer \in ConnectAnswers(row, memory[t])
      BY <1>1, <1>2, <2>1 DEF EntryAnswers
    <3> QED  BY <1>4, <1>5, <2>1, <3>1 DEF ConnectAnswers, IsTcpStream, Answers
  <2>2. CASE c.name = "bind"
    <3>1. answer \in BindAnswers(row, memory[t])
      BY <1>1, <1>2, <2>2 DEF EntryAnswers
    <3> QED  BY <1>4, <1>5, <2>2, <3>1 DEF BindAnswers, IsTcpStream, Answers
  <2>3. CASE c.name \notin {"bind", "connect"}
    <3>1. answer \in {"none", "emulated"}
      BY <1>2, <2>3 DEF EntryAnswers, MessageAnswers
    <3> QED  BY <2>3, <3>1 DEF Answers
  <2> QED  BY <2>1, <2>2, <2>3
<1>7. entered \in Pending
  BY <1>3, <1>6 DEF Pending
<1>8. /\ call' = [call EXCEPT ![t] = entered] /\ entered # NoCall
      /\ entered.call = c /\ entered.stage = "entered" /\ entered.answer = answer
      /\ entered.address = IF answer \in {"redirect", "allow"} THEN memory[t] ELSE Unset
  BY <1>2, <1>7, NonesAssumption
<1> HIDE DEF entered
<1>9. /\ call' \in [Tasks -> Pending \cup {NoCall}] /\ call'[t] = entered
      /\ \A u \in Tasks \ {t} : call'[u] = call[u]
  BY <1>3, <1>7, <1>8
<1>10. /\ memory' \in [Tasks -> Address \cup {Unset}]
       /\ memory'[t] = IF answer = "redirect" THEN OnHost(memory[t]) ELSE memory[t]
       /\ \A u \in Tasks \ {t} : memory'[u] = memory[u]
  <2>1. answer = "redirect" => OnHost(memory[t]) \in Address
    BY <1>3, <1>6 DEF OnHost, Address, Unset
  <2> QED  BY <1>2, <1>3, <2>1
<1>11. TypeOK'
  <2>1. calls + 1 \in 0..MaxCalls
    BY <1>1, <1>3, SocketsAssumption DEF TypeOK
  <2> QED  BY <1>1, <1>3, <1>9, <1>10, <2>1 DEF TypeOK
<1>12. Alone(t)'
  BY <1>1, SocketsAssumption DEF Alone
<1>13. Underway(t)'
  BY <1>1, <1>3, <1>6, <1>8, <1>9, <1>10 DEF Underway
<1>14. ASSUME NEW fd \in Fds
       PROVE  Tells(t, fd)'
  <2>1. IF fd \in left[t] THEN File(t, fd).kind \notin Kinds
        ELSE Describes(rows[t][fd], File(t, fd), fd, untold[t])
    BY <1>1, EnteredTells
  <2>2. NextRows(t)' = rows[t] /\ NextLeft(t)' = left[t]
    BY <1>1, <1>8, <1>9 DEF NextRows, NextLeft, Ahead
  <2>3. File(t, fd)' = File(t, fd)
    BY <1>1, FilesStay
  <2> QED  BY <1>1, <2>1, <2>2, <2>3 DEF Tells, Describes
<1>15. \A u \in Tasks \ {t} : SameTask(u) /\ FilesGrow(u)
  BY <1>1, <1>9, <1>10, FilesStay DEF SameTask
<1> DEFINE W == {t}
<1>16. W \subseteq Tasks /\ \A u \in Tasks \ W : SameTask(u) /\ FilesGrow(u)
  BY <1>15
<1>17. \A u \in W : /\ Alone(u)'
                    /\ (u \in Born)' => Underway(u)' /\ \A fd \in Fds : Tells(u, fd)'
  BY <1>12, <1>13, <1>14
<1> HIDE DEF W
<1> QED  BY <1>1, <1>11, <1>16, <1>17, FilesStay, StepOf

LEMMA WriteStep ==
  ASSUME SocketsInv, NonesAssumption, NEW t \in Tasks, NEW a \in Written, Write(t, a)
  PROVE  SocketsInv'
<1>1. /\ t \in Born /\ call[t] = NoCall /\ space[t] = t /\ TypeOK
      /\ wrote' = [wrote EXCEPT ![t] = a] /\ memory' = [memory EXCEPT ![t] = a]
      /\ UNCHANGED <<space, fds, cloexec, desc, untold, rows, call, calls, left>>
  BY OwnSpace DEF Write, SocketsInv
<1>2. /\ memory' \in [Tasks -> Address \cup {Unset}] /\ wrote' \in [Tasks -> Address \cup {Unset}]
      /\ memory'[t] = a /\ wrote'[t] = a
      /\ \A u \in Tasks \ {t} : memory'[u] = memory[u] /\ wrote'[u] = wrote[u]
  <2>1. a \in Address
    BY DEF Written, Address
  <2> QED  BY <1>1, <2>1 DEF TypeOK
<1>3. TypeOK'
  BY <1>1, <1>2 DEF TypeOK
<1>4. Alone(t)' /\ Underway(t)'
  BY <1>1, <1>2, SocketsAssumption DEF Alone, Underway
<1>5. ASSUME NEW fd \in Fds
      PROVE  Tells(t, fd)'
  <2>1. IF fd \in left[t] THEN File(t, fd).kind \notin Kinds
        ELSE Describes(rows[t][fd], File(t, fd), fd, untold[t])
    BY <1>1, EnteredTells
  <2>2. NextRows(t)' = rows[t] /\ NextLeft(t)' = left[t]
    BY <1>1 DEF NextRows, NextLeft, Ahead
  <2>3. File(t, fd)' = File(t, fd)
    BY <1>1, FilesStay
  <2> QED  BY <1>1, <2>1, <2>2, <2>3 DEF Tells, Describes
<1>6. \A u \in Tasks \ {t} : SameTask(u) /\ FilesGrow(u)
  BY <1>1, <1>2, FilesStay DEF SameTask
<1> DEFINE W == {t}
<1>7. W \subseteq Tasks /\ \A u \in Tasks \ W : SameTask(u) /\ FilesGrow(u)
  BY <1>6
<1>8. \A u \in W : /\ Alone(u)'
                   /\ (u \in Born)' => Underway(u)' /\ \A fd \in Fds : Tells(u, fd)'
  BY <1>4, <1>5
<1> HIDE DEF W
<1> QED  BY <1>1, <1>3, <1>7, <1>8, FilesStay, StepOf

LEMMA ExitStep ==
  ASSUME SocketsInv, NonesAssumption, NEW t \in Tasks, Exit(t)
  PROVE  SocketsInv'
<1>1. /\ t \in Born /\ call[t] # NoCall /\ call[t].stage = "returned" /\ space[t] = t /\ TypeOK
      /\ rows' = IF Followed(call[t]) THEN [rows EXCEPT ![t] = RowsAfter(t, call[t])] ELSE rows
      /\ left' = IF Followed(call[t]) THEN [left EXCEPT ![t] = LeftAfter(t, call[t])] ELSE left
      /\ memory' = IF call[t].answer = "redirect" THEN [memory EXCEPT ![t] = call[t].address] ELSE memory
      /\ call' = [call EXCEPT ![t] = NoCall]
      /\ UNCHANGED <<space, fds, cloexec, desc, untold, wrote, calls>>
  BY OwnSpace DEF Exit, Restored, SocketsInv, kernelVars
<1>2. /\ rows' = [rows EXCEPT ![t] = NextRows(t)] /\ left' = [left EXCEPT ![t] = NextLeft(t)]
  BY <1>1 DEF NextRows, NextLeft, Ahead, TypeOK
<1>3. /\ rows' \in [Tasks -> [Fds -> Row \cup {NoRow}]] /\ left' \in [Tasks -> SUBSET Fds]
      /\ rows'[t] = NextRows(t) /\ left'[t] = NextLeft(t)
      /\ \A u \in Tasks \ {t} : rows'[u] = rows[u] /\ left'[u] = left[u]
  <2>1. NextRows(t) \in [Fds -> Row \cup {NoRow}] /\ NextLeft(t) \in SUBSET Fds
    BY <1>1, NextRowsTyped, NonesAssumption
  <2> QED  BY <1>1, <1>2, <2>1 DEF TypeOK
<1>4. /\ call' \in [Tasks -> Pending \cup {NoCall}] /\ call'[t] = NoCall
      /\ \A u \in Tasks \ {t} : call'[u] = call[u]
  BY <1>1 DEF TypeOK
<1>5. Underway(t) /\ wrote[t] \in Address \cup {Unset}
  BY <1>1 DEF SocketsInv, TypeOK
<1>6. /\ memory' \in [Tasks -> Address \cup {Unset}] /\ memory'[t] = wrote[t]
      /\ \A u \in Tasks \ {t} : memory'[u] = memory[u]
  BY <1>1, <1>5 DEF TypeOK, Underway
<1>7. TypeOK'
  BY <1>1, <1>3, <1>4, <1>6 DEF TypeOK
<1>8. Alone(t)' /\ Underway(t)'
  BY <1>1, <1>4, <1>5, <1>6, SocketsAssumption DEF Alone, Underway
<1>9. ASSUME NEW fd \in Fds
      PROVE  Tells(t, fd)'
  <2>1. Tells(t, fd)
    BY <1>1 DEF SocketsInv, TableTells
  <2>2. NextRows(t)' = NextRows(t) /\ NextLeft(t)' = NextLeft(t)
    <3>1. NextRows(t)' = rows'[t] /\ NextLeft(t)' = left'[t]
      BY <1>4 DEF NextRows, NextLeft, Ahead
    <3> QED  BY <1>3, <3>1
  <2>3. File(t, fd)' = File(t, fd)
    BY <1>1, FilesStay
  <2> QED  BY <1>1, <2>1, <2>2, <2>3 DEF Tells, Describes
<1>10. \A u \in Tasks \ {t} : SameTask(u) /\ FilesGrow(u)
  BY <1>1, <1>3, <1>4, <1>6, FilesStay DEF SameTask
<1> DEFINE W == {t}
<1>11. W \subseteq Tasks /\ \A u \in Tasks \ W : SameTask(u) /\ FilesGrow(u)
  BY <1>10
<1>12. \A u \in W : /\ Alone(u)'
                    /\ (u \in Born)' => Underway(u)' /\ \A fd \in Fds : Tells(u, fd)'
  BY <1>8, <1>9
<1> HIDE DEF W
<1> QED  BY <1>1, <1>7, <1>11, <1>12, FilesStay, StepOf

LEMMA EndStep ==
  ASSUME SocketsInv, NonesAssumption, NEW t \in Tasks, End(t)
  PROVE  SocketsInv'
<1>1. /\ t \in Born /\ call[t] = NoCall /\ space[t] = t /\ TypeOK
      /\ space' = [space EXCEPT ![t] = NoTask] /\ rows' = [rows EXCEPT ![t] = NoRows]
      /\ left' = [left EXCEPT ![t] = {}] /\ UNCHANGED <<call, calls>>
  BY OwnSpace DEF End, SocketsInv
<1>2. ThreadsOf(space[t]) = {t}
  BY <1>1, OwnSpace DEF ThreadsOf
<1>3. /\ Retable(t, NoFds, {}, {})
      /\ memory' = [memory EXCEPT ![t] = Unset] /\ wrote' = [wrote EXCEPT ![t] = Unset]
  BY <1>1, <1>2 DEF End
<1>4. NoFds \in [Fds -> Descs \cup {NoDesc}] /\ \A fd \in Fds : NoFds[fd] = NoDesc
  BY DEF NoFds
<1>30. /\ fds'[t] = NoFds /\ cloexec'[t] = {} /\ untold'[t] = {}
       /\ desc' = Swept(fds', desc) /\ fds' = [fds EXCEPT ![t] = fds'[t]]
       /\ cloexec' = [cloexec EXCEPT ![t] = cloexec'[t]]
       /\ untold' = [untold EXCEPT ![t] = untold'[t]]
  BY <1>1, <1>3, OwnSpace DEF Retable, SocketsInv, TypeOK
<1>5. /\ fds' \in [Tasks -> [Fds -> Descs \cup {NoDesc}]] /\ cloexec' \in [Tasks -> SUBSET Fds]
      /\ desc' \in [Descs -> FileRecord] /\ FilesOpen' /\ KernelSeesReal'
      /\ fds'[t] = NoFds /\ untold' \in [Tasks -> SUBSET Fds]
      /\ \A u \in Tasks \ {t} : fds'[u] = fds[u] /\ FilesGrow(u)
  BY <1>1, <1>3, <1>4, <1>30, RetableDoes
<1>6. /\ space' \in [Tasks -> Tasks \cup {NoTask}] /\ rows' \in [Tasks -> [Fds -> Row \cup {NoRow}]]
      /\ left' \in [Tasks -> SUBSET Fds] /\ memory' \in [Tasks -> Address \cup {Unset}]
      /\ wrote' \in [Tasks -> Address \cup {Unset}]
  BY <1>1, <1>3 DEF TypeOK, NoRows
<1>7. /\ space'[t] = NoTask /\ rows'[t] = NoRows
      /\ \A u \in Tasks \ {t} : /\ space'[u] = space[u] /\ rows'[u] = rows[u] /\ left'[u] = left[u]
                                /\ memory'[u] = memory[u] /\ wrote'[u] = wrote[u]
  BY <1>1, <1>3 DEF TypeOK
<1>8. TypeOK'
  BY <1>1, <1>5, <1>6 DEF TypeOK, FileRecord
<1>9. Alone(t)' /\ ~(t \in Born)'
  BY <1>1, <1>5, <1>7 DEF Alone, Born
<1>10. \A u \in Tasks \ {t} : SameTask(u) /\ FilesGrow(u)
  BY <1>1, <1>5, <1>7 DEF SameTask
<1> DEFINE W == {t}
<1>11. W \subseteq Tasks /\ \A u \in Tasks \ W : SameTask(u) /\ FilesGrow(u)
  BY <1>10
<1>12. \A u \in W : /\ Alone(u)'
                    /\ (u \in Born)' => Underway(u)' /\ \A fd \in Fds : Tells(u, fd)'
  BY <1>9
<1> HIDE DEF W
<1> QED  BY <1>5, <1>8, <1>11, <1>12, StepOf

LEMMA SocketsInvInit ==
  ASSUME Init
  PROVE  SocketsInv
<1> USE SocketsAssumption
<1>1. NoFds \in [Fds -> Descs \cup {NoDesc}] /\ NoRows \in [Fds -> Row \cup {NoRow}]
      /\ \A fd \in Fds : NoFds[fd] = NoDesc /\ NoRows[fd] = NoRow
  BY DEF NoFds, NoRows
<1>2. Free \in FileRecord /\ Free.kind = "free" /\ Free.local = Unset /\ Free.remote = Unset
  BY DEF Free, FileRecord
<1>3. Born = {First} /\ First \in Tasks /\ space[First] = First
  BY DEF Init, Born
<1>4. TypeOK
  BY <1>1, <1>2 DEF Init, TypeOK, FileRecord
<1>5. \A t \in Tasks : Alone(t)
  BY DEF Init, Alone
<1>6. FilesOpen /\ KernelSeesReal
  BY <1>1, <1>2 DEF Init, FilesOpen, KernelSeesReal, Unset
<1>7. Underway(First)
  BY <1>3 DEF Init, Underway
<1>8. ASSUME NEW fd \in Fds
      PROVE  Tells(First, fd)
  <2>1. NextRows(First)[fd] = NoRow /\ NextLeft(First) = {}
    BY <1>1, <1>3 DEF Init, NextRows, NextLeft, Ahead
  <2>2. File(First, fd) = Free
    BY <1>1, <1>3 DEF Init, File, Table
  <2> QED  BY <1>2, <2>1, <2>2 DEF Tells, Describes, Kinds
<1> QED  BY <1>3, <1>4, <1>5, <1>6, <1>7, <1>8 DEF SocketsInv, TableTells

LEMMA SocketsInvStep ==
  ASSUME SocketsInv, NonesAssumption, OneThreadEach, [Next]_vars
  PROVE  SocketsInv'
<1>1. CASE UNCHANGED vars
  <2> DEFINE W == {}
  <2>1. UNCHANGED <<space, fds, cloexec, desc, untold>> /\ UNCHANGED <<wrote, memory, rows, call, calls, left>>
    BY <1>1 DEF vars, kernelVars
  <2>2. TypeOK'
    BY <2>1 DEF SocketsInv, TypeOK
  <2>3. W \subseteq Tasks /\ \A u \in Tasks \ W : SameTask(u) /\ FilesGrow(u)
    BY <2>1, FilesStay DEF SameTask
  <2>4. \A u \in W : /\ Alone(u)'
                     /\ (u \in Born)' => Underway(u)' /\ \A fd \in Fds : Tells(u, fd)'
    OBVIOUS
  <2> HIDE DEF W
  <2> QED  BY <2>1, <2>2, <2>3, <2>4, FilesStay, StepOf
<1>2. ASSUME NEW t \in Tasks, NEW a \in Written, Write(t, a)
      PROVE  SocketsInv'
  BY <1>2, WriteStep
<1>3. ASSUME NEW t \in Tasks, NEW c \in CallsMade, Entry(t, c)
      PROVE  SocketsInv'
  BY <1>3, EntryStep
<1>4. ASSUME NEW t \in Tasks, Kernel(t)
      PROVE  SocketsInv'
  <2>1. CASE Neutralised(t) \/ KernelFails(t)
    BY <2>1, NothingDone
  <2>2. CASE KSocket(t) \/ KOpen(t)
    BY <2>2, SocketStep
  <2>3. CASE KAccept(t)
    BY <2>3, AcceptStep
  <2>4. CASE KClose(t)
    BY <2>4, CloseStep
  <2>5. CASE KDup(t)
    BY <2>5, DupStep
  <2>6. CASE KBind(t) \/ KConnect(t)
    BY <2>6, AddressStep
  <2>7. CASE KUses(t)
    BY <2>7, UsesStep
  <2>8. CASE KExec(t)
    BY <2>8, ExecStep
  <2>9. ASSUME NEW child \in Tasks, KFork(t, child)
        PROVE  SocketsInv'
    BY <2>9, ForkStep
  <2> QED  BY <1>4, <2>1, <2>2, <2>3, <2>4, <2>5, <2>6, <2>7, <2>8, <2>9 DEF Kernel
<1>5. ASSUME NEW t \in Tasks, Exit(t)
      PROVE  SocketsInv'
  BY <1>5, ExitStep
<1>6. ASSUME NEW t \in Tasks, End(t)
      PROVE  SocketsInv'
  BY <1>6, EndStep
<1> QED  BY <1>1, <1>2, <1>3, <1>4, <1>5, <1>6 DEF Next

LEMMA SocketsInvariant ==
  ASSUME OneThreadEach
  PROVE  Spec => []SocketsInv
<1>1. Init => SocketsInv
  BY SocketsInvInit
<1>2. SocketsInv /\ [Next]_vars => SocketsInv'
  BY SocketsInvStep, NonesAssumption
<1> QED  BY <1>1, <1>2, PTL DEF Spec

-----------------------------------------------------------------------------
(* The theorems, of processes with one thread each.                        *)

(* The table and the records of calls have their types: the table holds no *)
(* address of the host's loopback for a program to be told.               *)
THEOREM SocketsTypeCorrect ==
  ASSUME OneThreadEach
  PROVE  Spec => []TypeOK
<1>1. SocketsInv => TypeOK
  BY DEF SocketsInv
<1> QED  BY <1>1, SocketsInvariant, PTL

(* However calls fail, fds are shared, copied, closed by number or by      *)
(* execve: a process at rest has a row for just its sockets, no row has a  *)
(* virtual address that is not the one the service mapped, and of a file   *)
(* that was bound and connected through this fd alone, by calls that did   *)
(* not go on after they returned, the row has just the addresses it has.   *)
(* (But for the rows an execve left behind.)                               *)
THEOREM RowsAreTrue ==
  ASSUME OneThreadEach
  PROVE  Spec => []RowsTellTruth
<1>1. SocketsInv => RowsTellTruth
  <2> SUFFICES ASSUME SocketsInv, NEW t \in Born, Idle(space[t]), NEW fd \in Fds, fd \notin left[t]
               PROVE  Describes(rows[t][fd], File(t, fd), fd, untold[space[t]])
    BY DEF RowsTellTruth, Describes
  <2>1. call[t] = NoCall
    BY IdleAlone
  <2> QED  BY <2>1, EnteredTells, OwnSpace
<1> QED  BY <1>1, SocketsInvariant, PTL

(* The kernel never binds or connects a socket to an address that only the *)
(* container knows.                                                        *)
THEOREM NoVirtualAddressPasses ==
  ASSUME OneThreadEach
  PROVE  Spec => []KernelSeesReal
<1>1. SocketsInv => KernelSeesReal
  BY DEF SocketsInv
<1> QED  BY <1>1, SocketsInvariant, PTL

(* Whether a call succeeded, failed or was refused, the program finds its  *)
(* own address in its memory afterwards.                                   *)
THEOREM AddressesGivenBack ==
  ASSUME OneThreadEach
  PROVE  Spec => []MemoryIntact
<1>1. SocketsInv => MemoryIntact
  <2> SUFFICES ASSUME SocketsInv, NEW t \in Born, Idle(space[t])
               PROVE  memory[space[t]] = wrote[space[t]]
    BY DEF MemoryIntact
  <2>1. call[t] = NoCall /\ space[t] = t
    BY IdleAlone, OwnSpace
  <2> QED  BY <2>1 DEF SocketsInv, Underway
<1> QED  BY <1>1, SocketsInvariant, PTL

(* A message gets to the kernel unless it is on a route socket, and then   *)
(* it never does, but for the rows an execve left behind.                  *)
LEMMA MessageAnswered ==
  ASSUME SocketsInv, [Next]_vars, NEW t \in Born, Messages(t)
  PROVE  LET fd == call'[t].call.fd
         IN \/ fd \in left[t] /\ File(t, fd).kind # "route"
            \/ call'[t].answer = "emulated" <=> File(t, fd).kind = "route"
<1>1. /\ call[t] = NoCall /\ call'[t] # NoCall /\ call'[t].call.name = "message"
      /\ t \in Tasks /\ space[t] = t /\ call \in [Tasks -> Pending \cup {NoCall}]
  BY IdleAlone, OwnSpace DEF Messages, SocketsInv, TypeOK
<1>2. PICK c \in CallsMade : Entry(t, c)
  <2>1. ASSUME NEW u \in Tasks, NEW c \in CallsMade, Entry(u, c), u # t
        PROVE  FALSE
    BY <1>1, <2>1 DEF Entry
  <2>2. ASSUME NEW u \in Tasks, Kernel(u)
        PROVE  FALSE
    <3>1. call[u] # NoCall /\ \E r : call' = [call EXCEPT ![u] = r]
      BY <2>2 DEF Kernel, Neutralised, KernelFails, KSocket, KOpen, KAccept, Opens, KClose, KDup,
                  KBind, KConnect, KUses, KExec, KFork, In, Returns
    <3> QED  BY <1>1, <3>1
  <2>3. ASSUME NEW u \in Tasks, Exit(u)
        PROVE  FALSE
    BY <1>1, <2>3 DEF Exit
  <2>4. ASSUME NEW u \in Tasks, End(u) \/ \E a \in Written : Write(u, a)
        PROVE  FALSE
    BY <1>1, <2>4 DEF End, Write
  <2>5. ~UNCHANGED vars
    BY <1>1 DEF vars
  <2> QED  BY <2>1, <2>2, <2>3, <2>4, <2>5 DEF Next
<1>3. call'[t].call = c /\ call'[t].answer \in EntryAnswers(t, c)
  BY <1>1, <1>2 DEF Entry
<1>4. c.name = "message" /\ c.fd \in Fds
  BY <1>1, <1>3 DEF CallsMade, Call
<1>5. call'[t].answer = "emulated" <=> IsRouteNetlink(rows[t][c.fd])
  BY <1>3, <1>4 DEF EntryAnswers, MessageAnswers
<1>6. IF c.fd \in left[t] THEN File(t, c.fd).kind \notin Kinds
      ELSE Describes(rows[t][c.fd], File(t, c.fd), c.fd, untold[t])
  BY <1>1, <1>4, EnteredTells
<1> QED  BY <1>3, <1>5, <1>6 DEF Describes, IsRouteNetlink, Kinds

THEOREM RouteSocketsEmulated ==
  ASSUME OneThreadEach
  PROVE  Spec => HostStaysHidden
<1> DEFINE Hidden == \A t \in Born : Messages(t) =>
             LET fd == call'[t].call.fd
             IN \/ fd \in left[t] /\ File(t, fd).kind # "route"
                \/ call'[t].answer = "emulated" <=> File(t, fd).kind = "route"
<1>1. SocketsInv /\ [Next]_vars => [Hidden]_vars
  BY MessageAnswered
<1>2. HostStaysHidden <=> [][Hidden]_vars
  BY DEF HostStaysHidden
<1> HIDE DEF Hidden
<1> QED  BY <1>1, <1>2, SocketsInvariant, PTL DEF Spec
=============================================================================
