------------------------------ MODULE TcpProxy ------------------------------
(***************************************************************************)
(* tcp_proxy.py: a listener of the virtual network service and the         *)
(* connections it relays.  A one-shot proxy (made for one connect) accepts *)
(* one client within 60 s; a forwarder (made for a published port) accepts *)
(* until it is stopped.  Each connection is copied by two threads, one for *)
(* each direction, and each closes both sockets when it is done.           *)
(*                                                                         *)
(* <<c, e>> names the end e of connection c, the proxy's socket to it, and *)
(* the direction whose source it is.  The kernel holds at most one write   *)
(* of a direction on its way to the destination; a full accept queue is    *)
(* left out.                                                               *)
(***************************************************************************)
EXTENDS Naturals

CONSTANTS
  Conns,       \* clients that may connect
  Data         \* bound on the chunks each end sends

Ends == {"client", "server"}
Keys == Conns \X Ends
Peer(k) == <<k[1], IF k[2] = "client" THEN "server" ELSE "client">>

ASSUME DataAssumption == Data \in [Keys -> Nat]

VARIABLES
  kind,        \* oneshot or forwarder
  listener,    \* its socket
  loop,        \* where _run is
  stopping,    \* stop(): no, asked, closing, joining, back
  conn,        \* where each connection is
  ends,        \* each end: open, finished (it sends no more) or gone
  sock,        \* the proxy's socket to it: none, open, closed
  pipe,        \* where the thread that reads from it is
  sent,        \* chunks it has sent
  inq,         \* of those, the ones that wait in the proxy's socket
  hold,        \* the ones its thread has read and not sent
  outq,        \* the ones on their way to the other end
  got          \* the ones the other end has read

listenVars == <<kind, listener, loop, stopping>>
endVars == <<ends, sock>>
dataVars == <<sent, inq, hold, outq, got>>
vars == <<listenVars, conn, endVars, pipe, dataVars>>

Init ==
  /\ kind \in {"oneshot", "forwarder"}
  /\ listener = "open" /\ stopping = "no"
  /\ loop = IF kind = "oneshot" THEN "accepting" ELSE "checking"
  /\ conn = [c \in Conns |-> "none"]
  /\ ends = [k \in Keys |-> "open"] /\ sock = [k \in Keys |-> "none"]
  /\ pipe = [k \in Keys |-> "none"]
  /\ sent = [k \in Keys |-> 0] /\ inq = [k \in Keys |-> 0] /\ hold = [k \in Keys |-> 0]
  /\ outq = [k \in Keys |-> 0] /\ got = [k \in Keys |-> 0]
-----------------------------------------------------------------------------
(* What the kernel does.                                                   *)

(* A listener that is closed resets the connections nobody accepted.       *)
ListenerClosed ==
  /\ listener' = "closed"
  /\ conn' = [c \in Conns |-> IF conn[c] = "queued" THEN "refused" ELSE conn[c]]

(* shutdown_close: a socket closed with something unread is reset, and     *)
(* what was on its way to the other end may be lost.                       *)
Closed(ks) ==
  LET now == {k \in ks : sock[k] = "open"}
  IN /\ sock' = [k \in Keys |-> IF k \in now THEN "closed" ELSE sock[k]]
     /\ inq' = [k \in Keys |-> IF k \in now THEN 0 ELSE inq[k]]
     /\ \E cut \in SUBSET {Peer(k) : k \in {x \in now : inq[x] > 0}} :
          outq' = [k \in Keys |-> IF k \in cut THEN 0 ELSE outq[k]]

ClientConnects(c) ==
  /\ listener = "open" /\ conn[c] = "none"
  /\ conn' = [conn EXCEPT ![c] = "queued"]
  /\ UNCHANGED <<listenVars, endVars, pipe, dataVars>>

Connected(k) ==
  IF k[2] = "client" THEN conn[k[1]] \notin {"none", "refused"} ELSE sock[k] # "none"

(* What a connection carries is followed where it says nothing more of the *)
(* listener: for a client of a one-shot proxy that has something to send.  *)
Talks(c) == kind = "oneshot" /\ \E e \in Ends : Data[<<c, e>>] > 0

(* A chunk sent to a socket that was closed is answered with a reset.      *)
EndSends(k) ==
  /\ Connected(k) /\ Talks(k[1]) /\ ends[k] = "open" /\ sent[k] < Data[k]
  /\ sent' = [sent EXCEPT ![k] = @ + 1]
  /\ IF sock[k] = "closed"
     THEN /\ \E left \in {0, outq[Peer(k)]} : outq' = [outq EXCEPT ![Peer(k)] = left]
          /\ UNCHANGED inq
     ELSE /\ inq' = [inq EXCEPT ![k] = @ + 1]
          /\ UNCHANGED outq
  /\ UNCHANGED <<listenVars, conn, endVars, pipe, hold, got>>

EndFinishes(k) ==
  /\ Connected(k) /\ Talks(k[1]) /\ ends[k] = "open"
  /\ ends' = [ends EXCEPT ![k] = "finished"]
  /\ UNCHANGED <<listenVars, conn, sock, pipe, dataVars>>

(* An end that leaves what it was sent unread resets the connection.       *)
EndLeaves(k) ==
  /\ Connected(k) /\ Talks(k[1]) /\ ends[k] # "gone"
  /\ ends' = [ends EXCEPT ![k] = "gone"]
  /\ outq' = [outq EXCEPT ![Peer(k)] = 0]
  /\ \E left \in IF outq[Peer(k)] > 0 THEN {0, inq[k]} ELSE {inq[k]} :
        inq' = [inq EXCEPT ![k] = left]
  /\ UNCHANGED <<listenVars, conn, sock, pipe, sent, hold, got>>

EndReads(k) ==     \* the end reads what its peer sent
  LET d == Peer(k)
  IN /\ ends[k] # "gone" /\ outq[d] > 0
     /\ got' = [got EXCEPT ![d] = @ + outq[d]]
     /\ outq' = [outq EXCEPT ![d] = 0]
     /\ UNCHANGED <<listenVars, conn, endVars, pipe, sent, inq, hold>>
-----------------------------------------------------------------------------
(* The listening thread.                                                   *)
LoopChecks ==
  /\ loop = "checking"
  /\ loop' = IF stopping # "no" THEN "closing" ELSE "accepting"
  /\ UNCHANGED <<kind, listener, stopping, conn, endVars, pipe, dataVars>>

Accept(c) ==
  /\ loop = "accepting" /\ listener = "open" /\ conn[c] = "queued"
  /\ conn' = [conn EXCEPT ![c] = "accepted"]
  /\ sock' = [sock EXCEPT ![<<c, "client">>] = "open"]
  /\ loop' = IF kind = "oneshot" THEN "closing" ELSE "spawning"
  /\ UNCHANGED <<kind, listener, stopping, ends, pipe, dataVars>>

(* After 60 s, or 0.2 s, without a client.                                 *)
AcceptTimesOut ==
  /\ loop = "accepting" /\ \A c \in Conns : conn[c] # "queued"
  /\ loop' = IF kind = "oneshot" THEN "closing" ELSE "checking"
  /\ UNCHANGED <<kind, listener, stopping, conn, endVars, pipe, dataVars>>

AcceptFails ==     \* any OSError: it was closed, or there are no descriptors left
  /\ loop = "accepting"
  /\ loop' = "closing"
  /\ UNCHANGED <<kind, listener, stopping, conn, endVars, pipe, dataVars>>

(* Mutant: the loop ends and leaves its listener open.                     *)
LoopEndsOpen ==
  /\ loop = "closing"
  /\ loop' = "done"
  /\ UNCHANGED <<kind, listener, stopping, conn, endVars, pipe, dataVars>>

LoopCloses ==
  /\ loop = "closing"
  /\ ListenerClosed
  /\ loop' = "done"
  /\ UNCHANGED <<kind, stopping, endVars, pipe, dataVars>>

(* The forwarder's thread for a client, if the system lets it have one: if *)
(* not, the exception ends the loop and nobody closes the listener.        *)
Spawn(c) ==
  /\ loop = "spawning" /\ conn[c] = "accepted"
  /\ \/ conn' = [conn EXCEPT ![c] = "dialing"] /\ loop' = "checking"
        /\ UNCHANGED <<endVars, dataVars>>
     \/ conn' = [conn EXCEPT ![c] = "closed"] /\ loop' = "raised"
        /\ Closed({<<c, "client">>}) /\ UNCHANGED <<ends, sent, hold, got>>
  /\ UNCHANGED <<kind, listener, stopping, pipe>>

(* stop(), called for a forwarder whose publish is removed.                *)
Stop ==
  /\ kind = "forwarder" /\ stopping = "no"
  /\ stopping' = "asked"
  /\ UNCHANGED <<kind, listener, loop, conn, endVars, pipe, dataVars>>

StopCloses ==
  /\ stopping = "asked"
  /\ ListenerClosed
  /\ stopping' = "joining"
  /\ UNCHANGED <<kind, loop, endVars, pipe, dataVars>>

StopJoins ==
  /\ stopping = "joining"
  /\ stopping' = "back"
  /\ UNCHANGED <<kind, listener, loop, conn, endVars, pipe, dataVars>>
-----------------------------------------------------------------------------
(* Mutant: it is not waited for the target to answer.                      *)
DialWithoutAnswer(c) ==
  /\ conn[c] = "dialing" \/ (conn[c] = "accepted" /\ kind = "oneshot" /\ loop = "done")
  /\ \/ /\ conn' = [conn EXCEPT ![c] = "starting"]
        /\ UNCHANGED <<sock, dataVars>>
     \/ /\ conn' = [conn EXCEPT ![c] = "closed"]
        /\ Closed({<<c, "client">>}) /\ UNCHANGED <<sent, hold, got>>
  /\ UNCHANGED <<listenVars, ends, pipe>>

(* A connection: create_connection to the target, then the two threads.    *)
Dial(c) ==
  /\ conn[c] = "dialing" \/ (conn[c] = "accepted" /\ kind = "oneshot" /\ loop = "done")
  /\ \/ /\ conn' = [conn EXCEPT ![c] = "starting"]
        /\ sock' = [sock EXCEPT ![<<c, "server">>] = "open"]
        /\ UNCHANGED dataVars
     \/ /\ conn' = [conn EXCEPT ![c] = "closed"]
        /\ Closed({<<c, "client">>}) /\ UNCHANGED <<sent, hold, got>>
  /\ UNCHANGED <<listenVars, ends, pipe>>

(* Of two threads the second, or both, may fail to start; sockets that no  *)
(* thread holds are closed.                                                *)
StartPipes(c) ==
  /\ conn[c] = "starting"
  /\ \E started \in {{"client", "server"}, {"client"}, {}} :
       /\ pipe' = [k \in Keys |-> IF k[1] = c /\ k[2] \in started THEN "reading" ELSE pipe[k]]
       /\ conn' = [conn EXCEPT ![c] = IF started = Ends THEN "relayed"
                                      ELSE IF started = {} THEN "closed" ELSE "oneway"]
       /\ IF started = {}
          THEN Closed({<<c, e>> : e \in Ends}) /\ UNCHANGED <<sent, hold, got>>
          ELSE UNCHANGED <<sock, dataVars>>
  /\ UNCHANGED <<listenVars, ends>>

PipeReads(k) ==
  /\ pipe[k] = "reading" /\ sock[k] = "open" /\ inq[k] > 0
  /\ hold' = [hold EXCEPT ![k] = inq[k]]
  /\ inq' = [inq EXCEPT ![k] = 0]
  /\ pipe' = [pipe EXCEPT ![k] = "sending"]
  /\ UNCHANGED <<listenVars, conn, endVars, sent, outq, got>>

(* Mutant: the end of the stream is seen before what was sent is read.     *)
PipeEndsEarly(k) ==
  /\ pipe[k] = "reading" /\ (sock[k] = "closed" \/ ends[k] # "open")
  /\ pipe' = [pipe EXCEPT ![k] = "ending"]
  /\ UNCHANGED <<listenVars, conn, endVars, dataVars>>

(* No data, or an error: the other thread has closed the socket.           *)
PipeEnds(k) ==
  /\ pipe[k] = "reading"
  /\ sock[k] = "closed" \/ (inq[k] = 0 /\ ends[k] # "open")
  /\ pipe' = [pipe EXCEPT ![k] = "ending"]
  /\ UNCHANGED <<listenVars, conn, endVars, dataVars>>

(* sendall; to an end that has left it may still succeed.                  *)
PipeSends(k) ==
  /\ pipe[k] = "sending" /\ sock[Peer(k)] = "open" /\ outq[k] = 0
  /\ outq' = [outq EXCEPT ![k] = IF ends[Peer(k)] = "gone" THEN 0 ELSE hold[k]]
  /\ hold' = [hold EXCEPT ![k] = 0]
  /\ pipe' = [pipe EXCEPT ![k] = "reading"]
  /\ UNCHANGED <<listenVars, conn, endVars, sent, inq, got>>

PipeBreaks(k) ==
  /\ pipe[k] = "sending" /\ (sock[Peer(k)] = "closed" \/ ends[Peer(k)] = "gone")
  /\ hold' = [hold EXCEPT ![k] = 0]
  /\ pipe' = [pipe EXCEPT ![k] = "ending"]
  /\ UNCHANGED <<listenVars, conn, endVars, sent, inq, outq, got>>

(* Mutant: only the source is closed.                                      *)
PipeClosesSource(k) ==
  /\ pipe[k] = "ending" /\ Closed({k}) /\ pipe' = [pipe EXCEPT ![k] = "done"]
  /\ UNCHANGED <<listenVars, conn, ends, sent, hold, got>>

(* shutdown_close of the source, and of the destination.                   *)
PipeCloses(k) ==
  /\ \/ pipe[k] = "ending" /\ Closed({k}) /\ pipe' = [pipe EXCEPT ![k] = "closing"]
     \/ pipe[k] = "closing" /\ Closed({Peer(k)}) /\ pipe' = [pipe EXCEPT ![k] = "done"]
  /\ UNCHANGED <<listenVars, conn, ends, sent, hold, got>>
-----------------------------------------------------------------------------
EndStep(k) == EndSends(k) \/ EndFinishes(k) \/ EndLeaves(k) \/ EndReads(k)
LoopStep ==
  LoopChecks \/ AcceptTimesOut \/ AcceptFails \/ LoopCloses \/ \E c \in Conns : Accept(c) \/ Spawn(c)
StopStep == StopCloses \/ StopJoins
PipeStep(k) == PipeReads(k) \/ PipeEnds(k) \/ PipeSends(k) \/ PipeBreaks(k) \/ PipeCloses(k)

Next ==
  \/ LoopStep \/ Stop \/ StopStep
  \/ \E c \in Conns : ClientConnects(c) \/ Dial(c) \/ StartPipes(c)
  \/ \E k \in Keys : EndStep(k) \/ PipeStep(k)

Spec == Init /\ [][Next]_vars

(* The threads run, accept times out and create_connection returns.        *)
FairSpec ==
  /\ Spec
  /\ WF_vars(LoopStep) /\ WF_vars(StopStep)
  /\ \A c \in Conns : WF_vars(Dial(c)) /\ WF_vars(StartPipes(c))
  /\ \A k \in Keys : WF_vars(PipeStep(k))
-----------------------------------------------------------------------------
(* The variables have their types.                                         *)
TypeOK ==
  /\ kind \in {"oneshot", "forwarder"} /\ listener \in {"open", "closed"}
  /\ loop \in {"checking", "accepting", "spawning", "closing", "done", "raised"}
  /\ stopping \in {"no", "asked", "joining", "back"}
  /\ conn \in [Conns -> {"none", "queued", "refused", "accepted", "dialing", "starting",
                         "relayed", "oneway", "closed"}]
  /\ ends \in [Keys -> {"open", "finished", "gone"}]
  /\ sock \in [Keys -> {"none", "open", "closed"}]
  /\ pipe \in [Keys -> {"none", "reading", "sending", "ending", "closing", "done"}]
  /\ sent \in [Keys -> Nat] /\ inq \in [Keys -> Nat] /\ hold \in [Keys -> Nat]
  /\ outq \in [Keys -> Nat] /\ got \in [Keys -> Nat]
  /\ \A k \in Keys : pipe[k] # "none" => sock[k] # "none" /\ sock[Peer(k)] # "none"

(* What is still under way from k can arrive unless its destination has    *)
(* left, or one of the sockets, or the thread between them, is done.       *)
Due(k) ==
  IF ends[Peer(k)] = "gone" THEN got[k]
  ELSE IF sock[k] = "closed" \/ pipe[k] \in {"ending", "closing", "done"}
       THEN got[k] + outq[k]
       ELSE IF sock[Peer(k)] = "closed" THEN got[k] + outq[k]
       ELSE got[k] + outq[k] + hold[k] + inq[k]

(* The proxy relays: what arrives is the beginning of what was sent, all   *)
(* of it until an end has finished or left, and what a peer that has sent  *)
(* nothing is told last arrives too, however the two threads, which close  *)
(* each other's sockets, interleave.                                       *)
Abstract == INSTANCE Relay WITH
  due <- [k \in Keys |-> Due(k)],
  ended <- {k \in Keys : ends[k] # "open"},
  refused <- {c \in Conns : conn[c] \in {"refused", "closed"}}

Relays == Abstract!Spec

(* Once an end has finished or left, its connection is taken down: neither *)
(* socket stays open, but when an end does not read what it is sent.       *)
EndsTogether ==
  \A k \in Keys :
    (pipe[k] # "none" /\ ends[k] # "open") ~>
      (\A e \in Ends : sock[<<k[1], e>>] = "closed") \/ outq[k] > 0 \/ outq[Peer(k)] > 0

(* A client is not left waiting: it is put through, or refused, also when  *)
(* the forwarder is stopped, or gives up, meanwhile; but for a forwarder   *)
(* whose thread was ended by an exception.                                 *)
ClientAnswered ==
  \A c \in Conns :
    conn[c] = "queued" ~> conn[c] \in {"refused", "closed", "relayed", "oneway"} \/ loop = "raised"
=============================================================================
