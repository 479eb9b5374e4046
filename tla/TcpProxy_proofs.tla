-------------------------- MODULE TcpProxy_proofs --------------------------
(***************************************************************************)
(* Proofs about TcpProxy: its state has its types, and it implements Relay,*)
(* for any number of connections and of chunks.                            *)
(***************************************************************************)
EXTENDS TcpProxy, TLAPS

Ended(k) == pipe[k] \in {"ending", "closing", "done"}
Sum(k) == got[k] + outq[k] + hold[k] + inq[k]

(* A connection has its sockets when it needs them, and its threads, and   *)
(* what they carry, only when it was put through.                          *)
Opening ==
  /\ \A c \in Conns :
       /\ conn[c] \in {"none", "queued"} => sock[<<c, "client">>] = "none"
       /\ conn[c] \in {"none", "queued", "accepted", "dialing"} => sock[<<c, "server">>] = "none"
       /\ conn[c] \in {"accepted", "dialing"} => sock[<<c, "client">>] = "open"
       /\ conn[c] = "starting" => \A e \in Ends : sock[<<c, e>>] = "open"
  /\ \A k \in Keys :
       /\ conn[k[1]] \notin {"relayed", "oneway"} => pipe[k] = "none"
       /\ pipe[k] = "none" => outq[k] = 0 /\ got[k] = 0

(* A thread that has closed its source has done so, and nobody else closes *)
(* the source of a thread at work before its destination.                  *)
Closing ==
  \A k \in Keys :
    /\ pipe[k] \in {"closing", "done"} => sock[k] = "closed"
    /\ pipe[k] \in {"reading", "sending"} /\ sock[k] = "closed" => sock[Peer(k)] = "closed"

(* Nothing is taken down before an end has finished or left, and a thread  *)
(* that gave up with its source open had something to send.                *)
Reason ==
  \A k \in Keys :
    /\ sock[k] = "closed" \/ Ended(k) =>
         conn[k[1]] = "closed" \/ ends[k] # "open" \/ ends[Peer(k)] # "open"
    /\ pipe[k] = "ending" /\ ends[k] = "open" => sock[k] = "closed" \/ sent[k] > 0

(* No chunk appears from nowhere, and none is missing while both sides of  *)
(* its way are there.                                                      *)
Conserved ==
  \A k \in Keys :
    /\ pipe[k] = "sending" => hold[k] > 0
    /\ pipe[k] # "sending" => hold[k] = 0
    /\ Sum(k) <= sent[k]
    /\ (/\ ends[k] = "open" /\ ends[Peer(k)] # "gone" /\ ~Ended(k)
        /\ sock[k] # "closed" /\ sock[Peer(k)] # "closed") => Sum(k) = sent[k]

ProxyInv == TypeOK /\ Opening /\ Closing /\ Reason /\ Conserved
-----------------------------------------------------------------------------
(* The two ends of a connection.                                           *)
LEMMA Pairs ==
  /\ \A k \in Keys : /\ Peer(k) \in Keys /\ Peer(k) # k /\ Peer(Peer(k)) = k
                     /\ Peer(k)[1] = k[1] /\ k[1] \in Conns /\ k[2] \in Ends
                     /\ k = <<k[1], k[2]>>
  /\ \A j, k \in Keys : j[1] = k[1] => j = k \/ j = Peer(k)
  /\ \A c \in Conns, e \in Ends : <<c, e>> \in Keys /\ <<c, e>>[1] = c /\ <<c, e>>[2] = e
BY DEF Keys, Ends, Peer

(* The invariant holds at first.                                           *)
LEMMA InvInit == Init => ProxyInv
BY Pairs DEF Init, ProxyInv, TypeOK, Opening, Closing, Reason, Conserved, Ended, Sum, Ends

(* The listening thread and stop.                                          *)
LEMMA InvListen ==
  ASSUME ProxyInv,
         LoopChecks \/ AcceptTimesOut \/ AcceptFails \/ LoopCloses \/ Stop \/ StopStep
  PROVE  ProxyInv'
<1>1. CASE LoopChecks \/ AcceptTimesOut \/ AcceptFails \/ Stop \/ StopJoins
  BY <1>1 DEF LoopChecks, AcceptTimesOut, AcceptFails, Stop, StopJoins,
     ProxyInv, TypeOK, Opening, Closing, Reason, Conserved, Ended, Sum, listenVars, endVars, dataVars
<1>2. CASE LoopCloses \/ StopCloses
  <2>1. /\ conn' = [c \in Conns |-> IF conn[c] = "queued" THEN "refused" ELSE conn[c]]
        /\ UNCHANGED <<endVars, pipe, dataVars>>
        /\ listener' = "closed" /\ kind' = kind
        /\ loop' \in {loop, "done"} /\ stopping' \in {stopping, "joining"}
    BY <1>2 DEF LoopCloses, StopCloses, ListenerClosed
  <2>2. TypeOK'
    BY <2>1 DEF ProxyInv, TypeOK, endVars, dataVars
  <2>3. Opening'
    BY <2>1, Pairs DEF ProxyInv, TypeOK, Opening, endVars, dataVars
  <2>4. Closing' /\ Conserved'
    BY <2>1 DEF ProxyInv, Closing, Conserved, Ended, Sum, endVars, dataVars
  <2>5. Reason'
    BY <2>1, Pairs DEF ProxyInv, TypeOK, Reason, Ended, endVars, dataVars
  <2>6. QED
    BY <2>2, <2>3, <2>4, <2>5 DEF ProxyInv
<1>3. QED
  BY <1>1, <1>2 DEF StopStep

(* A client connects and is accepted.                                      *)
LEMMA InvClient ==
  ASSUME ProxyInv, NEW c \in Conns, Accept(c) \/ ClientConnects(c)
  PROVE  ProxyInv'
<1>1. CASE ClientConnects(c)
  <2>1. TypeOK' /\ Opening'
    BY <1>1, Pairs DEF ClientConnects, ProxyInv, TypeOK, Opening, listenVars, endVars, dataVars
  <2>2. Closing' /\ Conserved'
    BY <1>1 DEF ClientConnects, ProxyInv, Closing, Conserved, Ended, Sum, endVars, dataVars
  <2>3. Reason'
    BY <1>1, Pairs DEF ClientConnects, ProxyInv, TypeOK, Reason, Ended, endVars, dataVars
  <2>4. QED
    BY <2>1, <2>2, <2>3 DEF ProxyInv
<1>2. CASE Accept(c)
  <2>0. <<c, "client">> \in Keys
    BY Pairs DEF Ends
  <2>1. TypeOK'
    BY <1>2, <2>0 DEF Accept, ProxyInv, TypeOK, dataVars
  <2>5. Opening'
    BY <1>2, <2>0, Pairs DEF Accept, ProxyInv, TypeOK, Opening, dataVars, Ends
  <2>2. Closing'
    BY <1>2, <2>0, Pairs DEF Accept, ProxyInv, TypeOK, Opening, Closing, dataVars
  <2>7. \A k \in Keys : sock'[k] = "closed" <=> sock[k] = "closed"
    BY <1>2, <2>0 DEF Accept, ProxyInv, TypeOK, Opening
  <2>6. Conserved'
    BY <1>2, <2>7, Pairs DEF Accept, ProxyInv, Conserved, Ended, Sum, dataVars
  <2>3. Reason'
    BY <1>2, Pairs DEF Accept, ProxyInv, TypeOK, Opening, Reason, Ended, dataVars, Ends
  <2>4. QED
    BY <2>1, <2>2, <2>3, <2>5, <2>6 DEF ProxyInv
<1>3. QED
  BY <1>1, <1>2

(* The ends of a connection send, stop sending, leave and read.            *)
LEMMA InvEndSends ==
  ASSUME ProxyInv, NEW k \in Keys, EndSends(k)
  PROVE  ProxyInv'
<1>1. sent' \in [Keys -> Nat] /\ inq' \in [Keys -> Nat] /\ outq' \in [Keys -> Nat]
  <2>1. /\ sent' = [sent EXCEPT ![k] = @ + 1]
        /\ sent \in [Keys -> Nat] /\ inq \in [Keys -> Nat] /\ outq \in [Keys -> Nat]
    BY DEF EndSends, ProxyInv, TypeOK
  <2>2. CASE sock[k] = "closed"
    <3>1. PICK left \in {0, outq[Peer(k)]} : outq' = [outq EXCEPT ![Peer(k)] = left]
      BY <2>2 DEF EndSends
    <3>2. left \in Nat
      BY <2>1, Pairs
    <3>3. outq' \in [Keys -> Nat]
      BY <3>1, <3>2, <2>1
    <3>4. inq' = inq
      BY <2>2 DEF EndSends
    <3>5. sent' \in [Keys -> Nat]
      BY <2>1
    <3>6. QED
      BY <3>3, <3>4, <3>5, <2>1
  <2>3. CASE sock[k] # "closed"
    BY <2>1, <2>3 DEF EndSends
  <2>4. QED
    BY <2>2, <2>3
<1>2. TypeOK'
  BY <1>1, Pairs DEF EndSends, ProxyInv, TypeOK, listenVars, endVars
<1>3. Opening'
  BY Pairs DEF EndSends, ProxyInv, TypeOK, Opening, listenVars, endVars
<1>4. Closing'
  BY Pairs DEF EndSends, ProxyInv, TypeOK, Closing, listenVars, endVars
<1>5. Reason'
  BY Pairs DEF EndSends, ProxyInv, TypeOK, Reason, Ended, listenVars, endVars
<1>6. Conserved'
  BY Pairs DEF EndSends, ProxyInv, TypeOK, Conserved, Ended, Sum, listenVars, endVars
<1>7. QED
  BY <1>2, <1>3, <1>4, <1>5, <1>6 DEF ProxyInv

LEMMA InvEnds ==
  ASSUME ProxyInv, NEW k \in Keys, EndFinishes(k) \/ EndLeaves(k) \/ EndReads(k)
  PROVE  ProxyInv'
<1>1. CASE EndFinishes(k)
  BY <1>1, Pairs DEF EndFinishes, ProxyInv, TypeOK, Opening, Closing, Reason, Conserved,
     Ended, Sum, listenVars, endVars, dataVars
<1>2. CASE EndLeaves(k)
  BY <1>2, Pairs DEF EndLeaves, ProxyInv, TypeOK, Opening, Closing, Reason, Conserved,
     Ended, Sum, listenVars, endVars, dataVars
<1>3. CASE EndReads(k)
  BY <1>3, Pairs DEF EndReads, ProxyInv, TypeOK, Opening, Closing, Reason, Conserved,
     Ended, Sum, listenVars, endVars, dataVars
<1>4. QED
  BY <1>1, <1>2, <1>3

(* What closing sockets does to the queues.                                *)
Emptied(ks) ==
  /\ sock' \in [Keys -> {"none", "open", "closed"}]
  /\ inq' \in [Keys -> Nat] /\ outq' \in [Keys -> Nat]
  /\ \A k \in Keys :
       /\ sock'[k] = IF k \in ks /\ sock[k] = "open" THEN "closed" ELSE sock[k]
       /\ inq'[k] = IF k \in ks /\ sock[k] = "open" THEN 0 ELSE inq[k]
       /\ outq'[k] \in {0, outq[k]}
       /\ outq'[k] # outq[k] =>
            Peer(k) \in ks /\ sock[Peer(k)] = "open" /\ inq[Peer(k)] > 0

(* Closed does so.                                                         *)
LEMMA ClosedQueues ==
  ASSUME TypeOK, NEW ks \in SUBSET Keys, Closed(ks)
  PROVE  Emptied(ks)
<1>1. sock' \in [Keys -> {"none", "open", "closed"}] /\ inq' \in [Keys -> Nat]
  BY DEF Closed, TypeOK
<1>2. \A k \in Keys :
        /\ sock'[k] = IF k \in ks /\ sock[k] = "open" THEN "closed" ELSE sock[k]
        /\ inq'[k] = IF k \in ks /\ sock[k] = "open" THEN 0 ELSE inq[k]
  BY DEF Closed
<1>3. PICK cut \in SUBSET {Peer(k) : k \in {x \in ks : sock[x] = "open" /\ inq[x] > 0}} :
        outq' = [k \in Keys |-> IF k \in cut THEN 0 ELSE outq[k]]
  BY DEF Closed
<1>4. outq' \in [Keys -> Nat]
  BY <1>3 DEF TypeOK
<1>5. \A k \in Keys :
        /\ outq'[k] \in {0, outq[k]}
        /\ outq'[k] # outq[k] =>
             Peer(k) \in ks /\ sock[Peer(k)] = "open" /\ inq[Peer(k)] > 0
  BY <1>3, Pairs
<1>6. QED
  BY <1>1, <1>2, <1>4, <1>5 DEF Emptied

(* A direction whose sockets both stay open keeps all its chunks.          *)
LEMMA ClosedSums ==
  ASSUME TypeOK, NEW ks, Emptied(ks), UNCHANGED <<hold, got>>, NEW k \in Keys
  PROVE  /\ Sum(k)' \in Nat /\ Sum(k) \in Nat /\ Sum(k)' <= Sum(k)
         /\ sock'[k] # "closed" /\ sock'[Peer(k)] # "closed" => Sum(k)' = Sum(k)
         /\ sock'[k] = "none" <=> sock[k] = "none"
         /\ sock[k] = "closed" => sock'[k] = "closed"
<1>1. Peer(k) \in Keys
  BY Pairs
<1>2. QED
  BY <1>1 DEF TypeOK, Emptied, Sum

(* A connection is put through, or given up.                               *)
LEMMA InvConnection ==
  ASSUME ProxyInv, NEW c \in Conns, Spawn(c) \/ Dial(c) \/ StartPipes(c)
  PROVE  ProxyInv'
<1>0. <<c, "client">> \in Keys /\ <<c, "server">> \in Keys
  BY Pairs DEF Ends
<1>1. CASE Spawn(c) /\ conn'[c] = "dialing"
  <2>1. /\ conn[c] = "accepted" /\ conn' = [conn EXCEPT ![c] = "dialing"]
        /\ loop' = "checking" /\ UNCHANGED <<kind, listener, stopping, pipe, endVars, dataVars>>
    BY <1>1 DEF Spawn, ProxyInv, TypeOK
  <2>2. TypeOK' /\ Closing' /\ Conserved'
    BY <2>1 DEF ProxyInv, TypeOK, Closing, Conserved, Ended, Sum, endVars, dataVars
  <2>3. Opening' /\ Reason'
    BY <2>1, Pairs DEF ProxyInv, TypeOK, Opening, Reason, Ended, endVars, dataVars
  <2>4. QED
    BY <2>2, <2>3 DEF ProxyInv
<1>2. CASE (Spawn(c) \/ Dial(c) \/ StartPipes(c)) /\ conn'[c] = "closed"
  <2>1. PICK ks \in SUBSET {<<c, e>> : e \in Ends} : Closed(ks)
    BY <1>2 DEF Spawn, Dial, StartPipes, ProxyInv, TypeOK, Ends
  <2>2. /\ conn[c] \notin {"relayed", "oneway"} /\ conn' = [conn EXCEPT ![c] = "closed"]
        /\ UNCHANGED <<kind, listener, stopping, ends, sent, hold, got>>
        /\ loop' \in {loop, "raised"}
    BY <1>2 DEF Spawn, Dial, StartPipes, ProxyInv, TypeOK, listenVars
  <2>3. pipe' = pipe
    BY <1>2, <1>0, Pairs DEF Spawn, Dial, StartPipes, ProxyInv, TypeOK, Opening, listenVars
  <2>4. Emptied(ks)
    BY <2>1, ClosedQueues, Pairs DEF ProxyInv
  <2>5. TypeOK'
    BY <2>2, <2>3, <2>4, Pairs DEF ProxyInv, TypeOK, Emptied
  <2>6. Opening'
    <3>1. \A d \in Conns : d # c => \A e \in Ends : sock'[<<d, e>>] = sock[<<d, e>>]
      BY <2>1, <2>4, Pairs DEF Emptied
    <3>2. \A k \in Keys : outq[k] = 0 => outq'[k] = 0
      BY <2>4 DEF Emptied
    <3>3. QED
      BY <2>2, <2>3, <3>1, <3>2, Pairs DEF ProxyInv, TypeOK, Opening, Ends
  <2>7. Closing'
    BY <2>2, <2>3, <2>4, Pairs DEF ProxyInv, TypeOK, Opening, Closing, Emptied
  <2>8. Reason'
    BY <2>1, <2>2, <2>3, <2>4, Pairs DEF ProxyInv, TypeOK, Opening, Reason, Ended, Emptied
  <2>9. Conserved'
    BY <2>2, <2>3, <2>4, ClosedSums, Pairs DEF ProxyInv, TypeOK, Conserved, Ended
  <2>10. QED
    BY <2>5, <2>6, <2>7, <2>8, <2>9 DEF ProxyInv
<1>3. CASE Dial(c) /\ conn'[c] = "starting"
  <2>1. /\ conn[c] \in {"accepted", "dialing"} /\ conn' = [conn EXCEPT ![c] = "starting"]
        /\ sock' = [sock EXCEPT ![<<c, "server">>] = "open"]
        /\ UNCHANGED <<listenVars, ends, pipe, dataVars>>
    BY <1>3 DEF Dial, ProxyInv, TypeOK
  <2>2. \A k \in Keys : sock'[k] = "closed" <=> sock[k] = "closed"
    BY <2>1, <1>0 DEF ProxyInv, TypeOK, Opening
  <2>3. TypeOK'
    BY <2>1, <1>0 DEF ProxyInv, TypeOK, listenVars, dataVars
  <2>4. Opening'
    BY <2>1, <1>0, Pairs DEF ProxyInv, TypeOK, Opening, listenVars, dataVars, Ends
  <2>5. Closing' /\ Conserved'
    BY <2>1, <2>2, Pairs DEF ProxyInv, Closing, Conserved, Ended, Sum, dataVars
  <2>6. Reason'
    BY <2>1, <2>2, Pairs DEF ProxyInv, TypeOK, Reason, Ended, dataVars
  <2>7. QED
    BY <2>3, <2>4, <2>5, <2>6 DEF ProxyInv
<1>4. CASE StartPipes(c) /\ conn'[c] # "closed"
  <2>1. PICK started \in {{"client", "server"}, {"client"}} :
          /\ pipe' = [k \in Keys |-> IF k[1] = c /\ k[2] \in started THEN "reading" ELSE pipe[k]]
          /\ conn' = [conn EXCEPT ![c] = IF started = Ends THEN "relayed" ELSE "oneway"]
          /\ conn[c] = "starting" /\ UNCHANGED <<listenVars, ends, sock, dataVars>>
    BY <1>4 DEF StartPipes, ProxyInv, TypeOK, Ends
  <2>2. \A k \in Keys : k[1] = c => sock[k] = "open" /\ pipe[k] = "none"
    <3>1. \A e \in Ends : sock[<<c, e>>] = "open"
      BY <2>1 DEF ProxyInv, Opening
    <3>2. \A k \in Keys : k[1] = c => k = <<c, k[2]>> /\ k[2] \in Ends
      BY Pairs
    <3>3. \A k \in Keys : k[1] = c => pipe[k] = "none"
      BY <2>1 DEF ProxyInv, Opening
    <3>4. QED
      BY <3>1, <3>2, <3>3
  <2>3. TypeOK'
    BY <2>1, <2>2, Pairs DEF ProxyInv, TypeOK, listenVars, dataVars
  <2>4. Opening'
    BY <2>1, <2>2, Pairs DEF ProxyInv, TypeOK, Opening, listenVars, dataVars
  <2>5. Closing' /\ Conserved'
    BY <2>1, <2>2, Pairs DEF ProxyInv, TypeOK, Closing, Conserved, Ended, Sum, dataVars
  <2>6. Reason'
    BY <2>1, <2>2, Pairs DEF ProxyInv, TypeOK, Reason, Ended, dataVars
  <2>7. QED
    BY <2>3, <2>4, <2>5, <2>6 DEF ProxyInv
<1>5. Spawn(c) => conn'[c] \in {"dialing", "closed"}
  BY DEF Spawn, ProxyInv, TypeOK
<1>6. Dial(c) => conn'[c] \in {"starting", "closed"}
  BY DEF Dial, ProxyInv, TypeOK
<1>7. QED
  BY <1>1, <1>2, <1>3, <1>4, <1>5, <1>6

(* The threads of a connection.                                            *)
LEMMA InvPipes ==
  ASSUME ProxyInv, NEW k \in Keys, PipeStep(k)
  PROVE  ProxyInv'
<1>1. CASE PipeReads(k)
  BY <1>1, Pairs DEF PipeReads, ProxyInv, TypeOK, Opening, Closing, Reason, Conserved,
     Ended, Sum, listenVars, endVars
<1>2. CASE PipeEnds(k)
  BY <1>2, Pairs DEF PipeEnds, ProxyInv, TypeOK, Opening, Closing, Reason, Conserved,
     Ended, Sum, listenVars, endVars, dataVars
<1>3. CASE PipeSends(k)
  BY <1>3, Pairs DEF PipeSends, ProxyInv, TypeOK, Opening, Closing, Reason, Conserved,
     Ended, Sum, listenVars, endVars
<1>4. CASE PipeBreaks(k)
  BY <1>4, Pairs DEF PipeBreaks, ProxyInv, TypeOK, Opening, Closing, Reason, Conserved,
     Ended, Sum, listenVars, endVars
<1>5. CASE PipeCloses(k)
  <2>1. PICK j \in {k, Peer(k)} :
          /\ Closed({j})
          /\ pipe' = [pipe EXCEPT ![k] = IF j = k THEN "closing" ELSE "done"]
          /\ pipe[k] = IF j = k THEN "ending" ELSE "closing"
          /\ UNCHANGED <<listenVars, conn, ends, sent, hold, got>>
    BY <1>5, Pairs DEF PipeCloses
  <2>2. Emptied({j})
    BY <2>1, ClosedQueues, Pairs DEF ProxyInv
  <2>3. TypeOK'
    <3>1. sock' \in [Keys -> {"none", "open", "closed"}] /\ inq' \in [Keys -> Nat] /\ outq' \in [Keys -> Nat]
      BY <2>2 DEF Emptied
    <3>2. \A x \in Keys : pipe'[x] # "none" => pipe[x] # "none"
      BY <2>1 DEF ProxyInv, TypeOK
    <3>3. \A x \in Keys : pipe'[x] # "none" => sock'[x] # "none" /\ sock'[Peer(x)] # "none"
      BY <2>1, <2>2, <3>2, ClosedSums, Pairs DEF ProxyInv, TypeOK
    <3>4. QED
      BY <2>1, <3>1, <3>3 DEF ProxyInv, TypeOK, listenVars
  <2>4. Opening'
    <3>1. conn[k[1]] \in {"relayed", "oneway"}
      BY <2>1, Pairs DEF ProxyInv, Opening
    <3>2. \A d \in Conns, e \in Ends : d # k[1] => sock'[<<d, e>>] = sock[<<d, e>>]
      BY <2>1, <2>2, Pairs DEF Emptied
    <3>3. \A x \in Keys : outq[x] = 0 => outq'[x] = 0
      BY <2>2 DEF Emptied
    <3>4. QED
      BY <2>1, <3>1, <3>2, <3>3, Pairs DEF ProxyInv, TypeOK, Opening, Ends
  <2>5. Closing'
    BY <2>1, <2>2, Pairs DEF ProxyInv, TypeOK, Closing, Emptied
  <2>6. Reason'
    BY <2>1, <2>2, Pairs DEF ProxyInv, TypeOK, Reason, Ended, Emptied
  <2>7. Conserved'
    BY <2>1, <2>2, Pairs DEF ProxyInv, TypeOK, Conserved, Ended, Sum, Emptied
  <2>8. QED
    BY <2>3, <2>4, <2>5, <2>6, <2>7 DEF ProxyInv
<1>6. QED
  BY <1>1, <1>2, <1>3, <1>4, <1>5 DEF PipeStep

(* Every step preserves the invariant.                                     *)
LEMMA InvStep == ProxyInv /\ [Next]_vars => ProxyInv'
<1> SUFFICES ASSUME ProxyInv, [Next]_vars PROVE ProxyInv'
  OBVIOUS
<1>1. CASE LoopChecks \/ AcceptTimesOut \/ AcceptFails \/ LoopCloses \/ Stop \/ StopStep
  BY <1>1, InvListen
<1>2. CASE \E c \in Conns : Accept(c) \/ ClientConnects(c)
  BY <1>2, InvClient
<1>3. CASE \E c \in Conns : Spawn(c) \/ Dial(c) \/ StartPipes(c)
  BY <1>3, InvConnection
<1>4. CASE \E k \in Keys : EndStep(k)
  BY <1>4, InvEndSends, InvEnds DEF EndStep
<1>5. CASE \E k \in Keys : PipeStep(k)
  BY <1>5, InvPipes
<1>6. CASE UNCHANGED vars
  BY <1>6 DEF vars, listenVars, endVars, dataVars, ProxyInv, TypeOK, Opening, Closing, Reason,
     Conserved, Ended, Sum
<1>7. QED
  BY <1>1, <1>2, <1>3, <1>4, <1>5, <1>6 DEF Next, LoopStep

(* The state of the proxy has its types, for any number of connections.    *)
THEOREM ProxyTypeCorrect == Spec => []TypeOK
<1>1. ProxyInv => TypeOK
  BY DEF ProxyInv
<1>2. QED
  BY <1>1, InvInit, InvStep, PTL DEF Spec
-----------------------------------------------------------------------------
(* Relay's view of the state, and what it allows to be lost.               *)
Refused == {c \in Conns : conn[c] \in {"refused", "closed"}}
Loss(k) ==
  \/ conn[k[1]] \in {"refused", "closed"}
  \/ ends[Peer(k)] # "open"
  \/ ends[k] # "open" /\ sent[Peer(k)] > 0
DueKeeps(k) == Due(k)' = Due(k) \/ (Loss(k)' /\ Due(k)' \in got[k]..Due(k))

(* What arrives has arrived, or is under way.                              *)
LEMMA DueBounds ==
  ASSUME ProxyInv, NEW k \in Keys
  PROVE  /\ Due(k) \in Nat /\ got[k] <= Due(k) /\ Due(k) <= Sum(k)
         /\ ends[Peer(k)] # "gone" => got[k] + outq[k] <= Due(k)
BY Pairs DEF ProxyInv, TypeOK, Due, Sum

(* Relay names the directions as the proxy does.                           *)
LEMMA AbstractKeys ==
  /\ Abstract!Keys = Keys
  /\ \A k \in Keys : Abstract!Peer(k) = Peer(k)
BY DEF Abstract!Keys, Abstract!Ends, Abstract!Peer, Keys, Ends, Peer

(* Where each direction keeps what it must, Relay may lose the rest.       *)
LEMMA AbstractLosses ==
  ASSUME ProxyInv, ProxyInv', \A k \in Keys : DueKeeps(k)
  PROVE  Abstract!Losses
<1>1. \A k \in Keys : Loss(k)' => Abstract!MayLose(k)'
  BY AbstractKeys, Pairs DEF Loss, Abstract!MayLose, ProxyInv, TypeOK
<1>2. \A k \in Keys : Abstract!Keeps(k)
  BY <1>1 DEF DueKeeps, Abstract!Keeps
<1>3. [k \in Keys |-> Due(k)]' \in [Keys -> Nat]
  BY Pairs DEF ProxyInv, TypeOK, Due
<1>4. QED
  BY <1>2, <1>3, AbstractKeys DEF Abstract!Losses

(* Steps that Relay does not see.                                          *)
Silent ==
  /\ UNCHANGED <<sent, got, ends>>
  /\ Refused' = Refused
  /\ \A k \in Keys : Due(k)' = Due(k)

(* They leave its variables as they are.                                   *)
LEMMA SilentSteps ==
  ASSUME ProxyInv, Silent
  PROVE  UNCHANGED Abstract!vars
<1>1. [k \in Keys |-> Due(k)]' = [k \in Keys |-> Due(k)]
  BY DEF Silent
<1>2. {k \in Keys : ends[k] # "open"}' = {k \in Keys : ends[k] # "open"}
  BY DEF Silent
<1>3. QED
  BY <1>1, <1>2 DEF Silent, Refused, Abstract!vars

(* The listening thread, and stop, but for the listener it closes.         *)
LEMMA SilentListen ==
  ASSUME ProxyInv, LoopChecks \/ AcceptTimesOut \/ AcceptFails \/ Stop \/ StopJoins
  PROVE  Silent
BY DEF LoopChecks, AcceptTimesOut, AcceptFails, Stop, StopJoins, Silent, Refused, Due,
   endVars, dataVars

(* A connection that is accepted and put through.                          *)
LEMMA SilentConnection ==
  ASSUME ProxyInv, NEW c \in Conns,
         \/ Accept(c) \/ ClientConnects(c)
         \/ (Spawn(c) \/ Dial(c) \/ StartPipes(c)) /\ conn'[c] # "closed"
  PROVE  Silent
<1>1. Refused' = Refused /\ UNCHANGED <<sent, got, ends, hold, outq, inq>>
  <2>1. UNCHANGED <<sent, got, ends, hold, outq, inq>>
    <3>1. CASE Accept(c) \/ ClientConnects(c)
      BY <3>1 DEF Accept, ClientConnects, dataVars, endVars
    <3>2. CASE Spawn(c) /\ conn'[c] # "closed"
      BY <3>2 DEF Spawn, ProxyInv, TypeOK, dataVars, endVars
    <3>3. CASE Dial(c) /\ conn'[c] # "closed"
      BY <3>3 DEF Dial, ProxyInv, TypeOK, dataVars
    <3>4. CASE StartPipes(c) /\ conn'[c] # "closed"
      BY <3>4 DEF StartPipes, ProxyInv, TypeOK, dataVars, Ends
    <3>5. QED
      BY <3>1, <3>2, <3>3, <3>4
  <2>2. /\ conn[c] \notin {"refused", "closed"} /\ conn'[c] \notin {"refused", "closed"}
        /\ \A d \in Conns : d # c => conn'[d] = conn[d]
    BY DEF Accept, ClientConnects, Spawn, Dial, StartPipes, ProxyInv, TypeOK
  <2>3. QED
    BY <2>1, <2>2 DEF Refused
<1>2. \A k \in Keys : sock'[k] = "closed" <=> sock[k] = "closed"
  BY Pairs DEF Accept, ClientConnects, Spawn, Dial, StartPipes, ProxyInv, TypeOK, Opening,
     dataVars, endVars, Ends
<1>3. \A k \in Keys : Ended(k)' <=> Ended(k)
  BY Pairs DEF Accept, ClientConnects, Spawn, Dial, StartPipes, ProxyInv, TypeOK, Opening,
     Ended, dataVars, endVars, Ends
<1>4. QED
  BY <1>1, <1>2, <1>3, Pairs DEF Silent, Due, Ended

(* A chunk on its way through a thread, and the end of its stream.         *)
LEMMA SilentPipes ==
  ASSUME ProxyInv, NEW k \in Keys, PipeReads(k) \/ PipeEnds(k) \/ PipeSends(k)
  PROVE  Silent
<1>1. CASE PipeReads(k)
  BY <1>1, Pairs DEF PipeReads, ProxyInv, TypeOK, Conserved, Silent, Refused, Due, listenVars, endVars
<1>2. CASE PipeEnds(k)
  BY <1>2, Pairs DEF PipeEnds, ProxyInv, TypeOK, Closing, Conserved, Silent, Refused, Due,
     listenVars, endVars, dataVars
<1>3. CASE PipeSends(k)
  BY <1>3, Pairs DEF PipeSends, ProxyInv, TypeOK, Closing, Conserved, Silent, Refused, Due,
     listenVars, endVars
<1>4. QED
  BY <1>1, <1>2, <1>3

(* Connections are refused: those nobody accepted, and one that is given up.*)
LEMMA RefusesQueued ==
  ASSUME ProxyInv, ProxyInv', LoopCloses \/ StopCloses
  PROVE  \E cs \in SUBSET Conns : Abstract!Refuse(cs)
<1>0. PICK cs \in SUBSET Conns : cs = {c \in Conns : conn[c] = "queued"}
  OBVIOUS
<1>1. /\ conn' = [c \in Conns |-> IF conn[c] = "queued" THEN "refused" ELSE conn[c]]
      /\ UNCHANGED <<endVars, pipe, dataVars>>
  BY DEF LoopCloses, StopCloses, ListenerClosed
<1>2. Refused' = Refused \cup cs
  BY <1>0, <1>1 DEF Refused
<1>3. \A k \in Keys : k[1] \in cs => got[k] = 0
  BY <1>0 DEF ProxyInv, Opening
<1>4. Abstract!Losses
  <2>1. \A k \in Keys : DueKeeps(k)
    BY <1>1 DEF DueKeeps, Due, endVars, dataVars
  <2>2. QED
    BY <2>1, AbstractLosses
<1>5. UNCHANGED <<sent, got, {k \in Keys : ends[k] # "open"}>>
  BY <1>1 DEF endVars, dataVars
<1>6. Abstract!Refuse(cs)
  BY <1>2, <1>3, <1>4, <1>5, AbstractKeys DEF Refused, Abstract!Refuse
<1>7. QED
  BY <1>6

(* The connection that Spawn, Dial or StartPipes gives up.                 *)
LEMMA GivesUp ==
  ASSUME ProxyInv, ProxyInv', NEW c \in Conns,
         (Spawn(c) \/ Dial(c) \/ StartPipes(c)) /\ conn'[c] = "closed"
  PROVE  Abstract!Refuse({c})
<1>1. PICK ks \in SUBSET {<<c, e>> : e \in Ends} : Closed(ks)
  BY DEF Spawn, Dial, StartPipes, ProxyInv, TypeOK, Ends
<1>2. /\ conn[c] \notin {"relayed", "oneway"} /\ conn' = [conn EXCEPT ![c] = "closed"]
      /\ UNCHANGED <<ends, sent, hold, got>>
  BY DEF Spawn, Dial, StartPipes, ProxyInv, TypeOK, listenVars
<1>3. \A k \in Keys : k[1] = c => pipe[k] = "none"
  BY <1>2 DEF ProxyInv, Opening
<1>4. \A k \in Keys : Ended(k)' <=> Ended(k)
  BY <1>3, Pairs DEF Spawn, Dial, StartPipes, ProxyInv, TypeOK, Ended, Ends
<1>5. Emptied(ks)
  BY <1>1, ClosedQueues, Pairs DEF ProxyInv
<1>6. \A k \in Keys : DueKeeps(k)
  <2>1. ASSUME NEW k \in Keys, k[1] # c PROVE DueKeeps(k)
    BY <2>1, <1>1, <1>2, <1>4, <1>5, Pairs DEF DueKeeps, Due, Emptied, Ended
  <2>2. ASSUME NEW k \in Keys, k[1] = c PROVE DueKeeps(k)
    <3>1. Loss(k)'
      BY <2>2, <1>2 DEF Loss, ProxyInv, TypeOK
    <3>2. Due(k)' \in got[k]..Due(k)
      BY <2>2, <1>1, <1>2, <1>4, <1>5, Pairs DEF Due, Emptied, Ended, ProxyInv, TypeOK
    <3>3. QED
      BY <3>1, <3>2 DEF DueKeeps
  <2>3. QED
    BY <2>1, <2>2
<1>7. Abstract!Losses
  BY <1>6, AbstractLosses
<1>8. \A k \in Keys : k[1] \in {c} => got[k] = 0
  BY <1>3 DEF ProxyInv, Opening
<1>9. Refused' = Refused \cup {c}
  BY <1>2 DEF Refused, ProxyInv, TypeOK
<1>10. UNCHANGED <<sent, got, {k \in Keys : ends[k] # "open"}>>
  BY <1>2
<1>11. QED
  BY <1>7, <1>8, <1>9, <1>10, AbstractKeys DEF Refused, Abstract!Refuse

(* A thread that gives up, or closes its sockets, loses what it may lose.  *)
LEMMA LosesBroken ==
  ASSUME ProxyInv, ProxyInv', NEW k \in Keys, PipeBreaks(k)
  PROVE  Abstract!Lose
<1>1. \A j \in Keys : Due(j)' = Due(j)
  BY Pairs DEF PipeBreaks, ProxyInv, TypeOK, Closing, Conserved, Due, listenVars, endVars
<1>2. Abstract!Losses
  BY <1>1, AbstractLosses DEF DueKeeps
<1>3. UNCHANGED <<sent, got, {j \in Keys : ends[j] # "open"}, Refused>>
  BY DEF PipeBreaks, endVars, Refused
<1>4. QED
  BY <1>2, <1>3 DEF Refused, Abstract!Lose

(* The sockets it closes: what the other direction still held.             *)
LEMMA LosesClosed ==
  ASSUME ProxyInv, ProxyInv', NEW k \in Keys, PipeCloses(k)
  PROVE  Abstract!Lose
<1>1. PICK j \in {k, Peer(k)} :
        /\ Closed({j})
        /\ pipe' = [pipe EXCEPT ![k] = IF j = k THEN "closing" ELSE "done"]
        /\ pipe[k] = IF j = k THEN "ending" ELSE "closing"
        /\ UNCHANGED <<listenVars, conn, ends, sent, hold, got>>
  BY Pairs DEF PipeCloses
<1>2. Emptied({j})
  BY <1>1, ClosedQueues, Pairs DEF ProxyInv
<1>3. \A x \in Keys : Ended(x)' <=> Ended(x)
  BY <1>1 DEF Ended, ProxyInv, TypeOK
<1>4. \A x \in Keys : DueKeeps(x)
  <2>1. ASSUME NEW x \in Keys, x # k, x # Peer(k) PROVE DueKeeps(x)
    BY <2>1, <1>1, <1>2, <1>3, Pairs DEF DueKeeps, Due, Emptied, Ended
  <2>2. CASE j = k
    <3>1. Due(k)' = Due(k)
      BY <2>2, <1>1, <1>2, <1>3, Pairs DEF Due, Emptied, Ended
    <3>2. Due(Peer(k))' \in got[Peer(k)]..Due(Peer(k))
      BY <2>2, <1>1, <1>2, <1>3, Pairs DEF Due, Emptied, Ended, ProxyInv, TypeOK
    <3>3. Due(Peer(k))' # Due(Peer(k)) => Loss(Peer(k))'
      <4>1. CASE sock[k] = "closed"
        BY <4>1, <2>2, <1>1, <1>2, <1>3, Pairs DEF Due, Emptied, Ended
      <4>2. CASE sock[k] # "closed"
        BY <4>2, <2>2, <1>1, Pairs DEF Loss, Ended, ProxyInv, TypeOK, Reason
      <4>3. QED
        BY <4>1, <4>2
    <3>4. QED
      BY <3>1, <3>2, <3>3, <2>1, Pairs DEF DueKeeps
  <2>3. CASE j = Peer(k)
    <3>1. sock[k] = "closed"
      BY <2>3, <1>1, Pairs DEF ProxyInv, Closing
    <3>2. Due(Peer(k))' = Due(Peer(k))
      BY <2>3, <3>1, <1>1, <1>2, <1>3, Pairs DEF Due, Emptied, Ended
    <3>3. Due(k)' \in got[k]..Due(k)
      BY <2>3, <1>1, <1>2, <1>3, Pairs DEF Due, Emptied, Ended, ProxyInv, TypeOK
    <3>4. Due(k)' # Due(k) => inq[Peer(k)] > 0
      BY <2>3, <1>1, <1>2, <1>3, Pairs DEF Due, Emptied, Ended
    <3>5. inq[Peer(k)] > 0 => sent[Peer(k)] > 0
      BY Pairs DEF ProxyInv, TypeOK, Conserved, Sum
    <3>6. Due(k)' # Due(k) => Loss(k)'
      BY <3>1, <3>4, <3>5, <1>1, Pairs DEF Loss, ProxyInv, Reason
    <3>7. QED
      BY <3>2, <3>3, <3>6, <2>1, Pairs DEF DueKeeps
  <2>4. QED
    BY <2>1, <2>2, <2>3
<1>5. Abstract!Losses
  BY <1>4, AbstractLosses
<1>6. UNCHANGED <<sent, got, {x \in Keys : ends[x] # "open"}, Refused>>
  BY <1>1 DEF Refused
<1>7. QED
  BY <1>5, <1>6 DEF Refused, Abstract!Lose

(* The ends send, stop sending, leave and read.                            *)
LEMMA Sends ==
  ASSUME ProxyInv, ProxyInv', NEW k \in Keys, EndSends(k)
  PROVE  Abstract!Send(k)
<1>1. /\ sent' = [sent EXCEPT ![k] = @ + 1] /\ ends[k] = "open"
      /\ UNCHANGED <<conn, ends, sock, pipe, hold, got>>
  BY DEF EndSends, endVars
<1>2. UNCHANGED <<got, {x \in Keys : ends[x] # "open"}, Refused>>
  BY <1>1 DEF Refused
<1>3. CASE sock[k] # "closed"
  <2>1. inq' = [inq EXCEPT ![k] = @ + 1] /\ outq' = outq
    BY <1>3 DEF EndSends
  <2>2. \A x \in Keys : x # k => Due(x)' = Due(x)
    BY <2>1, <1>1 DEF Due
  <2>3. CASE Due(k)' = Due(k)
    <3>1. Loss(k)
      <4>1. ends[Peer(k)] = "gone" \/ Ended(k) \/ sock[Peer(k)] = "closed"
        BY <2>3, <2>1, <1>1, <1>3, Pairs DEF Due, Ended, ProxyInv, TypeOK
      <4>2. QED
        BY <4>1, <1>1, Pairs DEF Loss, ProxyInv, Reason
    <3>2. Abstract!MayLose(k)
      BY <3>1, AbstractKeys, Pairs DEF Loss, Abstract!MayLose, ProxyInv, TypeOK
    <3>3. Abstract!Losses
      BY <2>2, <2>3, AbstractLosses DEF DueKeeps
    <3>4. QED
      BY <3>2, <3>3, <1>1, <1>2, AbstractKeys DEF Refused, Abstract!Send
  <2>4. CASE Due(k)' # Due(k)
    <3>1. Due(k) = sent[k] /\ Due(k)' = Due(k) + 1
      BY <2>4, <2>1, <1>1, <1>3, Pairs DEF Due, ProxyInv, TypeOK, Conserved, Ended, Sum
    <3>2. [x \in Keys |-> Due(x)]' = [[x \in Keys |-> Due(x)] EXCEPT ![k] = @ + 1]
      BY <2>2, <3>1
    <3>3. QED
      BY <3>1, <3>2, <1>1, <1>2, AbstractKeys DEF Refused, Abstract!Send
  <2>5. QED
    BY <2>3, <2>4
<1>4. CASE sock[k] = "closed"
  <2>1. PICK left \in {0, outq[Peer(k)]} : outq' = [outq EXCEPT ![Peer(k)] = left]
    BY <1>4 DEF EndSends
  <2>2. inq' = inq
    BY <1>4 DEF EndSends
  <2>3. Loss(k)
    BY <1>1, <1>4 DEF Loss, ProxyInv, Reason
  <2>4. Loss(Peer(k))'
    BY <1>1, <1>4, Pairs DEF Loss, ProxyInv, TypeOK, Reason
  <2>5. \A x \in Keys : DueKeeps(x)
    <3>1. \A x \in Keys : x # Peer(k) => Due(x)' = Due(x)
      BY <2>1, <2>2, <1>1, Pairs DEF Due
    <3>2. Due(Peer(k))' \in got[Peer(k)]..Due(Peer(k))
      BY <2>1, <2>2, <1>1, <1>4, Pairs DEF Due, ProxyInv, TypeOK
    <3>3. QED
      BY <3>1, <3>2, <2>4 DEF DueKeeps
  <2>6. Abstract!MayLose(k)
    BY <2>3, AbstractKeys, Pairs DEF Loss, Abstract!MayLose, ProxyInv, TypeOK
  <2>7. Abstract!Losses
    BY <2>5, AbstractLosses
  <2>8. QED
    BY <2>6, <2>7, <1>1, <1>2, AbstractKeys DEF Refused, Abstract!Send
<1>5. QED
  BY <1>3, <1>4

(* An end that finishes, or leaves what it was sent unread.                *)
LEMMA StopsSending ==
  ASSUME ProxyInv, ProxyInv', NEW k \in Keys, EndFinishes(k) \/ EndLeaves(k)
  PROVE  Abstract!End(k)
<1>1. /\ ends' \in {[ends EXCEPT ![k] = "finished"], [ends EXCEPT ![k] = "gone"]}
      /\ UNCHANGED <<conn, sock, pipe, sent, hold, got>>
  BY DEF EndFinishes, EndLeaves, dataVars
<1>2. {x \in Keys : ends[x] # "open"}' = {x \in Keys : ends[x] # "open"} \cup {k}
  BY <1>1 DEF ProxyInv, TypeOK
<1>3. \A x \in Keys : DueKeeps(x)
  <2>1. CASE EndFinishes(k)
    BY <2>1, Pairs DEF EndFinishes, DueKeeps, Due, ProxyInv, TypeOK, dataVars
  <2>2. CASE EndLeaves(k)
    <3>1. \A x \in Keys : x # k /\ x # Peer(k) => Due(x)' = Due(x)
      BY <2>2, Pairs DEF EndLeaves, Due
    <3>2. Loss(Peer(k))'
      BY <2>2, Pairs DEF EndLeaves, Loss, ProxyInv, TypeOK
    <3>3. Due(Peer(k))' \in got[Peer(k)]..Due(Peer(k))
      BY <2>2, DueBounds, Pairs DEF EndLeaves, Due, ProxyInv, TypeOK
    <3>4. Due(k)' # Due(k) => outq[Peer(k)] > 0
      BY <2>2, Pairs DEF EndLeaves, Due, ProxyInv, TypeOK
    <3>5. outq[Peer(k)] > 0 => Loss(k)'
      BY <2>2, Pairs DEF EndLeaves, Loss, ProxyInv, TypeOK, Conserved, Sum
    <3>6. Due(k)' \in got[k]..Due(k)
      BY <2>2, Pairs DEF EndLeaves, Due, ProxyInv, TypeOK
    <3>7. QED
      BY <3>1, <3>2, <3>3, <3>4, <3>5, <3>6 DEF DueKeeps
  <2>3. QED
    BY <2>1, <2>2
<1>4. Abstract!Losses
  BY <1>3, AbstractLosses
<1>5. QED
  BY <1>1, <1>2, <1>4 DEF Abstract!End

(* What an end reads was due.                                              *)
LEMMA Arrives ==
  ASSUME ProxyInv, ProxyInv', NEW k \in Keys, EndReads(k)
  PROVE  Abstract!Arrive(Peer(k))
<1>1. \A x \in Keys : Due(x)' = Due(x)
  BY Pairs DEF EndReads, Due, ProxyInv, TypeOK, listenVars, endVars
<1>2. got'[Peer(k)] \in (got[Peer(k)] + 1)..Due(Peer(k))
  BY DueBounds, Pairs DEF EndReads, ProxyInv, TypeOK
<1>3. \A x \in Keys \ {Peer(k)} : got'[x] = got[x]
  BY Pairs DEF EndReads, ProxyInv, TypeOK
<1>4. [x \in Keys |-> Due(x)]' = [x \in Keys |-> Due(x)]
  BY <1>1
<1>5. UNCHANGED <<sent, {x \in Keys : ends[x] # "open"}, Refused>>
  BY DEF EndReads, endVars, listenVars, Refused
<1>6. got' \in [Keys -> Nat]
  BY DEF ProxyInv, TypeOK
<1>7. QED
  BY <1>2, <1>3, <1>4, <1>5, <1>6, AbstractKeys, Pairs DEF Refused, Abstract!Arrive

(* At first nothing was sent, on either view.                              *)
LEMMA RelayInit == Init => Abstract!Init
<1> SUFFICES ASSUME Init PROVE Abstract!Init
  OBVIOUS
<1>1. \A k \in Keys : Due(k) = 0
  BY Pairs DEF Init, Due
<1>2. [k \in Keys |-> Due(k)] = [k \in Keys |-> 0]
  BY <1>1
<1>3. {k \in Keys : ends[k] # "open"} = {} /\ Refused = {}
  BY DEF Init, Refused
<1>4. sent = [k \in Keys |-> 0] /\ got = [k \in Keys |-> 0]
  BY DEF Init
<1>5. QED
  BY <1>2, <1>3, <1>4, AbstractKeys DEF Refused, Abstract!Init

(* Every step of the proxy is one of Relay, or leaves its variables alone. *)
LEMMA RelayStep ==
  ProxyInv /\ ProxyInv' /\ [Next]_vars => [Abstract!Next]_(Abstract!vars)
<1> SUFFICES ASSUME ProxyInv, ProxyInv', [Next]_vars
             PROVE  Abstract!Next \/ UNCHANGED Abstract!vars
  OBVIOUS
<1>1. CASE LoopChecks \/ AcceptTimesOut \/ AcceptFails \/ Stop \/ StopJoins
  BY <1>1, SilentListen, SilentSteps
<1>2. CASE LoopCloses \/ StopCloses
  BY <1>2, RefusesQueued DEF Abstract!Next
<1>3. CASE \E c \in Conns :
             \/ Accept(c) \/ ClientConnects(c)
             \/ (Spawn(c) \/ Dial(c) \/ StartPipes(c)) /\ conn'[c] # "closed"
  BY <1>3, SilentConnection, SilentSteps
<1>4. CASE \E c \in Conns : (Spawn(c) \/ Dial(c) \/ StartPipes(c)) /\ conn'[c] = "closed"
  <2>1. PICK c \in Conns : Abstract!Refuse({c})
    BY <1>4, GivesUp
  <2>2. {c} \in SUBSET Conns
    OBVIOUS
  <2>3. QED
    BY <2>1, <2>2 DEF Abstract!Next
<1>5. CASE \E k \in Keys : EndStep(k)
  <2>1. PICK k \in Keys : EndStep(k)
    BY <1>5
  <2>2. CASE EndSends(k)
    BY <2>2, Sends, AbstractKeys DEF Abstract!Next
  <2>3. CASE EndFinishes(k) \/ EndLeaves(k)
    BY <2>3, StopsSending, AbstractKeys DEF Abstract!Next
  <2>4. CASE EndReads(k)
    BY <2>4, Arrives, AbstractKeys, Pairs DEF Abstract!Next
  <2>5. QED
    BY <2>1, <2>2, <2>3, <2>4 DEF EndStep
<1>6. CASE \E k \in Keys : PipeReads(k) \/ PipeEnds(k) \/ PipeSends(k)
  BY <1>6, SilentPipes, SilentSteps
<1>7. CASE \E k \in Keys : PipeBreaks(k) \/ PipeCloses(k)
  BY <1>7, LosesBroken, LosesClosed DEF Abstract!Next
<1>8. CASE UNCHANGED vars
  BY <1>8, SilentSteps DEF vars, listenVars, endVars, dataVars, Silent, Refused, Due
<1>9. QED
  BY <1>1, <1>2, <1>3, <1>4, <1>5, <1>6, <1>7, <1>8
     DEF Next, LoopStep, StopStep, PipeStep

(* The proxy implements Relay, for any number of connections and chunks:   *)
(* nothing a thread closes under the other one is lost where an end is     *)
(* still owed it.                                                          *)
THEOREM ProxyImplementsRelay == Spec => Relays
BY InvInit, InvStep, RelayInit, RelayStep, PTL DEF Spec, Relays, Abstract!Spec
=============================================================================
