------------------------- MODULE ExecStream_proofs -------------------------
(***************************************************************************)
(* Proofs about ExecStream: what a client of an exec session gets and what *)
(* a session leaves behind, for any request, any number of outputs and any *)
(* amount of data.                                                         *)
(***************************************************************************)
EXTENDS ExecStream, SequenceTheorems, TLAPS

Early == {"idle", "looking", "notfound", "streams", "starting"}
Ending == {"closing", "leaving", "over"}

(* A stage of the handler says what has happened: whether the process was  *)
(* started, whether it has ended, where the handler raised.                *)
Stages ==
  /\ request # "consumed" => handler = "idle" /\ client = "away"
  /\ handler \notin Ending \cup {"failing"} => cause = "none"
  /\ handler = "failing" => cause # "none"
  /\ handler \in Early \/ cause \in {"streams", "start"} => proc = "none"
  /\ handler \in {"first", "waiting", "joining", "status"} => proc # "none"
  /\ handler \in {"joining", "status"} => proc = "ended"
  /\ cause = "status" => proc \in {"none", "ended"}
  /\ cause \in {"first", "threads"} => proc # "none"

(* Nothing but the finally clause and the end of the client's stream close *)
(* the socket; a command is started only when its streams are open.        *)
Socket ==
  /\ closed => Gone \/ shut
  /\ shut \/ finished => stop
  /\ stop => handler \in Ending
  /\ req.spdy /\ (handler = "starting" \/ proc # "none" \/ cause = "start")
       => {"error", "others"} \subseteq opened

(* After the join an output's thread is done or the handler has given it   *)
(* up, unless the threads could not all be started.                        *)
Copying ==
  /\ handler \in Early \cup {"first"} \/ proc = "none" \/ cause = "first" =>
       \A o \in Outs : out[o] = "none"
  /\ \A o \in Outs : out[o] # "none" => o \in Threads
  /\ handler \notin Ending \cup {"status", "failing"} => late = {}
  /\ handler \in Ending \cup {"status", "failing"} /\ cause # "threads" =>
       \A o \in Outs : out[o] \in {"none", "done"} \/ o \in late
  /\ handler \in Ending \cup {"status"} /\ cause = "none" /\ proc # "none" =>
       \A o \in Threads \ late : out[o] = "done"

(* What was written is in the pipe, in a thread's hands or with the client,*)
(* as long as there is a client and the session is not being stopped.      *)
Delivered ==
  /\ \A o \in Outs :
       /\ got[o] + hold[o] + pipe[o] <= wrote[o]
       /\ out[o] \notin {"holding", "sending"} => hold[o] = 0
       /\ ~Gone /\ ~stop => got[o] + hold[o] + pipe[o] = wrote[o]
       /\ ~Gone /\ cause = "none" /\ out[o] = "done" /\ o \notin late => got[o] = wrote[o]
  /\ trailing # {} => statuses > 0 \/ finished
  /\ cause # "threads" => trailing \subseteq late

Told ==
  /\ statuses <= 1
  /\ statuses > 0 => handler \in Ending
  /\ handler \in Ending /\ client = "here" /\ (req.spdy => proc # "none" \/ cause = "start")
       => statuses = 1

Stopped ==
  handler \in Ending /\ Alive =>
    (Gone /\ cause \in {"first", "threads"}) \/ signal \in {"kill", "lost"}

(* TypeOK, by what the proofs need of it.                                  *)
QueuesT ==
  /\ script \in Seq({"error", "others", "in", "fin"})
  /\ wire \in Seq({"error", "others", "in", "fin"})
  /\ incoming \in Seq({"in", "fin", "eof"})

ThreadsT ==
  /\ out \in [Outs -> {"none", "reading", "holding", "sending", "done"}]
  /\ late \subseteq Outs /\ trailing \subseteq Outs

ChunksT ==
  /\ wrote \in [Outs -> 0..MaxOut] /\ pipe \in [Outs -> 0..MaxOut]
  /\ hold \in [Outs -> 0..MaxOut] /\ got \in [Outs -> 0..MaxOut]
  /\ statuses \in Nat

ScalarsT ==
  /\ container \in {"running", "gone"}
  /\ request \in {"none", "fresh", "old", "dropped", "consumed"}
  /\ req \in Asked
  /\ client \in {"away", "here", "gone"}
  /\ opened \subseteq {"error", "others"} /\ reader \in {"none", "reading", "done"}
  /\ closed \in BOOLEAN /\ finished \in BOOLEAN /\ shut \in BOOLEAN /\ stop \in BOOLEAN
  /\ proc \in {"none", "forked", "running", "ended"}
  /\ signal \in {"none", "term", "kill", "lost"} /\ heirs \in BOOLEAN
  /\ receiver \in {"none", "reading", "writing", "done"}
  /\ stdin \in {"none", "open", "closed"}
  /\ handler \in {"idle", "looking", "notfound", "streams", "starting", "first", "waiting",
                  "joining", "status", "failing", "closing", "leaving", "over"}
  /\ cause \in {"none", "streams", "start", "first", "threads", "status"}

StreamInv ==
  TypeOK /\ Stages /\ Socket /\ Copying /\ Delivered /\ Told /\ Stopped
-----------------------------------------------------------------------------
(* The parts are all of TypeOK.                                            *)
LEMMA Types ==
  TypeOK <=> QueuesT /\ ThreadsT /\ ChunksT /\ ScalarsT
BY DEF TypeOK, QueuesT, ThreadsT, ChunksT, ScalarsT

(* Output is copied for outputs that were asked for.                       *)
LEMMA ThreadsAreOutputs ==
  ASSUME ScalarsT
  PROVE  Threads \subseteq Outs
BY StreamAssumption DEF ScalarsT, Threads, Requests

(* A client opens its streams, sends its input and ends it.                *)
LEMMA ScriptTypes ==
  ASSUME ScalarsT
  PROVE  Script(req) \in Seq({"error", "others", "in", "fin"})
<1> DEFINE M == {"error", "others", "in", "fin"}
<1>1. [i \in 1..MaxIn |-> "in"] \in Seq(M)
  BY StreamAssumption
<1>2. <<>> \in Seq(M) /\ <<"error", "others">> \in Seq(M) /\ <<"fin">> \in Seq(M)
  OBVIOUS
<1>3. \A a, b \in Seq(M) : a \o b \in Seq(M)
  BY ConcatProperties
<1> HIDE DEF M
<1>4. QED
  BY <1>1, <1>2, <1>3 DEF Script, M

(* The bound on what is written bounds everything that is counted.         *)
LEMMA ChunkBounds ==
  ASSUME ChunksT, Delivered, NEW o \in Outs
  PROVE  /\ got[o] + hold[o] \in 0..MaxOut
         /\ pipe[o] \in 0..wrote[o]
         /\ wrote[o] < MaxOut => wrote[o] + 1 \in 0..MaxOut /\ pipe[o] + 1 \in 0..MaxOut
<1>1. /\ MaxOut \in Nat /\ wrote[o] \in 0..MaxOut /\ pipe[o] \in 0..MaxOut
      /\ got[o] \in 0..MaxOut /\ hold[o] \in 0..MaxOut
  BY StreamAssumption DEF ChunksT
<1>2. got[o] + hold[o] + pipe[o] <= wrote[o]
  BY DEF Delivered
<1>3. QED
  BY <1>1, <1>2
(* What the client sends stays what it may send.                           *)
LEMMA QueuesStep ==
  ASSUME QueuesT, ScalarsT, [Next]_vars
  PROVE  QueuesT'
<1> USE DEF QueuesT, tokenVars, clientVars, spdyVars, socketVars, procVars, dataVars,
            threadVars, stdinVars, handlerVars, seenVars, serverVars
<1>1. CASE TokenStep
  <2>1. CASE Connect
    BY <2>1, ScriptTypes DEF Connect
  <2>2. CASE Exec \/ Age \/ DropExpired \/ ContainerEnds
    BY <2>2 DEF Exec, Age, DropExpired, ContainerEnds
  <2>3. QED
    BY <1>1, <2>1, <2>2 DEF TokenStep
<1>2. CASE ClientStep
  <2>1. CASE ClientSends
    BY <2>1 DEF ClientSends
  <2>2. CASE ClientLeaves
    BY <2>2 DEF ClientLeaves
  <2>3. QED
    BY <1>2, <2>1, <2>2 DEF ClientStep
<1>3. CASE ProcessStep
  <2>1. ASSUME NEW o \in Outs, Writes(o) PROVE QueuesT'
    BY <2>1 DEF Writes
  <2>2. CASE Exits \/ HeirsEnd \/ Reads
    BY <2>2 DEF Exits, HeirsEnd, Reads
  <2>3. QED
    BY <1>3, <2>1, <2>2 DEF ProcessStep
<1>4. CASE ReaderStep
  <2>1. CASE ReaderTakes
    <3>1. /\ Head(wire) \in {"error", "others", "in", "fin"}
          /\ Tail(wire) \in Seq({"error", "others", "in", "fin"})
      BY <2>1, HeadTailProperties DEF ReaderTakes
    <3>2. Head(wire) \in {"in", "fin"} => Append(incoming, Head(wire)) \in Seq({"in", "fin", "eof"})
      BY AppendProperties
    <3>3. QED
      BY <2>1, <3>1, <3>2 DEF ReaderTakes
  <2>2. CASE ReaderEnds
    BY <2>2 DEF ReaderEnds
  <2>3. QED
    BY <1>4, <2>1, <2>2 DEF ReaderStep
<1>5. CASE ReceiverStep
  <2>1. CASE Receives
    BY <2>1, HeadTailProperties DEF Receives
  <2>2. CASE ReceiverEnds \/ ReceiverRaises
    BY <2>2 DEF ReceiverEnds, CloseStdin, Terminated, ReceiverRaises
  <2>3. QED
    BY <1>5, <2>1, <2>2 DEF ReceiverStep
<1>6. CASE HandlerStep
  <2>1. CASE FindContainer \/ WaitForStreams \/ StartExecProcess \/ StartThreads
             \/ WaitProcess \/ JoinOutputs \/ SendStatus \/ Failed \/ FinishStreams
             \/ CloseStream \/ JoinReceiver
    BY <2>1 DEF FindContainer, WaitForStreams, Raise, StartExecProcess, StartThreads,
                WaitProcess, CloseStdin, JoinOutputs, SendStatus, StatusSent, StatusRaises,
                HasErrorStream, Failed, FinishStreams, CloseStream, JoinReceiver
  <2>2. QED
    BY <1>6, <2>1 DEF HandlerStep
<1>7. CASE Setsid
  BY <1>7 DEF Setsid
<1>8. ASSUME NEW o \in Outs, OutStep(o) PROVE QueuesT'
  BY <1>8 DEF OutStep, OutReads, OutEnds, OutChecks, OutSends
<1>9. CASE UNCHANGED vars
  BY <1>9 DEF vars
<1>10. QED
  BY <1>1, <1>2, <1>3, <1>4, <1>5, <1>6, <1>7, <1>8, <1>9
   DEF Next

(* The copying threads and their sets of outputs have their types.        *)
LEMMA ThreadsStep ==
  ASSUME ThreadsT, ScalarsT, [Next]_vars
  PROVE  ThreadsT'
<1> USE DEF ThreadsT, tokenVars, clientVars, spdyVars, socketVars, procVars, dataVars,
            threadVars, stdinVars, handlerVars, seenVars, serverVars
<1>1. CASE TokenStep
  BY <1>1 DEF TokenStep, Exec, Age, DropExpired, ContainerEnds, Connect
<1>2. CASE ClientStep
  BY <1>2 DEF ClientStep, ClientSends, ClientLeaves
<1>3. CASE ProcessStep
  <2>1. ASSUME NEW o \in Outs, Writes(o) PROVE ThreadsT'
    BY <2>1 DEF Writes
  <2>2. CASE Exits \/ HeirsEnd \/ Reads
    BY <2>2 DEF Exits, HeirsEnd, Reads
  <2>3. QED
    BY <1>3, <2>1, <2>2 DEF ProcessStep
<1>4. CASE ReaderStep
  BY <1>4 DEF ReaderStep, ReaderTakes, ReaderEnds
<1>5. CASE ReceiverStep
  BY <1>5 DEF ReceiverStep, Receives, CloseStdin, Looped, ReceiverEnds, Terminated,
              ReceiverRaises
<1>6. CASE HandlerStep
  <2>1. CASE StartThreads
    BY <2>1 DEF StartThreads, Raise
  <2>2. CASE JoinOutputs
    BY <2>2, ThreadsAreOutputs DEF JoinOutputs
  <2>3. CASE FindContainer \/ WaitForStreams \/ StartExecProcess \/ WaitProcess
             \/ SendStatus \/ Failed \/ FinishStreams \/ CloseStream \/ JoinReceiver
    BY <2>3 DEF FindContainer, WaitForStreams, Raise, StartExecProcess, WaitProcess,
                CloseStdin, SendStatus, StatusSent, StatusRaises, HasErrorStream, Failed,
                FinishStreams, CloseStream, JoinReceiver
  <2>4. QED
    BY <1>6, <2>1, <2>2, <2>3 DEF HandlerStep
<1>7. CASE Setsid
  BY <1>7 DEF Setsid
<1>8. ASSUME NEW o \in Outs, OutStep(o) PROVE ThreadsT'
  <2>1. CASE OutReads(o)
    BY <2>1 DEF OutReads
  <2>2. CASE OutEnds(o)
    BY <2>2 DEF OutEnds
  <2>3. CASE OutChecks(o)
    BY <2>3 DEF OutChecks
  <2>4. CASE OutSends(o)
    BY <2>4 DEF OutSends
  <2>5. QED
    BY <1>8, <2>1, <2>2, <2>3, <2>4 DEF OutStep
<1>9. CASE UNCHANGED vars
  BY <1>9 DEF vars
<1>10. QED
  BY <1>1, <1>2, <1>3, <1>4, <1>5, <1>6, <1>7, <1>8, <1>9
   DEF Next

(* So have the variables that are no function or sequence.                 *)
LEMMA ScalarsStep ==
  ASSUME ScalarsT, QueuesT, [Next]_vars
  PROVE  ScalarsT'
<1> USE DEF ScalarsT, Gone, tokenVars, clientVars, spdyVars, socketVars, procVars, dataVars,
            threadVars, stdinVars, handlerVars, seenVars, serverVars
<1>1. CASE TokenStep
  <2>1. CASE Connect
    BY <2>1 DEF Connect
  <2>2. CASE Exec \/ Age \/ DropExpired \/ ContainerEnds
    BY <2>2, ZenonT(60) DEF Exec, Age, DropExpired, ContainerEnds
  <2>3. QED
    BY <1>1, <2>1, <2>2 DEF TokenStep
<1>2. CASE ClientStep
  BY <1>2 DEF ClientStep, ClientSends, ClientLeaves
<1>3. CASE ProcessStep
  <2>1. CASE Exits
    <3>1. heirs' \in BOOLEAN
      BY <2>1, Zenon DEF Exits
    <3>2. QED
      BY <2>1, <3>1 DEF Exits
  <2>2. CASE HeirsEnd
    <3>1. heirs' \in BOOLEAN
      BY <2>2, Zenon DEF HeirsEnd
    <3>2. QED
      BY <2>2, <3>1 DEF HeirsEnd
  <2>3. ASSUME NEW o \in Outs, Writes(o) PROVE ScalarsT'
    BY <2>3 DEF Writes
  <2>4. CASE Reads
    BY <2>4 DEF Reads
  <2>5. QED
    BY <1>3, <2>1, <2>2, <2>3, <2>4 DEF ProcessStep
<1>4. CASE ReaderStep
  <2>1. CASE ReaderTakes
    <3>1. opened' \subseteq {"error", "others"}
      BY <2>1 DEF ReaderTakes
    <3>2. QED
      BY <2>1, <3>1 DEF ReaderTakes
  <2>2. CASE ReaderEnds
    BY <2>2 DEF ReaderEnds
  <2>3. QED
    BY <1>4, <2>1, <2>2 DEF ReaderStep
<1>5. CASE ReceiverStep
  <2>1. CASE Receives
    BY <2>1 DEF Receives, CloseStdin, Looped
  <2>2. CASE ReceiverEnds
    BY <2>2 DEF ReceiverEnds, CloseStdin, Terminated
  <2>3. CASE ReceiverRaises
    BY <2>3 DEF ReceiverRaises
  <2>4. QED
    BY <1>5, <2>1, <2>2, <2>3 DEF ReceiverStep
<1>6. CASE HandlerStep
  <2>1. CASE FindContainer
    BY <2>1 DEF FindContainer
  <2>2. CASE WaitForStreams
    BY <2>2 DEF WaitForStreams, Raise
  <2>3. CASE StartExecProcess
    BY <2>3 DEF StartExecProcess, Raise
  <2>4. CASE StartThreads
    BY <2>4 DEF StartThreads, Raise
  <2>5. CASE WaitProcess
    BY <2>5 DEF WaitProcess, CloseStdin
  <2>6. CASE JoinOutputs
    BY <2>6 DEF JoinOutputs
  <2>7. CASE SendStatus
    BY <2>7 DEF SendStatus, StatusSent, StatusRaises, HasErrorStream, Raise
  <2>8. CASE Failed
    BY <2>8 DEF Failed, StatusSent, StatusRaises, HasErrorStream
  <2>9. CASE FinishStreams
    BY <2>9 DEF FinishStreams
  <2>10. CASE CloseStream
    BY <2>10 DEF CloseStream
  <2>11. CASE JoinReceiver
    BY <2>11 DEF JoinReceiver
  <2>12. QED
    BY <1>6, <2>1, <2>2, <2>3, <2>4, <2>5, <2>6, <2>7, <2>8, <2>9, <2>10, <2>11
     DEF HandlerStep
<1>7. CASE Setsid
  BY <1>7 DEF Setsid
<1>8. ASSUME NEW o \in Outs, OutStep(o) PROVE ScalarsT'
  <2>1. CASE OutReads(o)
    BY <2>1 DEF OutReads
  <2>2. CASE OutEnds(o)
    BY <2>2 DEF OutEnds
  <2>3. CASE OutChecks(o)
    BY <2>3 DEF OutChecks
  <2>4. CASE OutSends(o)
    BY <2>4 DEF OutSends
  <2>5. QED
    BY <1>8, <2>1, <2>2, <2>3, <2>4 DEF OutStep
<1>9. CASE UNCHANGED vars
  BY <1>9 DEF vars
<1>10. QED
  BY <1>1, <1>2, <1>3, <1>4, <1>5, <1>6, <1>7, <1>8, <1>9
   DEF Next

(* No output is counted beyond what was written, and that is bounded.      *)
LEMMA ChunksStep ==
  ASSUME ChunksT, Delivered, [Next]_vars
  PROVE  ChunksT'
<1> USE DEF ChunksT, tokenVars, clientVars, spdyVars, socketVars, procVars, dataVars,
            threadVars, stdinVars, handlerVars, seenVars, serverVars
<1>1. CASE TokenStep
  BY <1>1 DEF TokenStep, Exec, Age, DropExpired, ContainerEnds, Connect
<1>2. CASE ClientStep
  BY <1>2 DEF ClientStep, ClientSends, ClientLeaves
<1>3. CASE ProcessStep
  <2>1. ASSUME NEW o \in Outs, Writes(o) PROVE ChunksT'
    <3>1. wrote[o] + 1 \in 0..MaxOut /\ pipe[o] + 1 \in 0..MaxOut
      BY <2>1, ChunkBounds DEF Writes
    <3>2. QED
      BY <2>1, <3>1 DEF Writes
  <2>2. CASE Exits \/ HeirsEnd \/ Reads
    BY <2>2 DEF Exits, HeirsEnd, Reads
  <2>3. QED
    BY <1>3, <2>1, <2>2 DEF ProcessStep
<1>4. CASE ReaderStep
  BY <1>4 DEF ReaderStep, ReaderTakes, ReaderEnds
<1>5. CASE ReceiverStep
  BY <1>5 DEF ReceiverStep, Receives, CloseStdin, Looped, ReceiverEnds, Terminated,
              ReceiverRaises
<1>6. CASE HandlerStep
  <2>1. CASE SendStatus
    BY <2>1 DEF SendStatus, StatusSent, StatusRaises, HasErrorStream, Raise
  <2>2. CASE Failed
    BY <2>2 DEF Failed, StatusSent, StatusRaises, HasErrorStream
  <2>3. CASE FindContainer \/ WaitForStreams \/ StartExecProcess \/ StartThreads
             \/ WaitProcess \/ JoinOutputs \/ FinishStreams \/ CloseStream \/ JoinReceiver
    BY <2>3 DEF FindContainer, WaitForStreams, Raise, StartExecProcess, StartThreads,
                WaitProcess, CloseStdin, JoinOutputs, FinishStreams, CloseStream,
                JoinReceiver
  <2>4. QED
    BY <1>6, <2>1, <2>2, <2>3 DEF HandlerStep
<1>7. CASE Setsid
  BY <1>7 DEF Setsid
<1>8. ASSUME NEW o \in Outs, OutStep(o) PROVE ChunksT'
  <2>1. CASE OutReads(o)
    <3>1. 0 \in 0..MaxOut /\ pipe[o] \in 0..MaxOut
      BY StreamAssumption
    <3>2. QED
      BY <2>1, <3>1 DEF OutReads
  <2>2. CASE OutChecks(o)
    <3>1. 0 \in 0..MaxOut
      BY StreamAssumption
    <3>2. hold' \in [Outs -> 0..MaxOut]
      BY <2>2, <3>1 DEF OutChecks
    <3>3. QED
      BY <2>2, <3>2 DEF OutChecks
  <2>3. CASE OutSends(o)
    <3>1. 0 \in 0..MaxOut /\ got[o] + hold[o] \in 0..MaxOut
      BY ChunkBounds, StreamAssumption
    <3>2. QED
      BY <2>3, <3>1 DEF OutSends
  <2>4. CASE OutEnds(o)
    BY <2>4 DEF OutEnds
  <2>5. QED
    BY <1>8, <2>1, <2>2, <2>3, <2>4 DEF OutStep
<1>9. CASE UNCHANGED vars
  BY <1>9 DEF vars
<1>10. QED
  BY <1>1, <1>2, <1>3, <1>4, <1>5, <1>6, <1>7, <1>8, <1>9
   DEF Next

(* The stages of the handler.                                              *)
LEMMA StagesStep ==
  ASSUME Stages, [Next]_vars
  PROVE  Stages'
<1> USE DEF Stages, Early, Ending, Gone, tokenVars, clientVars, spdyVars, socketVars,
            procVars, dataVars, threadVars, stdinVars, handlerVars, seenVars, serverVars
<1>1. CASE TokenStep
  <2>1. CASE Connect
    BY <2>1 DEF Connect
  <2>2. CASE Exec \/ Age \/ DropExpired \/ ContainerEnds
    BY <2>2 DEF Exec, Age, DropExpired, ContainerEnds
  <2>3. QED
    BY <1>1, <2>1, <2>2 DEF TokenStep
<1>2. CASE ClientStep
  BY <1>2 DEF ClientStep, ClientSends, ClientLeaves
<1>3. CASE ProcessStep
  <2>1. CASE Exits
    BY <2>1 DEF Exits
  <2>2. ASSUME NEW o \in Outs, Writes(o) PROVE Stages'
    BY <2>2 DEF Writes
  <2>3. CASE HeirsEnd \/ Reads
    BY <2>3 DEF HeirsEnd, Reads
  <2>4. QED
    BY <1>3, <2>1, <2>2, <2>3 DEF ProcessStep
<1>4. CASE ReaderStep
  BY <1>4 DEF ReaderStep, ReaderTakes, ReaderEnds
<1>5. CASE ReceiverStep
  BY <1>5 DEF ReceiverStep, Receives, CloseStdin, Looped, ReceiverEnds, Terminated,
              ReceiverRaises
<1>6. CASE HandlerStep
  <2>1. CASE FindContainer
    BY <2>1 DEF FindContainer
  <2>2. CASE WaitForStreams
    BY <2>2 DEF WaitForStreams, Raise
  <2>3. CASE StartExecProcess
    BY <2>3 DEF StartExecProcess, Raise
  <2>4. CASE StartThreads
    BY <2>4 DEF StartThreads, Raise
  <2>5. CASE WaitProcess
    BY <2>5 DEF WaitProcess, CloseStdin
  <2>6. CASE JoinOutputs
    BY <2>6 DEF JoinOutputs
  <2>7. CASE SendStatus
    BY <2>7 DEF SendStatus, StatusSent, StatusRaises, HasErrorStream, Raise
  <2>8. CASE Failed
    BY <2>8 DEF Failed, StatusSent, StatusRaises, HasErrorStream
  <2>9. CASE FinishStreams
    BY <2>9 DEF FinishStreams
  <2>10. CASE CloseStream
    BY <2>10 DEF CloseStream
  <2>11. CASE JoinReceiver
    BY <2>11 DEF JoinReceiver
  <2>12. QED
    BY <1>6, <2>1, <2>2, <2>3, <2>4, <2>5, <2>6, <2>7, <2>8, <2>9, <2>10, <2>11
     DEF HandlerStep
<1>7. CASE Setsid
  BY <1>7 DEF Setsid
<1>8. ASSUME NEW o \in Outs, OutStep(o) PROVE Stages'
  BY <1>8 DEF OutStep, OutReads, OutEnds, OutChecks, OutSends
<1>9. CASE UNCHANGED vars
  BY <1>9 DEF vars
<1>10. QED
  BY <1>1, <1>2, <1>3, <1>4, <1>5, <1>6, <1>7, <1>8, <1>9
   DEF Next

(* The socket and the streams.                                             *)
LEMMA SocketStep ==
  ASSUME Stages, Socket, [Next]_vars
  PROVE  Socket'
<1> USE DEF Stages, Socket, Early, Ending, Gone, tokenVars, clientVars, spdyVars,
            socketVars, procVars, dataVars, threadVars, stdinVars, handlerVars, seenVars,
            serverVars
<1>1. CASE TokenStep
  <2>1. CASE Connect
    BY <2>1 DEF Connect
  <2>2. CASE Exec \/ Age \/ DropExpired \/ ContainerEnds
    BY <2>2 DEF Exec, Age, DropExpired, ContainerEnds
  <2>3. QED
    BY <1>1, <2>1, <2>2 DEF TokenStep
<1>2. CASE ClientStep
  BY <1>2 DEF ClientStep, ClientSends, ClientLeaves
<1>3. CASE ProcessStep
  <2>1. CASE Exits
    BY <2>1 DEF Exits
  <2>2. ASSUME NEW o \in Outs, Writes(o) PROVE Socket'
    BY <2>2 DEF Writes
  <2>3. CASE HeirsEnd \/ Reads
    BY <2>3 DEF HeirsEnd, Reads
  <2>4. QED
    BY <1>3, <2>1, <2>2, <2>3 DEF ProcessStep
<1>4. CASE ReaderStep
  <2>1. CASE ReaderTakes
    BY <2>1 DEF ReaderTakes
  <2>2. CASE ReaderEnds
    BY <2>2 DEF ReaderEnds
  <2>3. QED
    BY <1>4, <2>1, <2>2 DEF ReaderStep
<1>5. CASE ReceiverStep
  BY <1>5 DEF ReceiverStep, Receives, CloseStdin, Looped, ReceiverEnds, Terminated,
              ReceiverRaises
<1>6. CASE HandlerStep
  <2>1. CASE FindContainer
    BY <2>1 DEF FindContainer
  <2>2. CASE WaitForStreams
    BY <2>2 DEF WaitForStreams, Raise
  <2>3. CASE StartExecProcess
    BY <2>3 DEF StartExecProcess, Raise
  <2>4. CASE StartThreads
    BY <2>4 DEF StartThreads, Raise
  <2>5. CASE WaitProcess
    BY <2>5 DEF WaitProcess, CloseStdin
  <2>6. CASE JoinOutputs
    BY <2>6 DEF JoinOutputs
  <2>7. CASE SendStatus
    BY <2>7 DEF SendStatus, StatusSent, StatusRaises, HasErrorStream, Raise
  <2>8. CASE Failed
    BY <2>8 DEF Failed, StatusSent, StatusRaises, HasErrorStream
  <2>9. CASE FinishStreams
    BY <2>9 DEF FinishStreams
  <2>10. CASE CloseStream
    BY <2>10 DEF CloseStream
  <2>11. CASE JoinReceiver
    BY <2>11 DEF JoinReceiver
  <2>12. QED
    BY <1>6, <2>1, <2>2, <2>3, <2>4, <2>5, <2>6, <2>7, <2>8, <2>9, <2>10, <2>11
     DEF HandlerStep
<1>7. CASE Setsid
  BY <1>7 DEF Setsid
<1>8. ASSUME NEW o \in Outs, OutStep(o) PROVE Socket'
  BY <1>8 DEF OutStep, OutReads, OutEnds, OutChecks, OutSends
<1>9. CASE UNCHANGED vars
  BY <1>9 DEF vars
<1>10. QED
  BY <1>1, <1>2, <1>3, <1>4, <1>5, <1>6, <1>7, <1>8, <1>9
   DEF Next

(* The copying threads and the handler that waits for them.                *)
LEMMA CopyingStep ==
  ASSUME ThreadsT, Stages, Socket, Copying, [Next]_vars
  PROVE  Copying'
<1> USE DEF ThreadsT, Stages, Socket, Copying, Early, Ending, Threads, Gone, tokenVars,
            clientVars, spdyVars, socketVars, procVars, dataVars, threadVars, stdinVars,
            handlerVars, seenVars, serverVars
<1>1. CASE TokenStep
  BY <1>1 DEF TokenStep, Exec, Age, DropExpired, ContainerEnds, Connect
<1>2. CASE ClientStep
  BY <1>2 DEF ClientStep, ClientSends, ClientLeaves
<1>3. CASE ProcessStep
  <2>1. ASSUME NEW o \in Outs, Writes(o) PROVE Copying'
    BY <2>1 DEF Writes
  <2>2. CASE Exits \/ HeirsEnd \/ Reads
    BY <2>2 DEF Exits, HeirsEnd, Reads
  <2>3. QED
    BY <1>3, <2>1, <2>2 DEF ProcessStep
<1>4. CASE ReaderStep
  BY <1>4 DEF ReaderStep, ReaderTakes, ReaderEnds
<1>5. CASE ReceiverStep
  BY <1>5 DEF ReceiverStep, Receives, CloseStdin, Looped, ReceiverEnds, Terminated,
              ReceiverRaises
<1>6. CASE HandlerStep
  <2>1. CASE FindContainer
    BY <2>1 DEF FindContainer
  <2>2. CASE WaitForStreams
    BY <2>2 DEF WaitForStreams, Raise
  <2>3. CASE StartExecProcess
    BY <2>3 DEF StartExecProcess, Raise
  <2>4. CASE StartThreads
    BY <2>4 DEF StartThreads, Raise
  <2>5. CASE WaitProcess
    BY <2>5 DEF WaitProcess, CloseStdin
  <2>6. CASE JoinOutputs
    BY <2>6 DEF JoinOutputs
  <2>7. CASE SendStatus
    BY <2>7 DEF SendStatus, StatusSent, StatusRaises, HasErrorStream, Raise
  <2>8. CASE Failed
    BY <2>8 DEF Failed, StatusSent, StatusRaises, HasErrorStream
  <2>9. CASE FinishStreams
    BY <2>9 DEF FinishStreams
  <2>10. CASE CloseStream
    BY <2>10 DEF CloseStream
  <2>11. CASE JoinReceiver
    BY <2>11 DEF JoinReceiver
  <2>12. QED
    BY <1>6, <2>1, <2>2, <2>3, <2>4, <2>5, <2>6, <2>7, <2>8, <2>9, <2>10, <2>11
     DEF HandlerStep
<1>7. CASE Setsid
  BY <1>7 DEF Setsid
<1>8. ASSUME NEW o \in Outs, OutStep(o) PROVE Copying'
  <2>1. CASE OutReads(o)
    BY <2>1 DEF OutReads
  <2>2. CASE OutEnds(o)
    BY <2>2 DEF OutEnds
  <2>3. CASE OutChecks(o)
    BY <2>3 DEF OutChecks
  <2>4. CASE OutSends(o)
    BY <2>4 DEF OutSends
  <2>5. QED
    BY <1>8, <2>1, <2>2, <2>3, <2>4 DEF OutStep
<1>9. CASE UNCHANGED vars
  BY <1>9 DEF vars
<1>10. QED
  BY <1>1, <1>2, <1>3, <1>4, <1>5, <1>6, <1>7, <1>8, <1>9
   DEF Next

(* Output is neither lost nor sent after the status.                       *)
LEMMA DeliveredStep ==
  ASSUME ThreadsT, ChunksT, Stages, Socket, Copying, Delivered, Told, [Next]_vars
  PROVE  Delivered'
<1> USE DEF ThreadsT, ChunksT, Stages, Socket, Copying, Delivered, Told, Early, Ending,
            Threads, Gone, Abandoned, tokenVars, clientVars, spdyVars, socketVars, procVars,
            dataVars, threadVars, stdinVars, handlerVars, seenVars, serverVars
<1>1. CASE TokenStep
  <2>1. CASE Connect
    BY <2>1 DEF Connect
  <2>2. CASE Exec \/ Age \/ DropExpired \/ ContainerEnds
    BY <2>2 DEF Exec, Age, DropExpired, ContainerEnds
  <2>3. QED
    BY <1>1, <2>1, <2>2 DEF TokenStep
<1>2. CASE ClientStep
  BY <1>2 DEF ClientStep, ClientSends, ClientLeaves
<1>3. CASE ProcessStep
  <2>1. ASSUME NEW o \in Outs, Writes(o) PROVE Delivered'
    BY <2>1 DEF Writes
  <2>2. CASE Exits \/ HeirsEnd \/ Reads
    BY <2>2 DEF Exits, HeirsEnd, Reads
  <2>3. QED
    BY <1>3, <2>1, <2>2 DEF ProcessStep
<1>4. CASE ReaderStep
  BY <1>4 DEF ReaderStep, ReaderTakes, ReaderEnds
<1>5. CASE ReceiverStep
  BY <1>5 DEF ReceiverStep, Receives, CloseStdin, Looped, ReceiverEnds, Terminated,
              ReceiverRaises
<1>6. CASE HandlerStep
  <2>1. CASE FindContainer
    BY <2>1 DEF FindContainer
  <2>2. CASE WaitForStreams
    BY <2>2 DEF WaitForStreams, Raise
  <2>3. CASE StartExecProcess
    BY <2>3 DEF StartExecProcess, Raise
  <2>4. CASE StartThreads
    BY <2>4 DEF StartThreads, Raise
  <2>5. CASE WaitProcess
    BY <2>5 DEF WaitProcess, CloseStdin
  <2>6. CASE JoinOutputs
    BY <2>6 DEF JoinOutputs
  <2>7. CASE SendStatus
    BY <2>7 DEF SendStatus, StatusSent, StatusRaises, HasErrorStream, Raise
  <2>8. CASE Failed
    BY <2>8 DEF Failed, StatusSent, StatusRaises, HasErrorStream
  <2>9. CASE FinishStreams
    BY <2>9 DEF FinishStreams
  <2>10. CASE CloseStream
    BY <2>10 DEF CloseStream
  <2>11. CASE JoinReceiver
    BY <2>11 DEF JoinReceiver
  <2>12. QED
    BY <1>6, <2>1, <2>2, <2>3, <2>4, <2>5, <2>6, <2>7, <2>8, <2>9, <2>10, <2>11
     DEF HandlerStep
<1>7. CASE Setsid
  BY <1>7 DEF Setsid
<1>8. ASSUME NEW o \in Outs, OutStep(o) PROVE Delivered'
  <2>1. CASE OutReads(o)
    BY <2>1 DEF OutReads
  <2>2. CASE OutEnds(o)
    BY <2>2 DEF OutEnds
  <2>3. CASE OutChecks(o)
    BY <2>3 DEF OutChecks
  <2>4. CASE OutSends(o)
    BY <2>4 DEF OutSends
  <2>5. QED
    BY <1>8, <2>1, <2>2, <2>3, <2>4 DEF OutStep
<1>9. CASE UNCHANGED vars
  BY <1>9 DEF vars
<1>10. QED
  BY <1>1, <1>2, <1>3, <1>4, <1>5, <1>6, <1>7, <1>8, <1>9
   DEF Next

(* One status is sent, unless the client has left.                        *)
LEMMA ToldStep ==
  ASSUME ChunksT, Stages, Socket, Told, [Next]_vars
  PROVE  Told'
<1> USE DEF ChunksT, Stages, Socket, Told, Early, Ending, Gone, tokenVars, clientVars,
            spdyVars, socketVars, procVars, dataVars, threadVars, stdinVars, handlerVars,
            seenVars, serverVars
<1>1. CASE TokenStep
  <2>1. CASE Connect
    BY <2>1 DEF Connect
  <2>2. CASE Exec \/ Age \/ DropExpired \/ ContainerEnds
    BY <2>2 DEF Exec, Age, DropExpired, ContainerEnds
  <2>3. QED
    BY <1>1, <2>1, <2>2 DEF TokenStep
<1>2. CASE ClientStep
  BY <1>2 DEF ClientStep, ClientSends, ClientLeaves
<1>3. CASE ProcessStep
  <2>1. ASSUME NEW o \in Outs, Writes(o) PROVE Told'
    BY <2>1 DEF Writes
  <2>2. CASE Exits \/ HeirsEnd \/ Reads
    BY <2>2 DEF Exits, HeirsEnd, Reads
  <2>3. QED
    BY <1>3, <2>1, <2>2 DEF ProcessStep
<1>4. CASE ReaderStep
  BY <1>4 DEF ReaderStep, ReaderTakes, ReaderEnds
<1>5. CASE ReceiverStep
  BY <1>5 DEF ReceiverStep, Receives, CloseStdin, Looped, ReceiverEnds, Terminated,
              ReceiverRaises
<1>6. CASE HandlerStep
  <2>1. CASE FindContainer
    BY <2>1 DEF FindContainer
  <2>2. CASE WaitForStreams
    BY <2>2 DEF WaitForStreams, Raise
  <2>3. CASE StartExecProcess
    BY <2>3 DEF StartExecProcess, Raise
  <2>4. CASE StartThreads
    BY <2>4 DEF StartThreads, Raise
  <2>5. CASE WaitProcess
    BY <2>5 DEF WaitProcess, CloseStdin
  <2>6. CASE JoinOutputs
    BY <2>6 DEF JoinOutputs
  <2>7. CASE SendStatus
    BY <2>7 DEF SendStatus, StatusSent, StatusRaises, HasErrorStream, Raise
  <2>8. CASE Failed
    BY <2>8 DEF Failed, StatusSent, StatusRaises, HasErrorStream
  <2>9. CASE FinishStreams
    BY <2>9 DEF FinishStreams
  <2>10. CASE CloseStream
    BY <2>10 DEF CloseStream
  <2>11. CASE JoinReceiver
    BY <2>11 DEF JoinReceiver
  <2>12. QED
    BY <1>6, <2>1, <2>2, <2>3, <2>4, <2>5, <2>6, <2>7, <2>8, <2>9, <2>10, <2>11
     DEF HandlerStep
<1>7. CASE Setsid
  BY <1>7 DEF Setsid
<1>8. ASSUME NEW o \in Outs, OutStep(o) PROVE Told'
  BY <1>8 DEF OutStep, OutReads, OutEnds, OutChecks, OutSends
<1>9. CASE UNCHANGED vars
  BY <1>9 DEF vars
<1>10. QED
  BY <1>1, <1>2, <1>3, <1>4, <1>5, <1>6, <1>7, <1>8, <1>9
   DEF Next

(* The way to the end of a session ends or kills its command.              *)
LEMMA StoppedStep ==
  ASSUME ScalarsT, Stages, Socket, Stopped, [Next]_vars
  PROVE  Stopped'
<1> USE DEF ScalarsT, Stages, Socket, Stopped, Early, Ending, Alive, Gone, tokenVars,
            clientVars, spdyVars, socketVars, procVars, dataVars, threadVars, stdinVars,
            handlerVars, seenVars, serverVars
<1>1. CASE TokenStep
  BY <1>1 DEF TokenStep, Exec, Age, DropExpired, ContainerEnds, Connect
<1>2. CASE ClientStep
  BY <1>2 DEF ClientStep, ClientSends, ClientLeaves
<1>3. CASE ProcessStep
  <2>1. CASE Exits
    BY <2>1 DEF Exits
  <2>2. ASSUME NEW o \in Outs, Writes(o) PROVE Stopped'
    BY <2>2 DEF Writes
  <2>3. CASE HeirsEnd \/ Reads
    BY <2>3 DEF HeirsEnd, Reads
  <2>4. QED
    BY <1>3, <2>1, <2>2, <2>3 DEF ProcessStep
<1>4. CASE ReaderStep
  BY <1>4 DEF ReaderStep, ReaderTakes, ReaderEnds
<1>5. CASE ReceiverStep
  BY <1>5 DEF ReceiverStep, Receives, CloseStdin, Looped, ReceiverEnds, Terminated,
              ReceiverRaises
<1>6. CASE HandlerStep
  <2>1. CASE FindContainer
    BY <2>1 DEF FindContainer
  <2>2. CASE WaitForStreams
    BY <2>2 DEF WaitForStreams, Raise
  <2>3. CASE StartExecProcess
    BY <2>3 DEF StartExecProcess, Raise
  <2>4. CASE StartThreads
    BY <2>4 DEF StartThreads, Raise
  <2>5. CASE WaitProcess
    BY <2>5 DEF WaitProcess, CloseStdin
  <2>6. CASE JoinOutputs
    BY <2>6 DEF JoinOutputs
  <2>7. CASE SendStatus
    BY <2>7 DEF SendStatus, StatusSent, StatusRaises, HasErrorStream, Raise
  <2>8. CASE Failed
    BY <2>8 DEF Failed, StatusSent, StatusRaises, HasErrorStream
  <2>9. CASE FinishStreams
    BY <2>9 DEF FinishStreams
  <2>10. CASE CloseStream
    BY <2>10 DEF CloseStream
  <2>11. CASE JoinReceiver
    BY <2>11 DEF JoinReceiver
  <2>12. QED
    BY <1>6, <2>1, <2>2, <2>3, <2>4, <2>5, <2>6, <2>7, <2>8, <2>9, <2>10, <2>11
     DEF HandlerStep
<1>7. CASE Setsid
  BY <1>7 DEF Setsid
<1>8. ASSUME NEW o \in Outs, OutStep(o) PROVE Stopped'
  BY <1>8 DEF OutStep, OutReads, OutEnds, OutChecks, OutSends
<1>9. CASE UNCHANGED vars
  BY <1>9 DEF vars
<1>10. QED
  BY <1>1, <1>2, <1>3, <1>4, <1>5, <1>6, <1>7, <1>8, <1>9
   DEF Next

(* The invariant holds at the start.                                       *)
LEMMA StreamInit ==
  ASSUME Init
  PROVE  StreamInv
<1>1. QueuesT /\ ThreadsT /\ ScalarsT
  BY EmptySeq DEF Init, QueuesT, ThreadsT, ScalarsT
<1>2. ChunksT
  BY StreamAssumption DEF Init, ChunksT
<1>3. Stages /\ Socket /\ Copying /\ Delivered /\ Told /\ Stopped
  BY DEF Init, Stages, Socket, Copying, Delivered, Told, Stopped, Early, Ending, Alive, Gone
<1>4. QED
  BY <1>1, <1>2, <1>3, Types DEF StreamInv

(* Every step keeps it.                                                    *)
LEMMA StreamStep ==
  ASSUME StreamInv, [Next]_vars
  PROVE  StreamInv'
<1>1. /\ QueuesT /\ ThreadsT /\ ChunksT /\ ScalarsT
      /\ Stages /\ Socket /\ Copying /\ Delivered /\ Told /\ Stopped
  BY Types DEF StreamInv
<1>2. QueuesT' /\ ThreadsT' /\ ChunksT' /\ ScalarsT'
  BY <1>1, QueuesStep, ThreadsStep, ChunksStep, ScalarsStep
<1>3. TypeOK'
  BY <1>2 DEF TypeOK, QueuesT, ThreadsT, ChunksT, ScalarsT
<1>4. Stages' /\ Socket' /\ Copying' /\ Delivered' /\ Told' /\ Stopped'
  BY <1>1, StagesStep, SocketStep, CopyingStep, DeliveredStep, ToldStep, StoppedStep
<1>5. QED
  BY <1>3, <1>4 DEF StreamInv

(* The invariant of a session: what its stage says of the socket, the      *)
(* threads, the output and the status.                                     *)
THEOREM StreamInvariant == Spec => []StreamInv
<1>1. Init => StreamInv
  BY StreamInit
<1>2. StreamInv /\ [Next]_vars => StreamInv'
  BY StreamStep
<1>3. QED
  BY <1>1, <1>2, PTL DEF Spec

(* The variables of a session have their types: no count of output leaves  *)
(* the bounds of what was written.                                         *)
THEOREM StreamTypeCorrect == Spec => []TypeOK
<1>1. StreamInv => TypeOK
  BY DEF StreamInv
<1>2. QED
  BY <1>1, StreamInvariant, PTL

(* serve_exec sends the status after the output: whatever the threads, the *)
(* client and the command do, a client that stays has got all that was     *)
(* written when it gets the status, but of outputs the join gave up.       *)
THEOREM StatusAfterOutput == Spec => []OutputThenStatus
<1>1. ASSUME StreamInv PROVE OutputThenStatus
  <2>1. /\ TypeOK /\ Stages /\ Copying /\ Delivered /\ Told
    BY <1>1 DEF StreamInv
  <2>2. ASSUME client = "here", statuses > 0, cause = "none", proc = "ended",
               NEW o \in Threads \ late
        PROVE  got[o] = wrote[o]
    <3>1. o \in Outs
      BY <2>1, Types, ThreadsAreOutputs
    <3>2. out[o] = "done"
      BY <2>1, <2>2 DEF Copying, Told
    <3>3. QED
      BY <2>1, <2>2, <3>1, <3>2 DEF Delivered, Gone
  <2>3. QED
    BY <2>1, <2>2 DEF OutputThenStatus, Delivered
<1>2. QED
  BY <1>1, StreamInvariant, PTL

(* Every way through serve_exec and its except and finally clauses tells a *)
(* client that stays, exactly once, how its command ended.                 *)
THEOREM ClientLearnsTheEnd == Spec => []ClientIsTold
<1>1. StreamInv => ClientIsTold
  BY DEF StreamInv, Told, ClientIsTold, Ending
<1>2. QED
  BY <1>1, StreamInvariant, PTL

(* A session that is over has ended or killed its command, but for the two *)
(* ways out NothingLeftRunning names.                                      *)
THEOREM SessionStopsCommand == Spec => []NothingLeftRunning
<1>1. StreamInv => NothingLeftRunning
  BY DEF StreamInv, Stopped, NothingLeftRunning, Ending
<1>2. QED
  BY <1>1, StreamInvariant, PTL
=============================================================================
