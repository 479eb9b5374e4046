----------------------------- MODULE ExecStream -----------------------------
(***************************************************************************)
(* streaming.py and the Exec call of pnfroot.py: one exec session, from    *)
(* the token a client gets to the end of its threads.                      *)
(*                                                                         *)
(* The handler's thread starts the process, waits for it, for the threads  *)
(* that copy its output (up to 2 s each), sends the status and closes the  *)
(* stream.  A receiver thread feeds stdin and notices that the client has  *)
(* left; over SPDY a reader thread stands between the socket and it.       *)
(* Sessions share nothing but the token table, of which the model has one  *)
(* entry.  A frame is sent under write_lock and is one step; that a client *)
(* stays without ever reading what it is sent is left out.  The protocols  *)
(* are the ones that send a status for every exit code (v4 and v5).        *)
(***************************************************************************)
EXTENDS Naturals, Sequences

CONSTANTS
  Outs,        \* outputs that can be streamed
  Stdout,      \* the one a terminal's output is sent on
  MaxOut,      \* bound on the chunks a process writes to each of them
  MaxIn,       \* bound on the client's stdin messages
  Asked        \* the requests that are made

(* What an exec asks for, with the transport of its client, and whether    *)
(* the container's processes run without a supervisor (host).              *)
Requests == {r \in [spdy : BOOLEAN, host : BOOLEAN, tty : BOOLEAN,
                    stdin : BOOLEAN, outs : SUBSET Outs] :
               /\ r.stdin \/ r.outs # {}
               /\ r.tty => r.outs \subseteq {Stdout}}

ASSUME StreamAssumption ==
  /\ Stdout \in Outs
  /\ MaxOut \in Nat \ {0}
  /\ MaxIn \in Nat
  /\ Asked \subseteq Requests

VARIABLES
  container,   \* running, or gone: removed (one that has exited is still found)
  request,     \* the token's entry in _requests
  req,         \* the ExecStreamRequest
  client,      \* whether the client is at the other end of the socket
  script,      \* what the client may still send
  wire,        \* what it sent and the server has not read
  opened,      \* SPDY: streams_by_type
  reader,      \* SPDY: the reader thread
  incoming,    \* SPDY: the reader's queue
  closed,      \* stream.closed
  finished,    \* SPDY: local_finished is set of all streams
  shut,        \* the server has shut the socket down
  proc,        \* none, forked (before setsid), running, ended
  signal,      \* none, term, kill, or lost: sent before setsid
  heirs,       \* processes of the command outlive it and hold its pipes
  wrote,       \* chunks written to each output
  pipe,        \* of those, the ones still in the pipe or the terminal
  stdin,       \* process.stdin: none, open, closed
  handler,     \* where serve_exec is
  cause,       \* where it raised
  out,         \* where the thread of each output is
  hold,        \* the chunks it has read and not sent
  receiver,    \* where receive_loop is
  stop,        \* stop_event
  late,        \* outputs whose thread was not waited for any longer
  got,         \* chunks of each output the client got
  statuses,    \* statuses it got
  trailing     \* outputs of which it got some after a status or a FIN

tokenVars == <<container, request, req>>
clientVars == <<client, script, wire>>
spdyVars == <<opened, reader, incoming>>
socketVars == <<closed, finished, shut, stop>>
procVars == <<proc, signal, heirs>>
dataVars == <<wrote, pipe>>
threadVars == <<out, hold>>
stdinVars == <<receiver, stdin>>
handlerVars == <<handler, cause, late>>
seenVars == <<got, statuses, trailing>>
vars == <<tokenVars, clientVars, spdyVars, socketVars, procVars, dataVars, threadVars,
          stdinVars, handlerVars, seenVars>>
serverVars == <<spdyVars, socketVars, threadVars, stdinVars, handlerVars, seenVars>>

Alive == proc \in {"forked", "running"}
Abandoned == proc = "ended" /\ ~heirs        \* nobody holds the pipes any more
Threads == IF req.tty THEN {Stdout} ELSE req.outs
Gone == client = "gone"

(* The streams a client opens over SPDY before it sends anything else; the *)
(* end of stdin is a FIN there, and a message of its own over WebSocket.   *)
Script(r) ==
  (IF r.spdy THEN <<"error", "others">> ELSE <<>>)
    \o (IF r.stdin THEN [i \in 1..MaxIn |-> "in"] ELSE <<>>)
    \o (IF r.stdin THEN <<"fin">> ELSE <<>>)

Init ==
  /\ container = "running" /\ request = "none"
  /\ req \in Asked
  /\ client = "away" /\ script = <<>> /\ wire = <<>>
  /\ opened = {} /\ reader = "none" /\ incoming = <<>>
  /\ closed = FALSE /\ finished = FALSE /\ shut = FALSE /\ stop = FALSE
  /\ proc = "none" /\ signal = "none" /\ heirs = FALSE
  /\ wrote = [o \in Outs |-> 0] /\ pipe = [o \in Outs |-> 0]
  /\ out = [o \in Outs |-> "none"] /\ hold = [o \in Outs |-> 0]
  /\ receiver = "none" /\ stdin = "none"
  /\ handler = "idle" /\ cause = "none" /\ late = {}
  /\ got = [o \in Outs |-> 0] /\ statuses = 0 /\ trailing = {}
-----------------------------------------------------------------------------
(* The token.                                                              *)
Exec ==
  /\ request = "none" /\ container = "running"
  /\ request' = "fresh"
  /\ UNCHANGED <<container, req, clientVars, procVars, dataVars, serverVars>>

Age ==         \* token_ttl_seconds go by
  /\ request = "fresh"
  /\ request' = "old"
  /\ UNCHANGED <<container, req, clientVars, procVars, dataVars, serverVars>>

DropExpired == \* by the next Exec
  /\ request = "old"
  /\ request' = "dropped"
  /\ UNCHANGED <<container, req, clientVars, procVars, dataVars, serverVars>>

(* Only what becomes of it before the handler looks matters here.          *)
ContainerEnds ==
  /\ container = "running" /\ handler \in {"idle", "looking"}
  /\ container' = "gone"
  /\ UNCHANGED <<request, req, clientVars, procVars, dataVars, serverVars>>

(* A client comes with the token; one that is too old is taken from the    *)
(* table and refused.                                                      *)
Connect ==
  /\ request \in {"fresh", "old"}
  /\ request' = "consumed"
  /\ IF request = "fresh"
     THEN /\ client' = "here" /\ script' = Script(req)
          /\ reader' = IF req.spdy THEN "reading" ELSE "none"
          /\ handler' = "looking"
     ELSE UNCHANGED <<client, script, reader, handler>>
  /\ UNCHANGED <<container, req, wire, opened, incoming, socketVars, procVars, dataVars,
                 threadVars, stdinVars, cause, late, seenVars>>
-----------------------------------------------------------------------------
(* The client and the command.                                             *)
ClientSends ==
  /\ client = "here" /\ script # <<>> /\ ~shut
  /\ wire' = Append(wire, Head(script)) /\ script' = Tail(script)
  /\ UNCHANGED <<tokenVars, client, procVars, dataVars, serverVars>>

ClientLeaves ==
  /\ client = "here"
  /\ client' = "gone"
  /\ UNCHANGED <<tokenVars, script, wire, procVars, dataVars, serverVars>>

Setsid ==
  /\ proc = "forked"
  /\ proc' = "running"
  /\ UNCHANGED <<tokenVars, clientVars, signal, heirs, dataVars, serverVars>>

Writes(o) ==
  /\ proc = "running" \/ heirs
  /\ o \in Threads /\ out[o] # "done" /\ wrote[o] < MaxOut
  /\ wrote' = [wrote EXCEPT ![o] = @ + 1]
  /\ pipe' = [pipe EXCEPT ![o] = @ + 1]
  /\ UNCHANGED <<tokenVars, clientVars, procVars, serverVars>>

(* A supervisor ends with the last of its processes; a process without one *)
(* may leave others behind.                                                *)
Exits ==
  /\ proc = "running"
  /\ proc' = "ended"
  /\ heirs' \in IF req.host THEN BOOLEAN ELSE {FALSE}
  /\ UNCHANGED <<tokenVars, clientVars, signal, dataVars, serverVars>>

HeirsEnd ==
  /\ heirs
  /\ heirs' = FALSE
  /\ UNCHANGED <<tokenVars, clientVars, proc, signal, dataVars, serverVars>>

Reads ==       \* the command takes what the receiver writes to its stdin
  /\ receiver = "writing" /\ (proc = "running" \/ heirs)
  /\ IF req.tty THEN out[Stdout] # "done" ELSE stdin = "open"
  /\ receiver' = IF stop THEN "done" ELSE "reading"
  /\ UNCHANGED <<tokenVars, clientVars, spdyVars, socketVars, procVars, dataVars, threadVars,
                 stdin, handlerVars, seenVars>>
-----------------------------------------------------------------------------
(* The SPDY reader thread.  A client that has left, or a socket that was   *)
(* shut, is read as an end of file.                                        *)
ReaderTakes ==
  /\ reader = "reading" /\ ~closed /\ wire # <<>>
  /\ wire' = Tail(wire)
  /\ IF Head(wire) \in {"error", "others"}
     THEN opened' = opened \cup {Head(wire)} /\ UNCHANGED incoming
     ELSE incoming' = Append(incoming, Head(wire)) /\ UNCHANGED opened
  /\ UNCHANGED <<tokenVars, client, script, reader, socketVars, procVars, dataVars,
                 threadVars, stdinVars, handlerVars, seenVars>>

ReaderEnds ==
  /\ reader = "reading" /\ (Gone \/ shut)
  /\ reader' = "done" /\ closed' = TRUE
  /\ incoming' = Append(incoming, "eof")
  /\ UNCHANGED <<tokenVars, clientVars, opened, finished, shut, stop, procVars, dataVars,
                 threadVars, stdinVars, handlerVars, seenVars>>
-----------------------------------------------------------------------------
(* pipe_to_channel and pty_to_stdout.  A process without a supervisor has  *)
(* a buffered pipe: its read returns when the pipe is full or at its end.  *)
OutReads(o) ==
  /\ out[o] = "reading" /\ ~stop /\ pipe[o] > 0
  /\ (req.host /\ ~req.tty) => (Abandoned \/ pipe[o] = MaxOut)
  /\ hold' = [hold EXCEPT ![o] = pipe[o]]
  /\ pipe' = [pipe EXCEPT ![o] = 0]
  /\ out' = [out EXCEPT ![o] = "holding"]
  /\ UNCHANGED <<tokenVars, clientVars, spdyVars, socketVars, procVars, wrote, stdinVars,
                 handlerVars, seenVars>>

OutEnds(o) ==
  /\ out[o] = "reading"
  /\ stop \/ (Abandoned /\ pipe[o] = 0)
  /\ out' = [out EXCEPT ![o] = "done"]
  /\ UNCHANGED <<tokenVars, clientVars, spdyVars, socketVars, procVars, dataVars, hold,
                 stdinVars, handlerVars, seenVars>>

(* send_channel: what it looks at before it has the lock.                  *)
OutChecks(o) ==
  /\ out[o] = "holding"
  /\ LET dropped == IF req.spdy THEN finished \/ "others" \notin opened ELSE closed
     IN /\ out' = [out EXCEPT ![o] = IF dropped THEN "reading" ELSE "sending"]
        /\ hold' = [hold EXCEPT ![o] = IF dropped THEN 0 ELSE @]
  /\ UNCHANGED <<tokenVars, clientVars, spdyVars, socketVars, procVars, dataVars, stdinVars,
                 handlerVars, seenVars>>

(* Mutant: the send does not advance past what it has sent.                *)
OutSendsAgain(o) ==
  /\ out[o] = "sending" /\ ~closed /\ ~Gone
  /\ got' = [got EXCEPT ![o] = @ + hold[o]]
  /\ out' = [out EXCEPT ![o] = IF stop THEN "reading" ELSE @]
  /\ UNCHANGED <<tokenVars, clientVars, spdyVars, socketVars, procVars, dataVars, stdinVars,
                 handlerVars, hold, statuses, trailing>>

(* With the lock: nothing when the stream is closed.  A send to a client   *)
(* that has left may still succeed, or raises and ends the thread.         *)
OutSends(o) ==
  /\ out[o] = "sending"
  /\ hold' = [hold EXCEPT ![o] = 0]
  /\ \E next \in {"reading"} \cup (IF Gone /\ ~closed THEN {"done"} ELSE {}) :
        out' = [out EXCEPT ![o] = next]
  /\ IF closed \/ Gone
     THEN UNCHANGED <<got, trailing>>
     ELSE /\ got' = [got EXCEPT ![o] = @ + hold[o]]
          /\ trailing' = IF statuses > 0 \/ finished THEN trailing \cup {o} ELSE trailing
  /\ UNCHANGED <<tokenVars, clientVars, spdyVars, socketVars, procVars, dataVars, stdinVars,
                 handlerVars, statuses>>
-----------------------------------------------------------------------------
(* receive_loop.                                                           *)
CloseStdin == stdin' = IF stdin = "open" THEN "closed" ELSE stdin

Looped == IF stop THEN "done" ELSE "reading"

Receives ==
  LET source == IF req.spdy THEN incoming ELSE wire
  IN /\ receiver = "reading" /\ source # <<>> /\ Head(source) # "eof"
     /\ IF req.spdy
        THEN incoming' = Tail(incoming) /\ UNCHANGED wire
        ELSE wire' = Tail(wire) /\ ~shut /\ UNCHANGED incoming
     /\ \/ /\ Head(source) = "in"
           /\ receiver' = IF req.tty \/ stdin = "open" THEN "writing" ELSE Looped
           /\ UNCHANGED stdin
        \/ /\ Head(source) = "fin"
           /\ CloseStdin
           /\ receiver' = Looped
     /\ UNCHANGED <<tokenVars, client, script, opened, reader, socketVars, procVars, dataVars,
                    threadVars, handlerVars, seenVars>>

(* terminate: nothing reaches a supervisor that is no group leader yet.    *)
Terminated == IF proc = "forked" THEN "lost" ELSE IF signal = "none" THEN "term" ELSE signal

(* Mutant: the command is not terminated.                                  *)
ReceiverOnlyEnds ==
  /\ \/ receiver = "reading" /\ req.spdy /\ incoming # <<>> /\ Head(incoming) = "eof"
     \/ receiver = "reading" /\ ~req.spdy /\ (Gone \/ shut)
     \/ receiver = "writing" /\ (Abandoned \/ (req.tty /\ out[Stdout] = "done"))
  /\ CloseStdin
  /\ receiver' = "done"
  /\ UNCHANGED <<tokenVars, clientVars, spdyVars, socketVars, procVars, dataVars, threadVars,
                 handlerVars, seenVars>>

(* The end of the stream, or a write that nobody reads.                    *)
ReceiverEnds ==
  /\ \/ receiver = "reading" /\ req.spdy /\ incoming # <<>> /\ Head(incoming) = "eof"
     \/ receiver = "reading" /\ ~req.spdy /\ (Gone \/ shut)
     \/ receiver = "writing" /\ (Abandoned \/ (req.tty /\ out[Stdout] = "done"))
  /\ CloseStdin
  /\ signal' = IF ~stop /\ Alive THEN Terminated ELSE signal
  /\ receiver' = "done"
  /\ UNCHANGED <<tokenVars, clientVars, spdyVars, socketVars, proc, heirs, dataVars,
                 threadVars, handlerVars, seenVars>>

ReceiverRaises ==  \* ValueError: stdin was closed under it
  /\ receiver = "writing" /\ ~req.tty /\ stdin = "closed"
  /\ receiver' = "done"
  /\ UNCHANGED <<tokenVars, clientVars, spdyVars, socketVars, procVars, dataVars, threadVars,
                 stdin, handlerVars, seenVars>>
-----------------------------------------------------------------------------
(* serve_exec, in the handler's thread.                                    *)
Raise(at) == handler' = "failing" /\ cause' = at

(* Mutant: returns without a status.                                       *)
FindContainerSilently ==
  /\ handler = "looking"
  /\ handler' = IF container = "gone" THEN "closing"
                ELSE IF req.spdy THEN "streams" ELSE "starting"
  /\ UNCHANGED <<tokenVars, clientVars, spdyVars, socketVars, procVars, dataVars, threadVars,
                 stdinVars, cause, late, seenVars>>

FindContainer ==
  /\ handler = "looking"
  /\ handler' = IF container = "gone" THEN "notfound"
                ELSE IF req.spdy THEN "streams" ELSE "starting"
  /\ UNCHANGED <<tokenVars, clientVars, spdyVars, socketVars, procVars, dataVars, threadVars,
                 stdinVars, cause, late, seenVars>>

(* Mutant: no timeout.                                                     *)
WaitForStreamsForever ==
  /\ handler = "streams" /\ {"error", "others"} \subseteq opened
  /\ handler' = "starting"
  /\ UNCHANGED <<tokenVars, clientVars, spdyVars, socketVars, procVars, dataVars, threadVars,
                 stdinVars, cause, late, seenVars>>

WaitForStreams ==
  /\ handler = "streams"
  /\ \/ {"error", "others"} \subseteq opened /\ handler' = "starting" /\ UNCHANGED cause
     \/ ~({"error", "others"} \subseteq opened) /\ Raise("streams")      \* 30 s
  /\ UNCHANGED <<tokenVars, clientVars, spdyVars, socketVars, procVars, dataVars, threadVars,
                 stdinVars, late, seenVars>>

StartExecProcess ==
  /\ handler = "starting"
  /\ \/ /\ proc' = IF req.host THEN "running" ELSE "forked"
        /\ stdin' = IF req.stdin /\ ~req.tty THEN "open" ELSE "none"
        /\ handler' = "first" /\ UNCHANGED cause
     \/ Raise("start") /\ UNCHANGED <<proc, stdin>>
  /\ UNCHANGED <<tokenVars, clientVars, spdyVars, socketVars, signal, heirs, dataVars,
                 threadVars, receiver, late, seenVars>>

(* The first frame is empty, and SPDY sends none; then the threads start,  *)
(* if the system lets them.                                                *)
StartThreads ==
  /\ handler = "first"
  /\ \/ /\ out' = [o \in Outs |-> IF o \in Threads THEN "reading" ELSE "none"]
        /\ receiver' = "reading"
        /\ handler' = "waiting" /\ UNCHANGED cause
     \/ /\ \E started \in SUBSET Threads :
              out' = [o \in Outs |-> IF o \in started THEN "reading" ELSE "none"]
        /\ Raise("threads") /\ UNCHANGED receiver
     \/ /\ Gone /\ ~req.spdy
        /\ Raise("first") /\ UNCHANGED <<out, receiver>>
  /\ UNCHANGED <<tokenVars, clientVars, spdyVars, socketVars, procVars, dataVars, hold, stdin,
                 late, seenVars>>

(* process.wait and close_stdin, which in a buffered file waits for the    *)
(* writer that is inside it.                                               *)
WaitProcess ==
  /\ handler = "waiting" /\ proc = "ended"
  /\ (req.host /\ stdin = "open") => receiver # "writing"
  /\ CloseStdin
  /\ handler' = "joining"
  /\ UNCHANGED <<tokenVars, clientVars, spdyVars, socketVars, procVars, dataVars, threadVars,
                 receiver, cause, late, seenVars>>

(* Mutant: the output threads are not joined.                              *)
JoinNothing ==
  /\ handler = "joining"
  /\ handler' = "status"
  /\ UNCHANGED <<tokenVars, clientVars, spdyVars, socketVars, procVars, dataVars, threadVars,
                 stdinVars, cause, late, seenVars>>

JoinOutputs ==
  /\ handler = "joining"
  /\ late' = {o \in Threads : out[o] # "done"}
  /\ handler' = "status"
  /\ UNCHANGED <<tokenVars, clientVars, spdyVars, socketVars, procVars, dataVars, threadVars,
                 stdinVars, cause, seenVars>>

(* send_status: over SPDY there is no stream to send it on before the      *)
(* client has opened it.                                                   *)
HasErrorStream == req.spdy => "error" \in opened

StatusSent ==
  IF closed \/ Gone \/ ~HasErrorStream THEN UNCHANGED statuses ELSE statuses' = statuses + 1

StatusRaises == Gone /\ ~closed /\ HasErrorStream

SendStatus ==
  /\ handler \in {"notfound", "status"}
  /\ \/ StatusSent /\ handler' = "closing" /\ UNCHANGED cause
     \/ StatusRaises /\ Raise("status") /\ UNCHANGED statuses
  /\ UNCHANGED <<tokenVars, clientVars, spdyVars, socketVars, procVars, dataVars, threadVars,
                 stdinVars, late, got, trailing>>

(* Mutant: the process is not killed.                                      *)
FailedWithoutKill ==
  /\ handler = "failing"
  /\ StatusSent \/ (StatusRaises /\ UNCHANGED statuses)
  /\ handler' = "closing"
  /\ UNCHANGED <<tokenVars, clientVars, spdyVars, socketVars, procVars, dataVars,
                 threadVars, stdinVars, cause, late, got, trailing>>

(* The except clause: a process that was started is killed unless the      *)
(* status cannot be sent.                                                  *)
Failed ==
  /\ handler = "failing"
  /\ \/ StatusSent /\ signal' = IF proc = "forked" THEN "lost"
                                 ELSE IF proc = "running" THEN "kill" ELSE signal
     \/ StatusRaises /\ UNCHANGED <<statuses, signal>>
  /\ handler' = "closing"
  /\ UNCHANGED <<tokenVars, clientVars, spdyVars, socketVars, proc, heirs, dataVars,
                 threadVars, stdinVars, cause, late, got, trailing>>

(* The finally clause.  SPDY finishes every stream before it closes.       *)
FinishStreams ==
  /\ handler = "closing" /\ req.spdy /\ ~closed /\ ~finished
  /\ stop' = TRUE /\ finished' = TRUE
  /\ UNCHANGED <<tokenVars, clientVars, spdyVars, closed, shut, procVars, dataVars,
                 threadVars, stdinVars, handlerVars, seenVars>>

CloseStream ==
  /\ handler = "closing" /\ (req.spdy => closed \/ finished)
  /\ stop' = TRUE /\ closed' = TRUE /\ shut' = TRUE
  /\ handler' = "leaving"
  /\ UNCHANGED <<tokenVars, clientVars, spdyVars, finished, procVars, dataVars, threadVars,
                 stdinVars, cause, late, seenVars>>

JoinReceiver ==
  /\ handler = "leaving"
  /\ handler' = "over"
  /\ UNCHANGED <<tokenVars, clientVars, spdyVars, socketVars, procVars, dataVars, threadVars,
                 stdinVars, cause, late, seenVars>>
-----------------------------------------------------------------------------
TokenStep == Exec \/ Age \/ DropExpired \/ ContainerEnds \/ Connect
ClientStep == ClientSends \/ ClientLeaves
ProcessStep == Exits \/ HeirsEnd \/ Reads \/ \E o \in Outs : Writes(o)
ReaderStep == ReaderTakes \/ ReaderEnds
OutStep(o) == OutReads(o) \/ OutEnds(o) \/ OutChecks(o) \/ OutSends(o)
ReceiverStep == Receives \/ ReceiverEnds \/ ReceiverRaises
HandlerStep ==
  \/ FindContainer \/ WaitForStreams \/ StartExecProcess \/ StartThreads \/ WaitProcess
  \/ JoinOutputs \/ SendStatus \/ Failed \/ FinishStreams \/ CloseStream \/ JoinReceiver

Next ==
  \/ TokenStep \/ ClientStep \/ ProcessStep \/ Setsid
  \/ ReaderStep \/ ReceiverStep \/ HandlerStep
  \/ \E o \in Outs : OutStep(o)

Spec == Init /\ [][Next]_vars

(* The threads run and their waits end; a process that was forked gets to  *)
(* its own session, and one that was killed dies.                          *)
FairSpec ==
  /\ Spec
  /\ WF_vars(HandlerStep) /\ WF_vars(ReceiverStep) /\ WF_vars(ReaderStep)
  /\ \A o \in Outs : WF_vars(OutStep(o))
  /\ WF_vars(Setsid) /\ WF_vars(signal = "kill" /\ Exits)
-----------------------------------------------------------------------------
(* The variables have their types.                                         *)
TypeOK ==
  /\ container \in {"running", "gone"}
  /\ request \in {"none", "fresh", "old", "dropped", "consumed"}
  /\ req \in Asked
  /\ client \in {"away", "here", "gone"}
  /\ script \in Seq({"error", "others", "in", "fin"})
  /\ wire \in Seq({"error", "others", "in", "fin"})
  /\ opened \subseteq {"error", "others"} /\ reader \in {"none", "reading", "done"}
  /\ incoming \in Seq({"in", "fin", "eof"})
  /\ closed \in BOOLEAN /\ finished \in BOOLEAN /\ shut \in BOOLEAN /\ stop \in BOOLEAN
  /\ proc \in {"none", "forked", "running", "ended"}
  /\ signal \in {"none", "term", "kill", "lost"} /\ heirs \in BOOLEAN
  /\ wrote \in [Outs -> 0..MaxOut] /\ pipe \in [Outs -> 0..MaxOut]
  /\ out \in [Outs -> {"none", "reading", "holding", "sending", "done"}]
  /\ hold \in [Outs -> 0..MaxOut]
  /\ receiver \in {"none", "reading", "writing", "done"}
  /\ stdin \in {"none", "open", "closed"}
  /\ handler \in {"idle", "looking", "notfound", "streams", "starting", "first", "waiting",
                  "joining", "status", "failing", "closing", "leaving", "over"}
  /\ cause \in {"none", "streams", "start", "first", "threads", "status"}
  /\ late \subseteq Outs
  /\ got \in [Outs -> 0..MaxOut] /\ statuses \in Nat /\ trailing \subseteq Outs

(* The status comes after all the output: a client that stays gets         *)
(* everything the command wrote before its status and nothing after it,    *)
(* but of the outputs whose thread the handler stopped waiting for.        *)
OutputThenStatus ==
  /\ cause # "threads" => trailing \subseteq late
  /\ (client = "here" /\ statuses > 0 /\ cause = "none" /\ proc = "ended") =>
       \A o \in Threads \ late : got[o] = wrote[o]

(* A client that stays to the end is told how its command ended, once,     *)
(* also when the container was removed since it got the token.  Over SPDY  *)
(* this holds once its streams are open: what fails before that may be     *)
(* told on a stream that does not exist yet.                               *)
ClientIsTold ==
  /\ statuses <= 1
  /\ (handler = "over" /\ client = "here" /\ (req.spdy => proc # "none" \/ cause = "start"))
       => statuses = 1

(* A session that is over leaves no process running: it has ended or was   *)
(* killed.  Two ways out: the client leaves before the threads have        *)
(* started, and the status that cannot be sent keeps the except clause     *)
(* from its kill; or the kill comes before setsid and reaches nobody.      *)
NothingLeftRunning ==
  (handler = "over" /\ Alive) =>
    (Gone /\ cause \in {"first", "threads"}) \/ signal \in {"kill", "lost"}

(* A session goes on only while its command, or something the command left *)
(* behind, does: every wait of the handler ends; and it leaves no thread   *)
(* behind when nothing holds its pipes.                                    *)
SessionEnds ==
  /\ handler \notin {"idle", "over"} ~> (handler = "over" \/ Alive \/ heirs)
  /\ (handler = "over" /\ Abandoned) ~>
       (/\ receiver \in {"none", "done"} /\ reader \in {"none", "done"}
        /\ \A o \in Outs : out[o] \in {"none", "done"})

(* A client that leaves takes its command with it, unless the receiver     *)
(* stays in a write of stdin that the command does not read.               *)
LeaverStopsCommand ==
  (Gone /\ receiver = "reading" /\ proc = "running") ~>
    (signal # "none" \/ proc = "ended" \/ receiver = "writing")

=============================================================================
