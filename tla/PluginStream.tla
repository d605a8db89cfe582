---------------------------- MODULE PluginStream ----------------------------
(***************************************************************************)
(* One plugin stage: GRPCClient.Run in lugh's process, GRPCServer.Run in   *)
(* the plugin's, the bidirectional gRPC stream between them, and the       *)
(* plugin's own worker behind the barrier the server makes for it          *)
(* (core/plugins/grpc).  To the graph the client is a Runner.              *)
(*                                                                         *)
(* A payload is its place in its stream; InLen and OutLen give its length  *)
(* in bytes, which is all that RunLoop looks at.                           *)
(***************************************************************************)
EXTENDS Integers, Sequences, SequencesExt

CONSTANTS
    InLen,   \* InLen[k]: length of the k-th value on the stage's input
    OutLen,  \* OutLen[k]: length of the k-th value the worker may yield
    Lim,     \* RunLoop.lim
    Window,  \* bound: messages under way in one direction (flow control)
    MaxErr,  \* bound: errors the worker raises
    Faults   \* what may go wrong: "refused", "cancel", "crash"

ASSUME StreamBounds ==
    /\ InLen \in Seq(Nat) /\ OutLen \in Seq(Nat)
    /\ Lim \in Nat \ {0} /\ Window \in Nat \ {0} /\ MaxErr \in Nat
    /\ Faults \subseteq {"refused", "cancel", "crash"}

VARIABLES
    client, \* the two goroutines of GRPCClient.Run, and what the stage gave and got
    stream, \* messages under way, and those a sender has still to send
    server, \* the two goroutines of GRPCServer.Run and their barrier
    worker  \* the plugin's worker

vars == <<client, stream, server, worker>>

\* A payload is its value k, or an error (0), with its length; a message is the
\* same and says whether it is whole.
\*   client.in     handleInputStream: "off", "select", "send", "done"
\*   client.out    Run, handleOutputStream: "open", "recv", "yield", "wait", "ret"
\*   client.eof    the input was seen closed
\*   client.outDoneC, outputDone   clientStreamOutputDone is closed, was seen closed
\*   stream.up, down, upQ, downQ   messages under way, and those still to be sent
\*   stream.status "open", "ok", "canceled", "lost"
\*   server.run    "off", "start", "sync", "select", "send", "ret"
\*   server.in     "off", "init", "barrier", "recv", "forward", "done"
\*   server.wg, open   the barrier; server.nilC: the channels set to nil
\*   worker.pc     "off", "init", "barrier", "run", "exit", "done"
\*   worker.offer  the channel the worker is blocked on: "none", "value", "error"
Init ==
    /\ client = [in |-> "off", out |-> "open", taken |-> 0, eof |-> FALSE,
                 outputDone |-> FALSE, outDoneC |-> FALSE, hold |-> <<>>, yielded |-> <<>>,
                 reported |-> 0, cancelled |-> FALSE, failed |-> FALSE]
    /\ stream = [up |-> <<>>, down |-> <<>>, upQ |-> <<>>, downQ |-> <<>>,
                 sendClosed |-> FALSE, status |-> "open"]
    /\ server = [run |-> "off", in |-> "off", hold |-> <<>>, inputSet |-> FALSE,
                 wg |-> 0, open |-> FALSE, nilC |-> {}]
    /\ worker = [pc |-> "off", fed |-> <<>>, made |-> 0, raised |-> 0,
                 offer |-> "none", closed |-> FALSE]

-----------------------------------------------------------------------------
(***************************************************************************)
(* RunLoop.  Send means to cut a payload into messages of lim bytes, but   *)
(* its loop looks at the last chunk, which is nil before the first round.  *)
(* Recv never stores a partial message: it hands on a whole one alone.     *)
(***************************************************************************)
Msg(k, n, whole) == [value |-> k, len |-> n, whole |-> whole]

Chunks(k, bytes) ==
    LET cut[buf \in 0..bytes] ==
          IF buf >= Lim THEN <<Msg(k, Lim, FALSE)>> \o cut[buf - Lim]
          ELSE IF buf > 0 THEN <<Msg(k, buf, TRUE)>> ELSE <<>>
    IN  cut[bytes]

SendOfBuffer(k, bytes) == Chunks(k, bytes) \* mutant: the loop looks at the buffer

Send(k, bytes) ==
    LET chunk == 0
    IN  IF chunk >= Lim THEN Chunks(k, bytes)
        ELSE IF bytes > 0 THEN <<Msg(k, bytes, TRUE)>> ELSE <<>>

Recv(m) == IF m.whole THEN <<[value |-> m.value, len |-> m.len]>> ELSE <<>>

-----------------------------------------------------------------------------
(***************************************************************************)
(* The client's end.                                                       *)
(***************************************************************************)
Refused ==
    /\ client.out = "open" /\ "refused" \in Faults
    /\ client' = [client EXCEPT !.out = "ret", !.failed = TRUE]
    /\ UNCHANGED <<stream, server, worker>>

Run ==
    /\ client.out = "open"
    /\ client' = [client EXCEPT !.out = "recv", !.in = "select"]
    /\ server' = [server EXCEPT !.run = "start"]
    /\ UNCHANGED <<stream, worker>>

EndInput(eof) == \* the deferred CloseSend, and inputDoneC is closed
    /\ client' = [client EXCEPT !.in = "done", !.eof = eof]
    /\ stream' = [stream EXCEPT !.sendClosed = TRUE]
    /\ UNCHANGED <<server, worker>>

ContextDone == client.in = "select" /\ client.cancelled /\ EndInput(FALSE)
InputClosed == client.in = "select" /\ client.taken = Len(InLen) /\ EndInput(TRUE)

SeeOutputDone ==
    /\ client.in = "select" /\ client.outDoneC /\ ~client.outputDone
    /\ client' = [client EXCEPT !.outputDone = TRUE]
    /\ UNCHANGED <<stream, server, worker>>

TakeInput ==
    LET k == client.taken + 1
    IN  /\ client.in = "select" /\ k <= Len(InLen)
        /\ client' = [client EXCEPT !.taken = k, !.in = IF client.outputDone THEN @ ELSE "send"]
        /\ stream' = [stream EXCEPT !.upQ = IF client.outputDone THEN @ ELSE Send(k, InLen[k])]
        /\ UNCHANGED <<server, worker>>

\* One stream.Send; sendNewData ends when all is sent or the stream is gone.
SendUp ==
    /\ client.in = "send"
    /\ IF stream.upQ = <<>> \/ stream.status # "open"
          THEN /\ stream' = [stream EXCEPT !.upQ = <<>>]
               /\ client' = [client EXCEPT !.in = "select"]
          ELSE /\ Len(stream.up) < Window
               /\ stream' = [stream EXCEPT !.up = Append(@, Head(stream.upQ)), !.upQ = Tail(@)]
               /\ UNCHANGED client
    /\ UNCHANGED <<server, worker>>

ClientRecv ==
    /\ client.out = "recv" /\ stream.down # <<>>
    /\ LET whole == Recv(Head(stream.down))
       IN client' = [client EXCEPT !.hold = whole, !.out = IF whole = <<>> THEN @ ELSE "yield"]
    /\ stream' = [stream EXCEPT !.down = Tail(@)]
    /\ UNCHANGED <<server, worker>>

Yield ==
    /\ client.out = "yield" /\ ~client.cancelled
    /\ client' = IF client.hold[1].value = 0
                    THEN [client EXCEPT !.out = "recv", !.reported = @ + 1]
                    ELSE [client EXCEPT !.out = "recv", !.yielded = @ \o client.hold]
    /\ UNCHANGED <<stream, server, worker>>

EndOutput(err) == \* handleOutputStream returns
    /\ client' = [client EXCEPT !.outDoneC = TRUE, !.out = "wait", !.failed = err]
    /\ UNCHANGED <<stream, server, worker>>

YieldRefused == client.out = "yield" /\ client.cancelled /\ EndOutput(TRUE)

StreamEnded ==
    /\ client.out = "recv" /\ stream.status # "open"
    /\ stream.status = "ok" => stream.down = <<>>
    /\ EndOutput(stream.status = "lost")

ReturnAtOnce == \* mutant: inputDoneC is not waited for
    /\ client.out = "wait"
    /\ client' = [client EXCEPT !.out = "ret"]
    /\ UNCHANGED <<stream, server, worker>>

Return ==
    /\ client.out = "wait" /\ client.in = "done"
    /\ client' = [client EXCEPT !.out = "ret"]
    /\ UNCHANGED <<stream, server, worker>>

-----------------------------------------------------------------------------
(***************************************************************************)
(* The server's end.  A crash of the plugin takes all of it away.          *)
(***************************************************************************)
Alive   == stream.status # "lost"
CtxDone == server.run = "ret" \/ stream.status # "open"
At(l)   == Alive /\ server.run = l

\* Output, Initializing, go input, Worker.Run; a consumer closes its output there.
ServeUncounted == \* mutant: Initializing left out before input is started
    /\ At("start")
    /\ server' = [server EXCEPT !.run = "sync", !.in = "init", !.wg = @ + 1]
    /\ \E c \in BOOLEAN : worker' = [worker EXCEPT !.pc = "init", !.closed = c]
    /\ UNCHANGED <<client, stream>>

Serve ==
    /\ At("start")
    /\ server' = [server EXCEPT !.run = "sync", !.in = "init", !.wg = @ + 2]
    /\ \E c \in BOOLEAN : worker' = [worker EXCEPT !.pc = "init", !.closed = c]
    /\ UNCHANGED <<client, stream>>

Synchronize ==
    /\ At("sync") /\ server.wg = 0
    /\ server' = [server EXCEPT !.run = "select", !.open = TRUE]
    /\ UNCHANGED <<client, stream, worker>>

\* A receive from errC or outputC; what it gave is sent next.
Select ==
    /\ At("select") /\ worker.offer # "none"
    /\ worker' = [worker EXCEPT !.offer = "none"]
    /\ stream' = [stream EXCEPT !.downQ = IF worker.offer = "error" THEN <<Msg(0, 0, TRUE)>>
                                          ELSE Send(worker.made, OutLen[worker.made])]
    /\ server' = [server EXCEPT !.run = "send"]
    /\ UNCHANGED client

SelectClosed(c) ==
    /\ At("select") /\ c \notin server.nilC
    /\ IF c = "errC" THEN worker.pc = "done" ELSE worker.closed
    /\ server' = [server EXCEPT !.nilC = @ \cup {c}]
    /\ UNCHANGED <<client, stream, worker>>

SendDown ==
    /\ At("send") /\ stream.status = "open"
    /\ IF stream.downQ = <<>>
          THEN server' = [server EXCEPT !.run = "select"] /\ UNCHANGED stream
          ELSE /\ Len(stream.down) < Window
               /\ stream' = [stream EXCEPT !.down = Append(@, Head(stream.downQ)), !.downQ = Tail(@)]
               /\ UNCHANGED server
    /\ UNCHANGED <<client, worker>>

EndStream(how) ==
    /\ server' = [server EXCEPT !.run = "ret"]
    /\ stream' = [stream EXCEPT !.status = IF @ = "open" THEN how ELSE @]
    /\ UNCHANGED <<client, worker>>

ServeEndsWithOutput == \* mutant: an error channel still open is not waited for
    At("select") /\ "outputC" \in server.nilC /\ EndStream("ok")

ServeEnds == At("select") /\ server.nilC = {"errC", "outputC"} /\ EndStream("ok")

\* The context is done, or a Send fails because the stream is gone.
ServeAborts == (At("select") \/ At("send")) /\ CtxDone /\ EndStream("canceled")

SetInput ==
    /\ Alive /\ server.in = "init"
    /\ server' = [server EXCEPT !.in = "barrier", !.inputSet = TRUE, !.wg = @ - 1]
    /\ UNCHANGED <<client, stream, worker>>

InputPass ==
    /\ Alive /\ server.in = "barrier" /\ server.open
    /\ server' = [server EXCEPT !.in = "recv"]
    /\ UNCHANGED <<client, stream, worker>>

ServerRecv ==
    /\ Alive /\ server.in = "recv" /\ stream.up # <<>>
    /\ LET whole == Recv(Head(stream.up))
       IN server' = [server EXCEPT !.hold = whole, !.in = IF whole = <<>> THEN @ ELSE "forward"]
    /\ stream' = [stream EXCEPT !.up = Tail(@)]
    /\ UNCHANGED <<client, worker>>

\* The context is done, or Recv fails: the loop ends and closes the worker's input.
InputEnds ==
    /\ Alive /\ server.in = "recv"
    /\ CtxDone \/ (stream.up = <<>> /\ stream.sendClosed)
    /\ server' = [server EXCEPT !.in = "done"]
    /\ UNCHANGED <<client, stream, worker>>

-----------------------------------------------------------------------------
(***************************************************************************)
(* The plugin's worker: any adapter of vertex.go around any code.  It may  *)
(* read while it sends, yield any of its values, and stop reading.         *)
(***************************************************************************)
WorkerInitialized ==
    /\ Alive /\ worker.pc = "init"
    /\ worker' = [worker EXCEPT !.pc = "barrier"]
    /\ server' = [server EXCEPT !.wg = @ - 1]
    /\ UNCHANGED <<client, stream>>

WorkerPass ==
    /\ Alive /\ worker.pc = "barrier" /\ server.open
    /\ worker' = [worker EXCEPT !.pc = "run"]
    /\ UNCHANGED <<client, stream, server>>

WorkerReads == \* meets the send on inputC in GRPCServer.input
    /\ Alive /\ worker.pc = "run" /\ server.in = "forward"
    /\ worker' = [worker EXCEPT !.fed = @ \o server.hold]
    /\ server' = [server EXCEPT !.in = "recv"]
    /\ UNCHANGED <<client, stream>>

WorkerSends ==
    /\ Alive /\ worker.pc = "run" /\ worker.offer = "none"
    /\ \/ /\ ~worker.closed /\ ~CtxDone /\ worker.made < Len(OutLen)
          /\ worker' = [worker EXCEPT !.made = @ + 1, !.offer = "value"]
       \/ /\ worker.raised < MaxErr
          /\ worker' = [worker EXCEPT !.raised = @ + 1, !.offer = "error"]
    /\ UNCHANGED <<client, stream, server>>

WorkerReturns ==
    /\ Alive /\ worker.pc \in {"run", "exit"} /\ worker.offer = "none"
    /\ worker' = [worker EXCEPT !.pc = IF @ = "run" THEN "exit" ELSE "done", !.closed = TRUE]
    /\ UNCHANGED <<client, stream, server>>

-----------------------------------------------------------------------------
Fault(f) == f \in Faults /\ server.run # "off" /\ stream.status = "open"

\* The stage's context ends, and with it the stream made from it.
Cancel ==
    /\ Fault("cancel")
    /\ client' = [client EXCEPT !.cancelled = TRUE]
    /\ stream' = [stream EXCEPT !.status = "canceled"]
    /\ UNCHANGED <<server, worker>>

\* The plugin's process dies.  To the client a message over gRPC's receive limit
\* (4 MiB unless set), which a payload that Send does not cut may be, looks the
\* same: the stream ends with an error.
Crash ==
    /\ Fault("crash")
    /\ stream' = [stream EXCEPT !.status = "lost"]
    /\ UNCHANGED <<client, server, worker>>

ClientIn  == ContextDone \/ SeeOutputDone \/ TakeInput \/ InputClosed \/ SendUp
ClientRun == Refused \/ Run \/ ClientRecv \/ Yield \/ YieldRefused \/ StreamEnded \/ Return
ServerIn  == SetInput \/ InputPass \/ ServerRecv \/ InputEnds
ServerRun ==
    \/ Serve \/ Synchronize \/ Select \/ SendDown \/ ServeEnds \/ ServeAborts
    \/ \E c \in {"errC", "outputC"} : SelectClosed(c)
WorkerRun == WorkerInitialized \/ WorkerPass \/ WorkerReads \/ WorkerSends \/ WorkerReturns

Step == ClientIn \/ ClientRun \/ ServerIn \/ ServerRun \/ WorkerRun \/ Cancel \/ Crash

\* Run has returned; the plugin's process may stay behind, blocked.
Over == client.out = "ret" /\ UNCHANGED vars

Next == Step \/ Over

Fairness ==
    /\ WF_vars(ClientIn) /\ WF_vars(ClientRun)
    /\ WF_vars(ServerIn) /\ WF_vars(ServerRun) /\ WF_vars(WorkerRun)

Spec == Init /\ [][Next]_vars /\ Fairness

-----------------------------------------------------------------------------
(***************************************************************************)
(* Properties.                                                             *)
(***************************************************************************)
\* SetInput runs in a goroutine of its own (grpc_server.go:69), beside the
\* worker's: the worker must not look at its input field before.
InputBeforeWork == worker.pc \in {"run", "exit", "done"} => server.inputSet

\* The members of s whose places are in places, in their order.
Kept(s, places) ==
    LET kept[i \in 0..Len(s)] ==
          IF i = 0 THEN <<>>
          ELSE IF i \in places THEN Append(kept[i - 1], s[i]) ELSE kept[i - 1]
    IN  kept[Len(s)]

\* What RunLoop lets through of the first n values: those with a byte in them.
Through(len, n) ==
    Kept([k \in 1..n |-> [value |-> k, len |-> len[k]]], {k \in 1..n : len[k] > 0})

\* As far as the stream carries them, payloads arrive whole, once, in the order they
\* were given, in both directions: what RunLoop.Send cuts, RunLoop.Recv would have
\* to put together.
Whole ==
    /\ IsPrefix(worker.fed, Through(InLen, client.taken))
    /\ IsPrefix(client.yielded, Through(OutLen, worker.made))

\* A Run that ends without an error and was not cancelled has yielded every
\* value and every error of the plugin's worker.
CompleteReturn ==
    client.out = "ret" /\ ~client.failed /\ ~client.cancelled =>
        /\ client.yielded = Through(OutLen, worker.made)
        /\ client.reported = worker.raised

\* The client is the patient runner Pipeline takes it for, also when the plugin
\* stops reading, ends early or dies: its input is drained all the same.
Stage == INSTANCE PatientRunner WITH
    Total    <- Len(InLen),
    read     <- client.taken,
    ended    <- client.eof,
    excused  <- client.cancelled \/ (client.out = "ret" /\ client.in = "off"),
    returned <- client.out = "ret"

ImplementsRunner == Stage!Spec
=============================================================================
