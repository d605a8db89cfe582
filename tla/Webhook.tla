------------------------------- MODULE Webhook -------------------------------
(***************************************************************************)
(* The webhook plugin: an HTTP server whose handlers yield what they are   *)
(* sent, until the stage's context ends (plugins/webhooks, RunServer of    *)
(* helper/httpserver.go), inside the producer's adapter                    *)
(* (producerWorker.Run, core/graph/vertex.go).  The handlers run in the    *)
(* server's goroutines; a shutdown waits for them, but not for ever.       *)
(***************************************************************************)
EXTENDS Sequences, SequencesExt

CONSTANT Request \* the HTTP requests that may come in

VARIABLES
    srv,       \* Produce and its adapter
    start,     \* the goroutine of e.Start
    handler,   \* handler[r]: where the handler of request r stands
    err,       \* what RunServer returns
    timedOut,  \* the shutdown gave up waiting
    ctx,       \* cancelled: the stage's context; ended: the adapter's own
    output,    \* outputC is open
    delivered, \* the requests whose body the stage's reader has
    reported   \* the adapter's errors the graph received

vars == <<srv, start, handler, err, timedOut, ctx, output, delivered, reported>>

Active == {r \in Request : handler[r] \in {"read", "yield", "send"}}

Init ==
    /\ srv = "init" /\ start = "off"
    /\ handler = [r \in Request |-> "idle"]
    /\ err = "nil" /\ timedOut = FALSE
    /\ ctx = {} /\ output = "open"
    /\ delivered = <<>> /\ reported = <<>>

TypeOK ==
    /\ srv \in {"init", "select", "shutdown", "returned", "errC", "close", "cancel", "done"}
    /\ start \in {"off", "listen", "serve", "send", "done"}
    /\ handler \in [Request -> {"idle", "read", "yield", "send", "ok", "failed", "aborted"}]
    /\ err \in {"nil", "start", "deadline"} /\ timedOut \in BOOLEAN
    /\ ctx \subseteq {"cancelled", "ended"} /\ output \in {"open", "closed"}
    /\ delivered \in Seq(Request) /\ reported \in Seq({"start", "deadline"})

-----------------------------------------------------------------------------
(***************************************************************************)
(* RunServer: the goroutine that serves, the select, the deferred shutdown *)
(***************************************************************************)
Run ==
    /\ srv = "init"
    /\ srv' = "select" /\ start' = "listen"
    /\ UNCHANGED <<handler, err, timedOut, ctx, output, delivered, reported>>

Listen ==
    /\ start = "listen" /\ srv = "select"
    /\ start' = "serve"
    /\ UNCHANGED <<srv, handler, err, timedOut, ctx, output, delivered, reported>>

\* No address to listen on, accepting fails, or the server is shut down: the
\* error of Start goes to errCServer, where nobody may be left to read it.
StartFails ==
    /\ start \in {"listen", "serve"}
    /\ start' = "send"
    /\ UNCHANGED <<srv, handler, err, timedOut, ctx, output, delivered, reported>>

ServerError ==
    /\ srv = "select" /\ start = "send"
    /\ srv' = "shutdown" /\ start' = "done" /\ err' = "start"
    /\ UNCHANGED <<handler, timedOut, ctx, output, delivered, reported>>

ContextDone ==
    /\ srv = "select" /\ "cancelled" \in ctx
    /\ srv' = "shutdown"
    /\ UNCHANGED <<start, handler, err, timedOut, ctx, output, delivered, reported>>

CloseServer == \* mutant: e.Close() does not wait for the handlers
    /\ srv = "shutdown"
    /\ srv' = "returned" /\ err' = "nil"
    /\ UNCHANGED <<start, handler, timedOut, ctx, output, delivered, reported>>

\* The deferred function assigns the result: an error of Start is overwritten.
Shutdown ==
    /\ srv = "shutdown" /\ Active = {}
    /\ srv' = "returned" /\ err' = "nil"
    /\ UNCHANGED <<start, handler, timedOut, ctx, output, delivered, reported>>

TimeoutSilent == \* mutant: the deferred function drops the shutdown's result
    /\ srv = "shutdown" /\ Active # {}
    /\ srv' = "returned" /\ timedOut' = TRUE
    /\ UNCHANGED <<start, handler, err, ctx, output, delivered, reported>>

TimeoutNever == FALSE /\ UNCHANGED vars \* mutant: the shutdown has no deadline

Timeout ==
    /\ srv = "shutdown" /\ Active # {}
    /\ srv' = "returned" /\ err' = "deadline" /\ timedOut' = TRUE
    /\ UNCHANGED <<start, handler, ctx, output, delivered, reported>>

-----------------------------------------------------------------------------
(***************************************************************************)
(* The handler, and the yield of the producer's adapter.                   *)
(***************************************************************************)
Answer(r, status) ==
    /\ handler' = [handler EXCEPT ![r] = status]
    /\ UNCHANGED <<srv, start, err, timedOut, ctx, output, reported>>

Receive(r) ==
    /\ handler[r] = "idle" /\ start = "serve" /\ srv = "select"
    /\ Answer(r, "read") /\ UNCHANGED delivered

ReadAll(r) ==
    /\ handler[r] = "read"
    /\ Answer(r, "yield") \/ Answer(r, "failed")
    /\ UNCHANGED delivered

YieldSilently(r) == \* mutant: a late value is dropped and the client told nothing
    /\ handler[r] = "yield"
    /\ Answer(r, IF ctx = {} THEN "send" ELSE "ok")
    /\ UNCHANGED delivered

Yield(r) ==
    /\ handler[r] = "yield"
    /\ Answer(r, IF ctx = {} THEN "send" ELSE "failed")
    /\ UNCHANGED delivered

\* The reader takes the value; on a closed channel the send panics, and
\* net/http drops the connection.
SendOutput(r) ==
    /\ handler[r] = "send"
    /\ \/ output = "open" /\ Answer(r, "ok") /\ delivered' = Append(delivered, r)
       \/ output = "closed" /\ Answer(r, "aborted") /\ UNCHANGED delivered

-----------------------------------------------------------------------------
(***************************************************************************)
(* The rest of producerWorker.Run: report, close, and only then cancel.    *)
(***************************************************************************)
Return ==
    /\ srv = "returned"
    /\ srv' = IF err = "nil" THEN "close" ELSE "errC"
    /\ UNCHANGED <<start, handler, err, timedOut, ctx, output, delivered, reported>>

Report ==
    /\ srv = "errC"
    /\ srv' = "close" /\ reported' = Append(reported, err)
    /\ UNCHANGED <<start, handler, err, timedOut, ctx, output, delivered>>

Close ==
    /\ srv = "close"
    /\ srv' = "cancel" /\ output' = "closed"
    /\ UNCHANGED <<start, handler, err, timedOut, ctx, delivered, reported>>

ProducerCancel ==
    /\ srv = "cancel"
    /\ srv' = "done" /\ ctx' = ctx \cup {"ended"}
    /\ UNCHANGED <<start, handler, err, timedOut, output, delivered, reported>>

Cancel ==
    /\ "cancelled" \notin ctx
    /\ ctx' = ctx \cup {"cancelled"}
    /\ UNCHANGED <<srv, start, handler, err, timedOut, output, delivered, reported>>

Server == ServerError \/ ContextDone \/ Shutdown \/ Timeout
Adapter == Run \/ Return \/ Close \/ ProducerCancel
Handler(r) == Receive(r) \/ ReadAll(r) \/ Yield(r) \/ SendOutput(r)

Next ==
    \/ Server \/ Adapter \/ Report \/ Listen \/ StartFails \/ Cancel
    \/ \E r \in Request : Handler(r)

\* The stage's own goroutine and the shutdown's timer run on; nothing is
\* assumed of the clients, nor of who reads the output and the errors.
Fairness == WF_vars(Server) /\ WF_vars(Adapter)

Spec == Init /\ [][Next]_vars /\ Fairness

-----------------------------------------------------------------------------
\* A client is told its request was accepted exactly when the stage's reader
\* has the body, and it has it once (Produce's handler and the adapter's yield).
Answered ==
    /\ IsInjective(delivered)
    /\ \A r \in Request : handler[r] = "ok" <=> r \in ToSet(delivered)

\* The output closes under a handler, and a request is aborted, only when the
\* shutdown gave up waiting for it (RunServer's deferred shutdown).
GracefulClose ==
    \/ timedOut
    \/ /\ output = "closed" => Active = {}
       /\ \A r \in Request : handler[r] # "aborted"

\* No request is dropped in silence: before the output closes under a handler,
\* and the send that panics aborts its connection, the graph has read the
\* shutdown's error (RunServer's named result, the adapter's report and Close).
AbortTold ==
    (\E r \in Request : handler[r] = "aborted") => "deadline" \in ToSet(reported)

\* Whatever clients and graph do, the stage ends once its context does, or
\* waits for its timeout to be read.
ReturnsOnCancel == ("cancelled" \in ctx) ~> (srv \in {"errC", "done"})
=============================================================================
