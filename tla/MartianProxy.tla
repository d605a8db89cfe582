---------------------------- MODULE MartianProxy ----------------------------
(***************************************************************************)
(* The martianProxy plugin: its options, its listeners, and the log of the *)
(* exchanges that go through the proxy, which is what the stage yields     *)
(* (plugins/proxy/martianProxy), inside the producer's adapter.  Exchanges *)
(* run in the proxy library's goroutines; WritterLogger's mutex is held    *)
(* while an entry is yielded, that is, until the graph takes it.           *)
(***************************************************************************)
EXTENDS Sequences, SequencesExt

CONSTANT Exchange \* the requests clients may make

VARIABLES
    config,  \* MartianInputConfig: the certificate files, the modifiers
    px,      \* the proxy under construction, and Produce's place
    ex,      \* ex[e]: where exchange e stands
    logger,  \* WritterLogger: the holder of mu, entries
    yielded, \* the entries the stage's reader took: <<exchange, kind>>
    ctx      \* "cancelled", "ended" (the adapter's); "deaf": nobody reads

vars == <<config, px, ex, logger, yielded, ctx>>

Active == {e \in Exchange : ex[e].kind \in {"request", "wire", "response"}}

-----------------------------------------------------------------------------
(***************************************************************************)
(* getOptions, and NewProxy, which applies the options one by one.         *)
(***************************************************************************)
getOptionsWriterLast == \* mutant: the default writer is set after the modifiers
    <<IF config.cert = "none" THEN "generated" ELSE "file",
      IF config.modifier = "none" THEN "har" ELSE "modifiers", "writer">>

getOptions ==
    <<"writer",
      IF config.cert = "none" THEN "generated" ELSE "file",
      IF config.modifier = "none" THEN "har" ELSE "modifiers">>

Init ==
    /\ config \in [cert : {"none", "good", "missing", "malformed"},
                   modifier : {"none", "output", "other", "invalid"}]
    /\ px = [pc |-> "options", done |-> 0, mitm |-> FALSE, default |-> "stdout",
             loggers |-> {}, up |-> {}, err |-> FALSE]
    /\ ex = [e \in Exchange |-> [kind |-> "idle", at |-> "end"]]
    /\ logger = [mu |-> {}, entries |-> {}]
    /\ yielded = <<>> /\ ctx = {}

WithDefaultWriter(p) == {[p EXCEPT !.default = "yield"]}

\* The certificate's generation may fail.
WithMitmCertsGenerated(p) ==
    {[p EXCEPT !.mitm = TRUE], [p EXCEPT !.pc = "return", !.err = TRUE]}

\* Missing files are replaced; a file that does not parse gives no certificate
\* to take the first of, and the plugin's process panics.
WithMitmCertsFile(p) ==
    CASE config.cert = "missing"   -> WithMitmCertsGenerated(p)
      [] config.cert = "good"      -> {[p EXCEPT !.mitm = TRUE]}
      [] config.cert = "malformed" -> {[p EXCEPT !.pc = "panic"]}

WithHarWriterLog(p) == {[p EXCEPT !.loggers = @ \cup {"yield"}]}

\* An "output" modifier is parsed into a logger that writes to DefaultWriter.
WithModifiers(p) ==
    CASE config.modifier = "invalid" -> {[p EXCEPT !.pc = "return", !.err = TRUE]}
      [] config.modifier = "output"  -> {[p EXCEPT !.loggers = @ \cup {p.default}]}
      [] config.modifier = "other"   -> {p}

NewProxy ==
    /\ px.pc = "options"
    /\ px' \in IF px.done = Len(getOptions) THEN {[px EXCEPT !.pc = "listen"]}
               ELSE LET p == [px EXCEPT !.done = @ + 1]
                        o == getOptions[p.done]
                    IN  CASE o = "writer"    -> WithDefaultWriter(p)
                          [] o = "generated" -> WithMitmCertsGenerated(p)
                          [] o = "file"      -> WithMitmCertsFile(p)
                          [] o = "har"       -> WithHarWriterLog(p)
                          [] o = "modifiers" -> WithModifiers(p)
    /\ UNCHANGED <<config, ex, logger, yielded, ctx>>

-----------------------------------------------------------------------------
(***************************************************************************)
(* Proxy.Run: each listener is served as soon as it listens, and stays up  *)
(* when the next one fails.                                                *)
(***************************************************************************)
Following(pc) ==
    CASE pc = "listen"    -> IF px.mitm THEN "listenTLS" ELSE "listenAPI"
      [] pc = "listenTLS" -> "listenAPI"
      [] pc = "listenAPI" -> "wait"

Listen ==
    /\ px.pc \in {"listen", "listenTLS", "listenAPI"}
    /\ \/ px' = [px EXCEPT !.pc = Following(@), !.up = @ \cup {px.pc}]
       \/ px' = [px EXCEPT !.pc = "close", !.err = TRUE]
    /\ UNCHANGED <<config, ex, logger, yielded, ctx>>

ContextDone ==
    /\ px.pc = "wait" /\ "cancelled" \in ctx
    /\ px' = [px EXCEPT !.pc = "close"]
    /\ UNCHANGED <<config, ex, logger, yielded, ctx>>

CloseAtOnce == \* mutant: px.Close does not wait
    /\ px.pc = "close"
    /\ px' = [px EXCEPT !.pc = "return"]
    /\ UNCHANGED <<config, ex, logger, yielded, ctx>>

\* The deferred px.Close: martian takes no new exchange and waits for the rest.
Close ==
    /\ px.pc = "close" /\ Active = {}
    /\ px' = [px EXCEPT !.pc = "return"]
    /\ UNCHANGED <<config, ex, logger, yielded, ctx>>

\* The adapter: the error is read, the output closed, its context ended.
Report ==
    /\ px.pc = "return" /\ px.err
    /\ px' = [px EXCEPT !.err = FALSE]
    /\ UNCHANGED <<config, ex, logger, yielded, ctx>>

CloseOutput ==
    /\ px.pc = "return" /\ ~px.err
    /\ px' = [px EXCEPT !.pc = "closed"]
    /\ UNCHANGED <<config, ex, logger, yielded, ctx>>

ProducerCancel ==
    /\ px.pc = "closed" /\ "ended" \notin ctx
    /\ ctx' = ctx \cup {"ended"}
    /\ UNCHANGED <<config, px, ex, logger, yielded>>

-----------------------------------------------------------------------------
(***************************************************************************)
(* An exchange: its request is modified, sent on, and its response is.     *)
(* The library goes on whatever error a modifier returns.                  *)
(***************************************************************************)
Step(e, kind, at) == ex' = [ex EXCEPT ![e] = [kind |-> kind, at |-> at]]
After(kind) == IF kind = "request" THEN "wire" ELSE "done"
In(e, at) == ex[e].kind \in {"request", "response"} /\ ex[e].at = at

Accept(e) ==
    /\ ex[e].kind = "idle" /\ px.up # {} /\ px.pc \in {"listenTLS", "listenAPI", "wait"}
    /\ Step(e, "request", "end") \/ (px.loggers # {} /\ Step(e, "request", "convert"))
    /\ UNCHANGED <<config, px, logger, yielded, ctx>>

RoundTrip(e) ==
    /\ ex[e].kind = "wire"
    /\ Step(e, "response", ex[e].at)
    /\ UNCHANGED <<config, px, logger, yielded, ctx>>

PassBy(e) == \* no logger among the modifiers, or a path of the proxy's own API
    /\ In(e, "end")
    /\ Step(e, After(ex[e].kind), "end")
    /\ UNCHANGED <<config, px, logger, yielded, ctx>>

Convert(e) == \* to an entry of a HAR log, which may fail
    /\ In(e, "convert")
    /\ \/ Step(e, ex[e].kind, "lock")
       \/ Step(e, IF ex[e].kind = "request" THEN "wire" ELSE "lost", "convert")
    /\ UNCHANGED <<config, px, logger, yielded, ctx>>

\* ModifyRequest, with the mutex.  Every exchange has an ID of its own, so that
\* none is a duplicate, and an entry made of the HAR structures is always
\* marshalled: those two errors are left out.
LogRequest(e) ==
    /\ In(e, "lock") /\ ex[e].kind = "request" /\ logger.mu = {}
    /\ Step(e, "request", "yield")
    /\ logger' = [mu |-> {e}, entries |-> logger.entries \cup {e}]
    /\ UNCHANGED <<config, px, yielded, ctx>>

LogResponseOfAny(e) == \* mutant: no look whether there is an entry
    /\ In(e, "lock") /\ ex[e].kind = "response" /\ logger.mu = {}
    /\ Step(e, "response", "yield")
    /\ logger' = [mu |-> {e}, entries |-> logger.entries \ {e}]
    /\ UNCHANGED <<config, px, yielded, ctx>>

LogResponse(e) == \* ModifyResponse, with the mutex
    /\ In(e, "lock") /\ ex[e].kind = "response" /\ logger.mu = {}
    /\ \/ /\ e \notin logger.entries
          /\ Step(e, "done", "convert") /\ UNCHANGED logger
       \/ /\ e \in logger.entries
          /\ Step(e, "response", "yield")
          /\ logger' = [mu |-> {e}, entries |-> logger.entries \ {e}]
    /\ UNCHANGED <<config, px, yielded, ctx>>

YieldKeepingLock(e) == \* mutant: the error path does not unlock
    /\ In(e, "yield")
    /\ IF ctx = {} THEN Step(e, ex[e].kind, "send") ELSE Step(e, After(ex[e].kind), "convert")
    /\ UNCHANGED <<config, px, logger, yielded, ctx>>

Yield(e) == \* writeEntries, YieldWriter, the adapter's yield
    /\ In(e, "yield")
    /\ \/ ctx = {} /\ Step(e, ex[e].kind, "send") /\ UNCHANGED logger
       \/ /\ ctx # {} /\ Step(e, After(ex[e].kind), "convert")
          /\ logger' = [logger EXCEPT !.mu = {}]
    /\ UNCHANGED <<config, px, yielded, ctx>>

SendOutput(e) ==
    /\ In(e, "send") /\ "deaf" \notin ctx /\ px.pc # "closed"
    /\ yielded' = Append(yielded, <<e, ex[e].kind>>)
    /\ Step(e, After(ex[e].kind), "convert")
    /\ logger' = [logger EXCEPT !.mu = {}]
    /\ UNCHANGED <<config, px, ctx>>

Cancel ==
    /\ px.pc # "panic" /\ ctx \in {{}, {"cancelled"}}
    /\ ctx' = IF ctx = {} THEN {"cancelled"} ELSE {"cancelled", "deaf"}
    /\ UNCHANGED <<config, px, ex, logger, yielded>>

Produce == NewProxy \/ Listen \/ ContextDone \/ Close \/ CloseOutput \/ ProducerCancel
Proxied(e) ==
    \/ RoundTrip(e) \/ PassBy(e) \/ Convert(e) \/ LogRequest(e) \/ LogResponse(e)
    \/ Yield(e) \/ SendOutput(e)

Next == Produce \/ Report \/ Cancel \/ \E e \in Exchange : Accept(e) \/ Proxied(e)

\* Produce's goroutine runs, and an exchange under way goes on: a response or
\* an error always comes.  Whether the output is read is the graph's business.
Spec ==
    /\ Init /\ [][Next]_vars
    /\ WF_vars(Produce) /\ \A e \in Exchange : SF_vars(Proxied(e))

-----------------------------------------------------------------------------
Place(x) == CHOOSE i \in DOMAIN yielded : yielded[i] = x

\* An exchange is logged once with its request and then at most once with its
\* response, never with a response alone; and its entry is forgotten with the
\* exchange, unless its response could not be converted (WritterLogger).
Paired ==
    /\ IsInjective(yielded)
    /\ \A e \in Exchange :
         /\ <<e, "response">> \in ToSet(yielded) =>
              /\ <<e, "request">> \in ToSet(yielded)
              /\ Place(<<e, "request">>) < Place(<<e, "response">>)
         /\ e \in logger.entries => ex[e].kind \notin {"idle", "done"}

\* The output is closed under no exchange: nothing can send on it, and nobody
\* is left with the mutex (Produce's deferred Close, then the adapter's).
QuietAfterClose == px.pc = "closed" => Active = {} /\ logger.mu = {}

\* Whatever the configuration, what the log writes goes to the stage's output
\* (the order of getOptions, and NewLogger's choice of a writer).
LogsToStage == px.loggers \subseteq {"yield"}

\* The stage ends with its context, unless an entry waits for a reader that has
\* gone (px.Close against the logger's mutex).
EndsOrUnread ==
    (px.pc = "wait" /\ "cancelled" \in ctx) ~>
        \/ px.pc = "closed"
        \/ "deaf" \in ctx /\ \E e \in Exchange : In(e, "send")
=============================================================================
