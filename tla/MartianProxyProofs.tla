------------------------- MODULE MartianProxyProofs -------------------------
(***************************************************************************)
(* Theorems about MartianProxy, for any number of exchanges.               *)
(***************************************************************************)
EXTENDS MartianProxy, Integers, TLAPS

Kind == {"idle", "request", "wire", "response", "done", "lost"}
At   == {"end", "convert", "lock", "yield", "send"}
Pc   == {"options", "listen", "listenTLS", "listenAPI", "wait", "close", "return",
         "closed", "panic"}
Logged == ToSet(yielded)

ConfigType == config \in [cert : {"none", "good", "missing", "malformed"},
                          modifier : {"none", "output", "other", "invalid"}]
PxType == px \in [pc : Pc, done : 0..3, mitm : BOOLEAN, default : {"stdout", "yield"},
                  loggers : SUBSET {"stdout", "yield"},
                  up : SUBSET {"listen", "listenTLS", "listenAPI"}, err : BOOLEAN]
ExType == ex \in [Exchange -> [kind : Kind, at : At]]
LoggerType == logger \in [mu : SUBSET Exchange, entries : SUBSET Exchange]
TypeOK ==
    /\ ConfigType /\ PxType /\ ExType /\ LoggerType
    /\ yielded \in Seq(Exchange \X {"request", "response"})
    /\ ctx \subseteq {"cancelled", "ended", "deaf"}

-----------------------------------------------------------------------------
(***************************************************************************)
(* The inductive invariant.                                                *)
(***************************************************************************)
\* The writer is set before any modifier is made.
WriterFirst == /\ px.done >= 1 => px.default = "yield"
               /\ LogsToStage

\* The mutex is held by the one exchange whose entry is being yielded.
Locked ==
    /\ \A e \in Exchange : e \in logger.mu <=> In(e, "yield") \/ In(e, "send")
    /\ \A d, e \in logger.mu : d = e
    /\ \A e \in Exchange : ex[e].kind = "wire" => ex[e].at \in {"end", "convert"}

\* There are exchanges only between the first listener and the end of Close.
Quiet == px.pc \in {"options", "listen", "return", "closed", "panic"} => Active = {}

\* An entry is there from the request's turn with the mutex to the response's,
\* and it is one of a logged request unless the stage's context has ended.
Entries ==
    \A e \in Exchange : e \in logger.entries =>
        \/ ex[e].kind = "request" /\ ex[e].at \in {"yield", "send"}
        \/ /\ ex[e].kind \in {"wire", "response"} /\ ex[e].at \in {"convert", "lock"}
           /\ <<e, "request">> \in Logged \/ ctx # {}
        \/ ex[e].kind = "lost"

\* What is logged already, and what is about to be.
History ==
    \A e \in Exchange :
        /\ ex[e].kind \in {"idle", "request"} => <<e, "request">> \notin Logged
        /\ ex[e].kind \notin {"done", "lost"} => <<e, "response">> \notin Logged
        /\ In(e, "yield") /\ ex[e].kind = "response" => <<e, "request">> \in Logged \/ ctx # {}
        /\ In(e, "send") /\ ex[e].kind = "response" => <<e, "request">> \in Logged

Ordered ==
    /\ IsInjective(yielded)
    /\ \A e \in Exchange : \A j \in DOMAIN yielded : yielded[j] = <<e, "response">> =>
           \E i \in DOMAIN yielded : i < j /\ yielded[i] = <<e, "request">>

IInv == TypeOK /\ WriterFirst /\ Locked /\ Quiet /\ Entries /\ History /\ Ordered

-----------------------------------------------------------------------------
\* One more entry at the end of the log.
LEMMA AppendEntry ==
    ASSUME yielded \in Seq(Exchange \X {"request", "response"}), Ordered,
           NEW e \in Exchange, NEW k \in {"request", "response"},
           yielded' = Append(yielded, <<e, k>>), <<e, k>> \notin Logged,
           k = "response" => <<e, "request">> \in Logged
    PROVE  /\ yielded' \in Seq(Exchange \X {"request", "response"})
           /\ Logged' = Logged \cup {<<e, k>>}
           /\ Ordered'
<1>1. /\ yielded' \in Seq(Exchange \X {"request", "response"})
      /\ Len(yielded') = Len(yielded) + 1 /\ Len(yielded) \in Nat
      /\ DOMAIN yielded = 1..Len(yielded) /\ DOMAIN yielded' = 1..Len(yielded')
      /\ yielded'[Len(yielded')] = <<e, k>>
      /\ \A i \in DOMAIN yielded : yielded'[i] = yielded[i]
    OBVIOUS
<1>2. /\ DOMAIN yielded' = DOMAIN yielded \cup {Len(yielded')}
      /\ Len(yielded') \notin DOMAIN yielded
      /\ \A i \in DOMAIN yielded : i < Len(yielded')
    BY <1>1
<1>3. Logged' = Logged \cup {<<e, k>>}
    BY <1>1, <1>2 DEF Logged, ToSet
<1>4. IsInjective(yielded')
    BY <1>1, <1>2 DEF Logged, ToSet, IsInjective, Ordered
<1>5. ASSUME NEW d \in Exchange, NEW j \in DOMAIN yielded', yielded'[j] = <<d, "response">>
      PROVE  \E i \in DOMAIN yielded' : i < j /\ yielded'[i] = <<d, "request">>
    <2>1. CASE j \in DOMAIN yielded
        BY <1>1, <1>2, <1>5, <2>1 DEF Ordered
    <2>2. CASE j = Len(yielded')
        <3>1. d = e /\ k = "response"
            BY <1>1, <1>5, <2>2
        <3> QED
            BY <1>1, <1>2, <2>2, <3>1 DEF Logged, ToSet
    <2> QED
        BY <1>2, <2>1, <2>2
<1> QED
    BY <1>1, <1>3, <1>4, <1>5 DEF Ordered

LEMMA InitIInv == Init => IInv
<1> SUFFICES ASSUME Init PROVE IInv
    OBVIOUS
<1>1. TypeOK
    <2>1. yielded \in Seq(Exchange \X {"request", "response"})
        BY DEF Init
    <2>2. ConfigType /\ PxType /\ ExType /\ LoggerType
        BY DEF Init, ConfigType, PxType, ExType, LoggerType, Kind, At, Pc
    <2> QED
        BY <2>1, <2>2 DEF Init, TypeOK
<1>2. WriterFirst /\ Locked /\ Quiet /\ Entries
    BY DEF Init, WriterFirst, LogsToStage, Locked, Quiet, Entries, Active, In
<1>3. Logged = {} /\ Ordered
    BY DEF Init, Logged, ToSet, Ordered, IsInjective
<1>4. History
    BY <1>3 DEF Init, History, In
<1> QED
    BY <1>1, <1>2, <1>3, <1>4 DEF IInv

-----------------------------------------------------------------------------
\* A proxy all of whose loggers write to the stage.
PxSet == [pc : Pc, done : 0..3, mitm : BOOLEAN, default : {"stdout", "yield"},
          loggers : SUBSET {"stdout", "yield"},
          up : SUBSET {"listen", "listenTLS", "listenAPI"}, err : BOOLEAN]
Good(q) == /\ q \in PxSet /\ q.pc \in {"options", "listen", "return", "panic"}
           /\ q.default = "yield" /\ q.loggers \subseteq {"yield"}

LEMMA OptionSteps ==
    ASSUME ConfigType, NEW p \in PxSet, Good(p), p.pc = "options"
    PROVE  /\ \A q \in WithDefaultWriter(p) : Good(q)
           /\ \A q \in WithMitmCertsGenerated(p) : Good(q)
           /\ config.cert # "none" => \A q \in WithMitmCertsFile(p) : Good(q)
           /\ \A q \in WithHarWriterLog(p) : Good(q)
           /\ config.modifier # "none" => \A q \in WithModifiers(p) : Good(q)
<1> USE DEF Good, PxSet, Pc
<1>1. \A q \in WithDefaultWriter(p) : Good(q)
    BY DEF WithDefaultWriter
<1>2. \A q \in WithMitmCertsGenerated(p) : Good(q)
    BY DEF WithMitmCertsGenerated
<1>3. ASSUME config.cert # "none" PROVE \A q \in WithMitmCertsFile(p) : Good(q)
    <2>1. CASE config.cert = "missing"
        BY <2>1, <1>2 DEF WithMitmCertsFile
    <2>2. CASE config.cert = "good"
        <3>1. WithMitmCertsFile(p) = {[p EXCEPT !.mitm = TRUE]}
            BY <2>2 DEF WithMitmCertsFile
        <3> QED
            BY <3>1, ZenonT(30)
    <2>3. CASE config.cert = "malformed"
        BY <2>3 DEF WithMitmCertsFile
    <2> QED
        BY <1>3, <2>1, <2>2, <2>3 DEF ConfigType
<1>4. \A q \in WithHarWriterLog(p) : Good(q)
    BY DEF WithHarWriterLog
<1>5. ASSUME config.modifier # "none" PROVE \A q \in WithModifiers(p) : Good(q)
    <2>1. CASE config.modifier = "invalid"
        <3>1. WithModifiers(p) = {[p EXCEPT !.pc = "return", !.err = TRUE]}
            BY <2>1 DEF WithModifiers
        <3>2. Good([p EXCEPT !.pc = "return", !.err = TRUE])
            OBVIOUS
        <3> QED
            BY <3>1, <3>2
    <2>2. CASE config.modifier = "output"
        <3>1. WithModifiers(p) = {[p EXCEPT !.loggers = @ \cup {p.default}]}
            BY <2>2 DEF WithModifiers
        <3> QED
            BY <3>1
    <2>3. CASE config.modifier = "other"
        BY <2>3 DEF WithModifiers
    <2> QED
        BY <1>5, <2>1, <2>2, <2>3 DEF ConfigType
<1> QED
    BY <1>1, <1>2, <1>3, <1>4, <1>5

LEMMA NewProxyStep ==
    ASSUME ConfigType, PxType, WriterFirst, NewProxy
    PROVE  PxType' /\ WriterFirst' /\ px'.pc \in {"options", "listen", "return", "panic"}
<1> DEFINE p == [px EXCEPT !.done = @ + 1]
<1>1. /\ px \in PxSet /\ px.done \in 0..3
      /\ px.done # 3 => p \in PxSet
      /\ p.done = px.done + 1 /\ p.pc = "options"
      /\ p.loggers \subseteq {"yield"} /\ p.default = px.default
    BY DEF PxType, PxSet, NewProxy, WriterFirst, LogsToStage
<1>2. /\ Len(getOptions) = 3 /\ getOptions[1] = "writer"
      /\ \/ getOptions[2] = "generated"
         \/ getOptions[2] = "file" /\ config.cert # "none"
      /\ \/ getOptions[3] = "har"
         \/ getOptions[3] = "modifiers" /\ config.modifier # "none"
    BY DEF getOptions
<1>3. CASE px.done = 3
    BY <1>1, <1>2, <1>3 DEF NewProxy, PxType, PxSet, Pc, WriterFirst, LogsToStage
<1>4. CASE px.done # 3
    <2> HIDE DEF p
    <2>1. /\ px' \in CASE getOptions[p.done] = "writer"    -> WithDefaultWriter(p)
                        [] getOptions[p.done] = "generated" -> WithMitmCertsGenerated(p)
                        [] getOptions[p.done] = "file"      -> WithMitmCertsFile(p)
                        [] getOptions[p.done] = "har"       -> WithHarWriterLog(p)
                        [] getOptions[p.done] = "modifiers" -> WithModifiers(p)
        BY <1>2, <1>4 DEF NewProxy, p
    <2>2. CASE px.done = 0
        <3>1. getOptions[p.done] = "writer"
            BY <1>1, <1>2, <2>2
        <3>2. px' \in WithDefaultWriter(p)
            BY <2>1, <3>1
        <3>3. px' = [p EXCEPT !.default = "yield"]
            BY <3>2 DEF WithDefaultWriter
        <3> QED
            BY <1>1, <1>4, <3>3 DEF PxType, PxSet, WriterFirst, LogsToStage
    <2>3. CASE px.done # 0
        <3>1. Good(p)
            BY <1>1, <1>4, <2>3 DEF Good, WriterFirst
        <3>2. p.done \in {2, 3}
            BY <1>1, <1>4, <2>3
        <3>3. Good(px')
            BY <1>1, <1>2, <1>4, <2>1, <3>1, <3>2, OptionSteps
        <3> QED
            BY <3>3 DEF Good, PxType, PxSet, WriterFirst, LogsToStage
    <2> QED
        BY <2>2, <2>3
<1> QED
    BY <1>3, <1>4

LEMMA ProduceStep ==
    ASSUME IInv, Produce \/ Report \/ Cancel
    PROVE  IInv'
<1>1. /\ UNCHANGED <<config, ex, logger, yielded>> /\ ctx \subseteq ctx'
      /\ ctx' \subseteq {"cancelled", "ended", "deaf"}
    BY DEF Produce, NewProxy, Listen, ContextDone, Close, CloseOutput, ProducerCancel, Report,
           Cancel, IInv, TypeOK
<1>2. PxType' /\ WriterFirst' /\ Quiet'
    <2>1. CASE NewProxy
        <3>1. px.pc = "options" /\ PxType' /\ WriterFirst'
            BY <2>1, NewProxyStep DEF IInv, TypeOK, NewProxy
        <3> QED
            BY <1>1, <3>1 DEF IInv, Quiet, Active
    <2>2. CASE Listen
        <3>1. px.up \cup {px.pc} \subseteq {"listen", "listenTLS", "listenAPI"}
            BY <2>2 DEF Listen, IInv, TypeOK, PxType
        <3>2. Following(px.pc) \in {"listenTLS", "listenAPI", "wait"}
            BY <2>2 DEF Listen, Following
        <3> QED
            BY <2>2, <3>1, <3>2, ZenonT(40)
            DEF Listen, IInv, TypeOK, PxType, Pc, WriterFirst, LogsToStage, Quiet
    <2>3. CASE ContextDone \/ Close \/ CloseOutput
        BY <1>1, <2>3 DEF ContextDone, Close, CloseOutput, IInv, TypeOK, PxType, Pc, WriterFirst,
                          LogsToStage, Quiet, Active
    <2>4. CASE Report
        BY <1>1, <2>4 DEF Report, IInv, TypeOK, PxType, Pc, WriterFirst, LogsToStage, Quiet, Active
    <2>5. CASE px' = px
        BY <1>1, <2>5 DEF IInv, TypeOK, PxType, WriterFirst, LogsToStage, Quiet, Active
    <2> QED
        BY <2>1, <2>2, <2>3, <2>4, <2>5 DEF Produce, ProducerCancel, Cancel
<1>3. TypeOK'
    BY <1>1, <1>2 DEF IInv, TypeOK, ConfigType, ExType, LoggerType
<1>4. Locked' /\ Entries' /\ History' /\ Ordered'
    <2>1. Locked'
        BY <1>1 DEF IInv, Locked, In
    <2>2. Entries'
        BY <1>1 DEF IInv, Entries, Logged, ToSet
    <2>3. History'
        BY <1>1 DEF IInv, History, Logged, ToSet, In
    <2>4. Ordered'
        BY <1>1 DEF IInv, Ordered, IsInjective
    <2> QED
        BY <2>1, <2>2, <2>3, <2>4
<1> QED
    BY <1>2, <1>3, <1>4 DEF IInv

-----------------------------------------------------------------------------
\* What every step of an exchange keeps.
LEMMA Kept ==
    ASSUME IInv, NEW e \in Exchange, Accept(e) \/ Proxied(e)
    PROVE  ConfigType' /\ PxType' /\ WriterFirst' /\ Quiet' /\ ctx' = ctx
<1>1. px' = px /\ config' = config /\ ctx' = ctx
    BY DEF Accept, Proxied, RoundTrip, PassBy, Convert, LogRequest, LogResponse, Yield, SendOutput
<1>2. px.pc \notin {"options", "listen", "return", "closed", "panic"}
    <2>1. CASE Accept(e)
        BY <2>1 DEF Accept
    <2>2. CASE Proxied(e)
        <3>1. e \in Active
            BY <2>2 DEF Proxied, RoundTrip, PassBy, Convert, LogRequest, LogResponse, Yield,
                        SendOutput, In, Active
        <3> QED
            BY <3>1 DEF IInv, Quiet
    <2> QED
        BY <2>1, <2>2
<1> QED
    BY <1>1, <1>2 DEF IInv, TypeOK, ConfigType, PxType, WriterFirst, LogsToStage, Quiet

LEMMA UnloggedStep ==
    ASSUME IInv, NEW e \in Exchange,
           Accept(e) \/ RoundTrip(e) \/ PassBy(e) \/ Convert(e) \/ LogRequest(e)
                     \/ LogResponse(e) \/ Yield(e)
    PROVE  IInv'
<1>1. ConfigType' /\ PxType' /\ WriterFirst' /\ Quiet' /\ ctx' = ctx
    BY Kept DEF Proxied
<1>2. yielded' = yielded /\ Logged' = Logged
    BY DEF Accept, RoundTrip, PassBy, Convert, LogRequest, LogResponse, Yield, Logged, ToSet
<1>3. \E k \in Kind, a \in At : Step(e, k, a)
    BY DEF Accept, RoundTrip, PassBy, Convert, LogRequest, LogResponse, Yield, After, In,
           IInv, TypeOK, ExType, Kind, At
<1>4. ExType'
    BY <1>3 DEF Step, IInv, TypeOK, ExType
<1>5. LoggerType'
    BY DEF Accept, RoundTrip, PassBy, Convert, LogRequest, LogResponse, Yield,
            IInv, TypeOK, LoggerType
<1>6. TypeOK'
    BY <1>1, <1>2, <1>4, <1>5 DEF IInv, TypeOK
<1>7. \A d \in Exchange \ {e} : ex'[d] = ex[d]
    BY <1>3 DEF Step, IInv, TypeOK, ExType
<1>8. Locked' /\ Entries' /\ History'
    <2>1. CASE Accept(e)
        <3>1. /\ ex[e].kind = "idle" /\ ex'[e].kind = "request"
              /\ ex'[e].at \in {"end", "convert"} /\ logger' = logger
            BY <2>1 DEF Accept, Step, In, IInv, TypeOK, ExType, LoggerType
        <3>2. Locked'
            BY <1>7, <3>1, ZenonT(30) DEF IInv, TypeOK, ExType, LoggerType, Locked, In, After
        <3>3. Entries'
            BY <1>1, <1>2, <1>7, <3>1 DEF IInv, TypeOK, ExType, LoggerType, Entries, History, In, After
        <3>4. History'
            BY <1>1, <1>2, <1>7, <3>1 DEF IInv, TypeOK, ExType, LoggerType, Entries, History, In, After
        <3> QED
            BY <3>2, <3>3, <3>4
    <2>2. CASE RoundTrip(e)
        <3>1. /\ ex[e].kind = "wire" /\ ex'[e].kind = "response"
              /\ ex'[e].at = ex[e].at /\ ex[e].at \in {"end", "convert"} /\ logger' = logger
            BY <2>2 DEF RoundTrip, Step, In, IInv, TypeOK, ExType, LoggerType, Locked
        <3>2. Locked'
            BY <1>7, <3>1, ZenonT(30) DEF IInv, TypeOK, ExType, LoggerType, Locked, In, After
        <3>3. Entries'
            BY <1>1, <1>2, <1>7, <3>1 DEF IInv, TypeOK, ExType, LoggerType, Entries, History, In, After
        <3>4. History'
            BY <1>1, <1>2, <1>7, <3>1 DEF IInv, TypeOK, ExType, LoggerType, Entries, History, In, After
        <3> QED
            BY <3>2, <3>3, <3>4
    <2>3. CASE PassBy(e)
        <3>1. /\ In(e, "end") /\ ex'[e].kind = After(ex[e].kind)
              /\ ex'[e].at = "end" /\ logger' = logger
            BY <2>3 DEF PassBy, Step, In, IInv, TypeOK, ExType, LoggerType
        <3>2. Locked'
            BY <1>7, <3>1, ZenonT(30) DEF IInv, TypeOK, ExType, LoggerType, Locked, In, After
        <3>3. Entries'
            BY <1>1, <1>2, <1>7, <3>1 DEF IInv, TypeOK, ExType, LoggerType, Entries, History, In, After
        <3>4. History'
            BY <1>1, <1>2, <1>7, <3>1 DEF IInv, TypeOK, ExType, LoggerType, Entries, History, In, After
        <3> QED
            BY <3>2, <3>3, <3>4
    <2>4. CASE Convert(e)
        <3>1. /\ In(e, "convert") /\ logger' = logger
              /\ \/ ex'[e].kind = ex[e].kind /\ ex'[e].at = "lock"
                 \/ /\ ex'[e].at = "convert"
                    /\ ex'[e].kind = IF ex[e].kind = "request" THEN "wire" ELSE "lost"
            BY <2>4 DEF Convert, Step, In, IInv, TypeOK, ExType, LoggerType
        <3>2. Locked'
            BY <1>7, <3>1, ZenonT(30) DEF IInv, TypeOK, ExType, LoggerType, Locked, In, After
        <3>3. Entries'
            BY <1>1, <1>2, <1>7, <3>1 DEF IInv, TypeOK, ExType, LoggerType, Entries, History, In, After
        <3>4. History'
            BY <1>1, <1>2, <1>7, <3>1 DEF IInv, TypeOK, ExType, LoggerType, Entries, History, In, After
        <3> QED
            BY <3>2, <3>3, <3>4
    <2>5. CASE LogRequest(e)
        <3>1. /\ In(e, "lock") /\ ex[e].kind = "request" /\ logger.mu = {}
              /\ ex'[e].kind = "request" /\ ex'[e].at = "yield"
              /\ logger'.mu = {e} /\ logger'.entries = logger.entries \cup {e}
            BY <2>5 DEF LogRequest, Step, In, IInv, TypeOK, ExType, LoggerType
        <3>2. Locked'
            BY <1>7, <3>1, ZenonT(30) DEF IInv, TypeOK, ExType, LoggerType, Locked, In, After
        <3>3. Entries'
            BY <1>1, <1>2, <1>7, <3>1 DEF IInv, TypeOK, ExType, LoggerType, Entries, History, In, After
        <3>4. History'
            BY <1>1, <1>2, <1>7, <3>1 DEF IInv, TypeOK, ExType, LoggerType, Entries, History, In, After
        <3> QED
            BY <3>2, <3>3, <3>4
    <2>6. CASE LogResponse(e)
        <3>1. /\ In(e, "lock") /\ ex[e].kind = "response" /\ logger.mu = {}
              /\ \/ /\ ex'[e].kind = "done" /\ ex'[e].at = "convert"
                    /\ e \notin logger.entries /\ logger' = logger
                 \/ /\ ex'[e].kind = "response" /\ ex'[e].at = "yield" /\ e \in logger.entries
                    /\ logger'.mu = {e} /\ logger'.entries = logger.entries \ {e}
            BY <2>6 DEF LogResponse, Step, In, IInv, TypeOK, ExType, LoggerType
        <3>2. Locked'
            BY <1>7, <3>1, ZenonT(30) DEF IInv, TypeOK, ExType, LoggerType, Locked, In, After
        <3>3. Entries'
            BY <1>1, <1>2, <1>7, <3>1 DEF IInv, TypeOK, ExType, LoggerType, Entries, History, In, After
        <3>4. History'
            <4>1. ASSUME e \in logger.entries
                  PROVE  <<e, "request">> \in Logged \/ ctx # {}
                BY <3>1, <4>1 DEF IInv, Entries, In
            <4>2. <<e, "response">> \notin Logged
                BY <3>1, <4>1 DEF IInv, History, In
            <4> QED
                BY <1>1, <1>2, <1>7, <3>1, <4>1, <4>2 DEF IInv, History, In
        <3> QED
            BY <3>2, <3>3, <3>4
    <2>7. CASE Yield(e)
        <3>1. /\ In(e, "yield")
              /\ \/ /\ ex'[e].kind = ex[e].kind /\ ex'[e].at = "send"
                    /\ ctx = {} /\ logger' = logger
                 \/ /\ ex'[e].kind = After(ex[e].kind) /\ ex'[e].at = "convert" /\ ctx # {}
                    /\ logger'.mu = {} /\ logger'.entries = logger.entries
            BY <2>7 DEF Yield, Step, In, IInv, TypeOK, ExType, LoggerType
        <3>2. Locked'
            <4>1. /\ \A d \in Exchange \ {e} : ~In(d, "yield") /\ ~In(d, "send")
                  /\ e \in logger.mu
                BY <3>1 DEF IInv, Locked
            <4>2. CASE logger' = logger /\ ex'[e].kind = ex[e].kind /\ ex'[e].at = "send"
                BY <1>7, <3>1, <4>1, <4>2 DEF IInv, Locked, In
            <4>3. CASE logger'.mu = {} /\ ex'[e].at = "convert"
                BY <1>7, <3>1, <4>1, <4>3 DEF IInv, Locked, In
            <4> QED
                BY <3>1, <4>2, <4>3
        <3>3. Entries'
            BY <1>1, <1>2, <1>7, <3>1 DEF IInv, TypeOK, ExType, LoggerType, Entries, History, In, After
        <3>4. History'
            BY <1>1, <1>2, <1>7, <3>1 DEF IInv, TypeOK, ExType, LoggerType, Entries, History, In, After
        <3> QED
            BY <3>2, <3>3, <3>4
    <2> QED
        BY <2>1, <2>2, <2>3, <2>4, <2>5, <2>6, <2>7
<1>9. Ordered'
    BY <1>2 DEF IInv, Ordered, IsInjective
<1> QED
    BY <1>1, <1>6, <1>8, <1>9 DEF IInv

LEMMA SendOutputStep ==
    ASSUME IInv, NEW e \in Exchange, SendOutput(e)
    PROVE  IInv'
<1> USE DEF SendOutput, Step, After, In
<1>1. ConfigType' /\ PxType' /\ WriterFirst' /\ Quiet' /\ ctx' = ctx
    BY Kept DEF Proxied
<1> DEFINE k == ex[e].kind
<1>2. /\ k \in {"request", "response"} /\ <<e, k>> \notin Logged
      /\ k = "response" => <<e, "request">> \in Logged
    BY DEF IInv, History
<1>3. /\ yielded' \in Seq(Exchange \X {"request", "response"})
      /\ Logged' = Logged \cup {<<e, k>>} /\ Ordered'
    BY <1>2, AppendEntry DEF IInv, TypeOK
<1>4. ExType' /\ LoggerType'
    BY DEF IInv, TypeOK, ExType, LoggerType, Kind, At
<1>5. Locked'
    BY DEF IInv, TypeOK, ExType, LoggerType, Locked
<1>6. Entries'
    BY <1>1, <1>2, <1>3 DEF IInv, TypeOK, ExType, LoggerType, Entries
<1>7. History'
    BY <1>1, <1>2, <1>3 DEF IInv, TypeOK, ExType, LoggerType, History
<1> QED
    BY <1>1, <1>3, <1>4, <1>5, <1>6, <1>7 DEF IInv, TypeOK

LEMMA NextIInv == IInv /\ [Next]_vars => IInv'
<1> SUFFICES ASSUME IInv, [Next]_vars PROVE IInv'
    OBVIOUS
<1>1. CASE Produce \/ Report \/ Cancel
    BY <1>1, ProduceStep
<1>2. ASSUME NEW e \in Exchange, Accept(e) \/ Proxied(e) PROVE IInv'
    BY <1>2, UnloggedStep, SendOutputStep DEF Proxied
<1>3. CASE UNCHANGED vars
    BY <1>3 DEF vars, IInv, TypeOK, ConfigType, PxType, ExType, LoggerType, WriterFirst,
                LogsToStage, Locked, In, Quiet, Active, Entries, History, Logged, ToSet, Ordered,
                IsInjective
<1> QED
    BY <1>1, <1>2, <1>3 DEF Next

LEMMA Invariance == Spec => []IInv
<1> QED
    BY InitIInv, NextIInv, PTL DEF Spec

-----------------------------------------------------------------------------
\* For any number of exchanges and every configuration: a response is logged
\* behind its request or not at all, nothing twice, and no entry stays behind
\* an exchange that is over (WritterLogger's entries and mutex).
THEOREM PairedCorrect == Spec => []Paired
<1>1. ASSUME IInv PROVE Paired
    <2>1. IsInjective(yielded)
        BY <1>1 DEF IInv, Ordered
    <2>2. ASSUME NEW e \in Exchange, <<e, "response">> \in Logged
          PROVE  <<e, "request">> \in Logged /\ Place(<<e, "request">>) < Place(<<e, "response">>)
        <3>1. PICK j \in DOMAIN yielded : yielded[j] = <<e, "response">>
            BY <2>2 DEF Logged, ToSet
        <3>2. PICK i \in DOMAIN yielded : i < j /\ yielded[i] = <<e, "request">>
            BY <1>1, <3>1 DEF IInv, Ordered
        <3>3. Place(<<e, "request">>) = i /\ Place(<<e, "response">>) = j
            BY <2>1, <3>1, <3>2 DEF Place, IsInjective
        <3> QED
            BY <3>2, <3>3 DEF Logged, ToSet
    <2>3. \A e \in Exchange : e \in logger.entries => ex[e].kind \notin {"idle", "done"}
        BY <1>1 DEF IInv, Entries
    <2> QED
        BY <2>1, <2>2, <2>3 DEF Paired, Logged
<1> QED
    BY <1>1, Invariance, PTL

\* For any number of exchanges, none is under way and nobody holds the mutex
\* when the output is closed (Produce's deferred Close).
THEOREM QuietAfterCloseCorrect == Spec => []QuietAfterClose
<1>1. IInv => QuietAfterClose
    BY DEF IInv, TypeOK, LoggerType, Quiet, Locked, QuietAfterClose, Active, In
<1> QED
    BY <1>1, Invariance, PTL

\* In every configuration what is logged goes to the stage's output (getOptions).
THEOREM LogsToStageCorrect == Spec => []LogsToStage
<1>1. IInv => LogsToStage
    BY DEF IInv, WriterFirst
<1> QED
    BY <1>1, Invariance, PTL
=============================================================================
