--------------------------- MODULE WebhookProofs ---------------------------
(***************************************************************************)
(* Theorems about Webhook, for any number of requests.                     *)
(***************************************************************************)
EXTENDS Webhook, TLAPS

-----------------------------------------------------------------------------
\* What a reader has after one more element.
LEMMA AppendFacts ==
    ASSUME NEW S, NEW s \in Seq(S), NEW e \in S
    PROVE  /\ Append(s, e) \in Seq(S)
           /\ ToSet(Append(s, e)) = ToSet(s) \cup {e}
           /\ IsInjective(s) /\ e \notin ToSet(s) => IsInjective(Append(s, e))
<1> DEFINE t == Append(s, e)
<1>1. /\ t \in Seq(S) /\ Len(t) = Len(s) + 1 /\ Len(s) \in Nat
      /\ DOMAIN s = 1..Len(s) /\ DOMAIN t = 1..Len(t)
      /\ t[Len(t)] = e /\ \A i \in DOMAIN s : t[i] = s[i]
    OBVIOUS
<1>2. DOMAIN t = DOMAIN s \cup {Len(t)} /\ Len(t) \notin DOMAIN s
    BY <1>1
<1> HIDE DEF t
<1>3. ToSet(t) = ToSet(s) \cup {e}
    BY <1>1, <1>2 DEF ToSet
<1>4. IsInjective(s) /\ e \notin ToSet(s) => IsInjective(t)
    BY <1>1, <1>2 DEF ToSet, IsInjective
<1> QED
    BY <1>1, <1>3, <1>4 DEF t

-----------------------------------------------------------------------------
(***************************************************************************)
(* The inductive invariant.  RunServer returns with no handler under way   *)
(* unless its timeout passed, and takes no request from then on; the       *)
(* adapter closes the output after that.                                   *)
(***************************************************************************)
Serving == srv \in {"init", "select", "shutdown"}

Settled ==
    /\ output = "closed" => srv \in {"cancel", "done"}
    /\ (\E r \in Request : handler[r] = "aborted") => output = "closed"
    /\ ~timedOut => /\ ~Serving => Active = {}
                    /\ \A r \in Request : handler[r] # "aborted"

\* The error RunServer returns, and whether the graph has it.
Told ==
    /\ Serving => ~timedOut
    /\ Serving \/ srv \in {"returned", "errC"} => reported = <<>>
    /\ srv = "returned" => err = IF timedOut THEN "deadline" ELSE "nil"
    /\ srv = "errC" => timedOut /\ err = "deadline"
    /\ srv \in {"close", "cancel", "done"} =>
           reported = IF timedOut THEN <<"deadline">> ELSE <<>>

IInv == TypeOK /\ Answered /\ Settled /\ Told

-----------------------------------------------------------------------------
LEMMA InitIInv == Init => IInv
<1> SUFFICES ASSUME Init PROVE IInv
    OBVIOUS
<1>1. TypeOK
    <2>1. delivered \in Seq(Request) /\ reported \in Seq({"start", "deadline"})
        BY DEF Init
    <2>2. handler \in [Request -> {"idle", "read", "yield", "send", "ok", "failed", "aborted"}]
        BY DEF Init
    <2> QED
        BY <2>1, <2>2 DEF Init, TypeOK
<1>2. Answered
    BY DEF Init, Answered, ToSet, IsInjective
<1>3. Settled /\ Told
    BY DEF Init, Settled, Told, Serving, Active
<1> QED
    BY <1>1, <1>2, <1>3 DEF IInv

\* A handler's steps, but for those that hand a body over, leave the reader alone.
LEMMA AnswerStep ==
    ASSUME IInv, NEW r \in Request, NEW status, Answer(r, status), delivered' = delivered,
           status \in {"read", "yield", "send", "failed", "aborted"}, handler[r] # "ok",
           handler[r] \in {"read", "yield", "send"} \/ srv = "select",
           status = "aborted" => output = "closed" /\ handler[r] = "send"
    PROVE  IInv'
<1> USE DEF IInv, Answer
<1>1. TypeOK'
    BY DEF TypeOK
<1>2. Answered'
    BY <1>1 DEF Answered, TypeOK
<1>3. Settled' /\ Told'
    BY <1>1 DEF Settled, Told, Serving, Active, TypeOK
<1> QED
    BY <1>1, <1>2, <1>3

LEMMA ServerStep ==
    ASSUME IInv, Server \/ Adapter \/ Report \/ Listen \/ StartFails \/ Cancel
    PROVE  IInv'
<1> USE DEF IInv, Server, Adapter, Run, Listen, StartFails, ServerError, ContextDone,
             Shutdown, Timeout, Return, Report, Close, ProducerCancel, Cancel
<1>1. CASE Report
    <2>1. err = "deadline" /\ timedOut /\ reported = <<>> /\ reported' = <<"deadline">>
        BY <1>1 DEF Told
    <2>2. TypeOK'
        BY <1>1, <2>1 DEF TypeOK
    <2> QED
        BY <1>1, <2>1, <2>2 DEF Answered, Settled, Told, Serving, Active
<1>2. CASE Server \/ Adapter \/ Listen \/ StartFails \/ Cancel
    <2>1. TypeOK'
        BY <1>2, ZenonT(30) DEF TypeOK
    <2>2. handler' = handler /\ delivered' = delivered /\ reported' = reported
        BY <1>2
    <2>3. Answered'
        BY <2>2 DEF Answered
    <2>4. Settled'
        BY <1>2 DEF Settled, Serving, Active, Told
    <2>5. Told'
        BY <1>2, <2>2 DEF Told, Serving
    <2> QED
        BY <2>1, <2>3, <2>4, <2>5
<1> QED
    BY <1>1, <1>2

LEMMA NextIInv == IInv /\ [Next]_vars => IInv'
<1> SUFFICES ASSUME IInv, [Next]_vars PROVE IInv'
    OBVIOUS
<1>1. CASE Server \/ Adapter \/ Report \/ Listen \/ StartFails \/ Cancel
    BY <1>1, ServerStep
<1>2. ASSUME NEW r \in Request, Receive(r) \/ ReadAll(r) \/ Yield(r) PROVE IInv'
    BY <1>2, AnswerStep DEF Receive, ReadAll, Yield
<1>3. ASSUME NEW r \in Request, SendOutput(r) PROVE IInv'
    <2>1. CASE output = "closed"
        BY <1>3, <2>1, AnswerStep DEF SendOutput
    <2>2. CASE output = "open"
        <3>1. /\ handler[r] = "send" /\ handler' = [handler EXCEPT ![r] = "ok"]
              /\ delivered' = Append(delivered, r)
              /\ UNCHANGED <<srv, start, err, timedOut, ctx, output, reported>>
            BY <1>3, <2>2 DEF SendOutput, Answer
        <3>2. /\ delivered' \in Seq(Request) /\ ToSet(delivered') = ToSet(delivered) \cup {r}
              /\ IsInjective(delivered')
            BY <3>1, AppendFacts DEF IInv, TypeOK, Answered
        <3>3. TypeOK'
            BY <3>1, <3>2 DEF IInv, TypeOK
        <3>4. Answered'
            BY <3>1, <3>2 DEF IInv, TypeOK, Answered
        <3>5. Settled' /\ Told'
            BY <3>1 DEF IInv, TypeOK, Settled, Told, Serving, Active
        <3> QED
            BY <3>3, <3>4, <3>5 DEF IInv
    <2> QED
        BY <1>3, <2>1, <2>2 DEF SendOutput
<1>4. CASE UNCHANGED vars
    BY <1>4 DEF vars, IInv, TypeOK, Answered, Settled, Told, Serving, Active
<1> QED
    BY <1>1, <1>2, <1>3, <1>4 DEF Next, Handler

LEMMA Invariance == Spec => []IInv
<1> QED
    BY InitIInv, NextIInv, PTL DEF Spec

-----------------------------------------------------------------------------
\* For any number of requests, a client is told "ok" exactly when its body was
\* delivered, and no body is delivered twice (Produce's handler).
THEOREM AnsweredCorrect == Spec => []Answered
<1>1. IInv => Answered
    BY DEF IInv
<1> QED
    BY <1>1, Invariance, PTL

\* For any number of requests, the output closes under a handler only after the
\* shutdown's timeout (RunServer's deferred shutdown before the adapter's Close).
THEOREM GracefulCloseCorrect == Spec => []GracefulClose
<1>1. IInv => GracefulClose
    BY DEF IInv, Settled, GracefulClose, Serving
<1> QED
    BY <1>1, Invariance, PTL

\* For any number of requests, the connection of none is aborted before the graph
\* was told that the shutdown gave up (RunServer's result, the adapter's report).
THEOREM AbortToldCorrect == Spec => []AbortTold
<1>1. IInv => AbortTold
    <2> SUFFICES ASSUME IInv, NEW r \in Request, handler[r] = "aborted"
                 PROVE  "deadline" \in ToSet(reported)
        BY DEF AbortTold
    <2>1. timedOut /\ output = "closed"
        BY DEF IInv, Settled
    <2>2. reported = <<"deadline">>
        BY <2>1 DEF IInv, Settled, Told
    <2>3. 1 \in DOMAIN reported /\ reported[1] = "deadline"
        BY <2>2
    <2> QED
        BY <2>3 DEF ToSet
<1> QED
    BY <1>1, Invariance, PTL
=============================================================================
