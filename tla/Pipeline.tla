------------------------------ MODULE Pipeline ------------------------------
(***************************************************************************)
(* One run of a stage graph: RunTemplate (cmd/cli/main.go) after piping    *)
(* has wired the vertices together.  The four worker adapters of           *)
(* core/graph/vertex.go, the start barrier of core/graph/context.go, the   *)
(* broadcaster and the merges that core/graph/graphio.go puts between the  *)
(* stages, the merged error channel and the command line's main loop.      *)
(*                                                                         *)
(* Every Go channel involved is unbuffered, so a send and the receive it   *)
(* meets are one step.  A value is known by its place in its sender's      *)
(* stream: the k-th value that node p hands over is the number k.          *)
(***************************************************************************)
EXTENDS Integers, FiniteSets

CONSTANTS
    Worker, Producer, Consumer, Runner, \* vertices, by the adapter that runs them
    Stdin,       \* SendRawInput: it feeds the broker of the root graph's input
    InputRelay,  \* broker on the input of an included graph (IO.SetInput)
    OutputRelay, \* merge and broker on the output of an included graph (IO.Output)
    Preds,       \* Preds[n]: the nodes whose output piping wired into n
    EarlyExit,   \* runners whose Run may return before their input is closed
    Faulty,      \* vertices whose Work, Produce, Consume or Run may fail
    MaxYield,    \* bound: MaxYield[v] values at most one call has left to yield
    Events       \* what may happen from outside: "interrupt", "cancel"

Vertex == Worker \cup Producer \cup Consumer \cup Runner
Relay  == InputRelay \cup OutputRelay
Node   == Vertex \cup Relay \cup {Stdin}

(***************************************************************************)
(* A stage reads its parents through diwo.Merge; the roots of a graph      *)
(* subscribe to the graph's input broker directly.                         *)
(***************************************************************************)
Direct      == InputRelay \cup {Stdin}
Children(p) == {v \in Node : p \in Preds[v]}
Edge        == {e \in Node \X Node : e[1] \in Preds[e[2]]}

ASSUME KindsAreDisjoint ==
    /\ Worker \cap (Producer \cup Consumer \cup Runner) = {}
    /\ Producer \cap (Consumer \cup Runner) = {}
    /\ Consumer \cap Runner = {}
    /\ Vertex \cap Relay = {}
    /\ Stdin \notin Vertex \cup Relay

ASSUME GraphIsFinite ==
    /\ IsFiniteSet(Vertex)
    /\ Preds \in [Node -> SUBSET Node]
    /\ Preds[Stdin] = {}

ASSUME Bounds ==
    /\ MaxYield \in [Vertex -> Nat]
    /\ EarlyExit \subseteq Runner
    /\ Faulty \subseteq Vertex
    /\ Events \subseteq {"interrupt", "cancel"}

VARIABLES
    main,      \* RunTemplate: "start" | "select" | "ok" | "interrupted"
    wg,        \* WaitGroupContext.wg
    released,  \* WaitGroupContext.barrierC is closed
    cancelled, \* ctx.Done() is closed
    pc,        \* where each goroutine stands
    todo,      \* values the current call still yields
    eof,       \* runners that saw their input closed
    sent,      \* sent[p]: values p has handed to its broker
    pend,      \* pend[p]: subscribers the broker of p still owes value sent[p]
    slot,      \* slot[<<p, v>>]: value held by the merge goroutine of that edge, or 0
    got,       \* got[<<p, v>>]: last value v received from p, or 0
    closed,    \* nodes whose output channel is closed
    ended,     \* nodes whose broker closed its subscriptions
    raised,    \* raised[v]: errors v has put or is putting on its error channel
    held,      \* vertices one of whose errors is held by the error merge
    seen       \* seen[v]: errors of v that RunTemplate logged

ctl  == <<main, wg, released, cancelled>>
flow == <<sent, pend, slot, got, closed, ended>>
errs == <<raised, held, seen>>
vars == <<ctl, pc, todo, eof, flow, errs>>

PC == {"off", "init", "barrier", "recv", "work", "send", "err", "fail",
       "close", "exit", "done"}

Init ==
    /\ main = "start"
    /\ wg = 0
    /\ released = FALSE
    /\ cancelled = FALSE
    /\ pc = [n \in Node |-> "off"]
    /\ todo = [n \in Node |-> 0]
    /\ eof = {}
    /\ sent = [n \in Node |-> 0]
    /\ pend = [n \in Node |-> {}]
    /\ slot = [e \in Edge |-> 0]
    /\ got = [e \in Edge |-> 0]
    /\ closed = {}
    /\ ended = {}
    /\ raised = [v \in Vertex |-> 0]
    /\ held = {}
    /\ seen = [v \in Vertex |-> 0]

Goto(n, l) == pc' = [pc EXCEPT ![n] = l]

-----------------------------------------------------------------------------
(***************************************************************************)
(* Start-up: IO.start calls Run on every vertex, in any order; each Run    *)
(* counts itself in before it spawns its goroutine, and a consumer closes  *)
(* its output there and then.  RunTemplate then waits for all of them and  *)
(* starts SendRawInput, which sends the raw input if the flag is set; its  *)
(* loop over the lines of stdin is out of reach, since no file is both a   *)
(* character device and a named pipe.                                      *)
(***************************************************************************)
Close(n) == closed' = closed \cup {n}

RunClosing(v) == \* mutant: every adapter closes its output as a consumer does
    /\ main = "start"
    /\ pc[v] = "off"
    /\ wg' = wg + 1
    /\ Goto(v, "init")
    /\ Close(v)
    /\ UNCHANGED <<main, released, cancelled, todo, eof, sent, pend, slot, got,
                   ended, errs>>

Run(v) ==
    /\ main = "start"
    /\ pc[v] = "off"
    /\ wg' = wg + 1
    /\ Goto(v, "init")
    /\ IF v \in Consumer THEN Close(v) ELSE UNCHANGED closed
    /\ UNCHANGED <<main, released, cancelled, todo, eof, sent, pend, slot, got,
                   ended, errs>>

InitializedTwice(v) == \* mutant: a second wg.Done
    /\ pc[v] = "init"
    /\ wg' = wg - 2
    /\ Goto(v, "barrier")
    /\ UNCHANGED <<main, released, cancelled, todo, eof, flow, errs>>

Initialized(v) ==
    /\ pc[v] = "init"
    /\ wg' = wg - 1
    /\ Goto(v, "barrier")
    /\ UNCHANGED <<main, released, cancelled, todo, eof, flow, errs>>

Begin == \* what follows the wait
    /\ main' = "select"
    /\ Goto(Stdin, "work")
    /\ \E k \in {0, 1} : todo' = [todo EXCEPT ![Stdin] = k]
    /\ UNCHANGED <<wg, cancelled, eof, flow, errs>>

SynchronizeWithoutWait == \* mutant: wg.Wait left out
    /\ main = "start"
    /\ \A v \in Vertex : pc[v] # "off"
    /\ released' = TRUE
    /\ Begin

SynchronizeWithoutClose == \* mutant: barrierC stays open
    /\ main = "start"
    /\ \A v \in Vertex : pc[v] # "off"
    /\ wg = 0
    /\ UNCHANGED released
    /\ Begin

Synchronize ==
    /\ main = "start"
    /\ \A v \in Vertex : pc[v] # "off"
    /\ wg = 0
    /\ released' = TRUE
    /\ Begin

PassBarrier(v) ==
    /\ pc[v] = "barrier"
    /\ released
    /\ IF v \in Worker \cup Consumer
          THEN Goto(v, "recv") /\ UNCHANGED todo
          ELSE /\ Goto(v, "work")
               /\ \E k \in 0..MaxYield[v] : todo' = [todo EXCEPT ![v] = k]
    /\ UNCHANGED <<ctl, eof, flow, errs>>

-----------------------------------------------------------------------------
(***************************************************************************)
(* Channels.  A broker takes the next value once every subscriber has the  *)
(* last one; a merge has one goroutine, and so one slot, per source.       *)
(***************************************************************************)
Offered(p, v) ==
    IF p \in Direct THEN (IF v \in pend[p] THEN sent[p] ELSE 0)
                    ELSE slot[<<p, v>>]

Accept(p, v) ==
    /\ Offered(p, v) # 0
    /\ got' = [got EXCEPT ![<<p, v>>] = Offered(p, v)]
    /\ slot' = [slot EXCEPT ![<<p, v>>] = 0]

Settled(p, v) == IF p \in Direct THEN [pend EXCEPT ![p] = @ \ {v}] ELSE pend

InputClosed(v) ==
    \A p \in Preds[v] : p \in ended /\ (p \notin Direct => slot[<<p, v>>] = 0)

MergeOverwrites(p, v) == \* mutant: a value not yet read gives way to the next
    /\ p \notin Direct
    /\ v \in pend[p]
    /\ slot' = [slot EXCEPT ![<<p, v>>] = sent[p]]
    /\ pend' = [pend EXCEPT ![p] = @ \ {v}]
    /\ UNCHANGED <<ctl, pc, todo, eof, sent, got, closed, ended, errs>>

Merge(p, v) ==
    /\ p \notin Direct
    /\ v \in pend[p]
    /\ slot[<<p, v>>] = 0
    /\ slot' = [slot EXCEPT ![<<p, v>>] = sent[p]]
    /\ pend' = [pend EXCEPT ![p] = @ \ {v}]
    /\ UNCHANGED <<ctl, pc, todo, eof, sent, got, closed, ended, errs>>

ForwardAnyway(p, r) == \* mutant: a relay takes a value while it still owes one
    /\ r \in Relay
    /\ Accept(p, r)
    /\ sent' = [sent EXCEPT ![r] = @ + 1]
    /\ pend' = [Settled(p, r) EXCEPT ![r] = Children(r)]
    /\ UNCHANGED <<ctl, pc, todo, eof, closed, ended, errs>>

Forward(p, r) ==
    /\ r \in Relay
    /\ pend[r] = {}
    /\ Accept(p, r)
    /\ sent' = [sent EXCEPT ![r] = @ + 1]
    /\ pend' = [Settled(p, r) EXCEPT ![r] = Children(r)]
    /\ UNCHANGED <<ctl, pc, todo, eof, closed, ended, errs>>

EndBrokerEarly(p) == \* mutant: a broker ends with a value still owed
    /\ p \notin ended
    /\ IF p \in Relay THEN InputClosed(p) ELSE p \in closed
    /\ ended' = ended \cup {p}
    /\ UNCHANGED <<ctl, pc, todo, eof, sent, pend, slot, got, closed, errs>>

EndBroker(p) ==
    /\ p \notin ended
    /\ pend[p] = {}
    /\ IF p \in Relay THEN InputClosed(p) ELSE p \in closed
    /\ ended' = ended \cup {p}
    /\ UNCHANGED <<ctl, pc, todo, eof, sent, pend, slot, got, closed, errs>>

-----------------------------------------------------------------------------
(***************************************************************************)
(* The adapters.  A worker and a consumer select between the context and   *)
(* their input; a value read starts a call of Work or Consume, a closed    *)
(* input ends the goroutine.                                               *)
(***************************************************************************)
RecvData(p, v) ==
    /\ v \in Worker \cup Consumer
    /\ pc[v] = "recv"
    /\ Accept(p, v)
    /\ pend' = Settled(p, v)
    /\ \E k \in 0..(IF v \in Worker THEN MaxYield[v] ELSE 0) :
          todo' = [todo EXCEPT ![v] = k]
    /\ Goto(v, "work")
    /\ UNCHANGED <<ctl, eof, sent, closed, ended, errs>>

RecvClosed(v) ==
    /\ pc[v] = "recv"
    /\ InputClosed(v)
    /\ Goto(v, "close")
    /\ UNCHANGED <<ctl, todo, eof, flow, errs>>

SeeCancel(v) ==
    /\ pc[v] = "recv"
    /\ cancelled
    /\ Goto(v, "close")
    /\ UNCHANGED <<ctl, todo, eof, flow, errs>>

(***************************************************************************)
(* A runner has its input for itself: it may read while a value it yielded *)
(* is still on its way, and what it reads may give it more to yield.       *)
(***************************************************************************)
RunnerRecv(p, v) ==
    /\ v \in Runner
    /\ pc[v] \in {"work", "send", "err"}
    /\ v \notin eof
    /\ Accept(p, v)
    /\ pend' = Settled(p, v)
    /\ \E k \in todo[v]..MaxYield[v] : todo' = [todo EXCEPT ![v] = k]
    /\ UNCHANGED <<ctl, pc, eof, sent, closed, ended, errs>>

RunnerEof(v) ==
    /\ v \in Runner
    /\ pc[v] \in {"work", "send", "err"}
    /\ v \notin eof
    /\ InputClosed(v)
    /\ eof' = eof \cup {v}
    /\ UNCHANGED <<ctl, pc, todo, flow, errs>>

(***************************************************************************)
(* yield looks at the context, then blocks in SendOutput until the broker  *)
(* takes the value; with nobody subscribed there is no channel and the     *)
(* value is dropped.  Once cancelled it refuses.                           *)
(***************************************************************************)
Yield(v) ==
    /\ pc[v] = "work"
    /\ todo[v] > 0
    /\ cancelled => v = Stdin
    /\ todo' = [todo EXCEPT ![v] = @ - 1]
    /\ IF Children(v) = {} THEN UNCHANGED pc ELSE Goto(v, "send")
    /\ UNCHANGED <<ctl, eof, flow, errs>>

Refuse(v) ==
    /\ pc[v] = "work"
    /\ todo[v] > 0
    /\ cancelled
    /\ v # Stdin
    /\ todo' = [todo EXCEPT ![v] = 0]
    /\ UNCHANGED <<ctl, pc, eof, flow, errs>>

SendOutputAnyway(v) == \* mutant: the send does not wait for the broker
    /\ pc[v] = "send"
    /\ sent' = [sent EXCEPT ![v] = @ + 1]
    /\ pend' = [pend EXCEPT ![v] = Children(v)]
    /\ Goto(v, "work")
    /\ UNCHANGED <<ctl, todo, eof, slot, got, closed, ended, errs>>

SendOutput(v) ==
    /\ pc[v] = "send"
    /\ pend[v] = {}
    /\ sent' = [sent EXCEPT ![v] = @ + 1]
    /\ pend' = [pend EXCEPT ![v] = Children(v)]
    /\ Goto(v, "work")
    /\ UNCHANGED <<ctl, todo, eof, slot, got, closed, ended, errs>>

Raise(v) == raised' = [raised EXCEPT ![v] = @ + 1]

YieldError(v) ==
    /\ v \in Runner \cap Faulty
    /\ pc[v] = "work"
    /\ todo[v] > 0
    /\ ~cancelled
    /\ todo' = [todo EXCEPT ![v] = @ - 1]
    /\ Raise(v)
    /\ Goto(v, "err")
    /\ UNCHANGED <<ctl, eof, flow, held, seen>>

(***************************************************************************)
(* The call returns, with an error or without.                             *)
(***************************************************************************)
MayReturnAnytime(v) == pc[v] = "work" /\ todo[v] = 0 \* mutant: no runner reads to the end

MayReturn(v) ==
    /\ pc[v] = "work"
    /\ todo[v] = 0
    /\ v \in Runner \ EarlyExit => v \in eof \/ cancelled

Return(v) ==
    /\ MayReturn(v)
    /\ Goto(v, IF v \in Worker \cup Consumer THEN "recv" ELSE "close")
    /\ UNCHANGED <<ctl, todo, eof, flow, errs>>

Fail(v) ==
    /\ v # Stdin
    /\ v \in Faulty \/ cancelled
    /\ MayReturn(v)
    /\ Raise(v)
    /\ Goto(v, IF v \in Worker \cup Consumer THEN "err" ELSE "fail")
    /\ UNCHANGED <<ctl, todo, eof, flow, held, seen>>

(***************************************************************************)
(* An error waits until the error merge takes it; then the goroutine goes  *)
(* on, or ends: the deferred Close, and last the error channel's close.    *)
(***************************************************************************)
AfterReport(v) ==
    IF pc[v] = "fail" THEN "close" ELSE IF v \in Runner THEN "work" ELSE "recv"

ReportLossy(v) == \* mutant: an error overwrites the one not yet read
    /\ pc[v] \in {"err", "fail"}
    /\ held' = held \cup {v}
    /\ Goto(v, AfterReport(v))
    /\ UNCHANGED <<ctl, todo, eof, flow, raised, seen>>

Report(v) ==
    /\ pc[v] \in {"err", "fail"}
    /\ v \notin held
    /\ held' = held \cup {v}
    /\ Goto(v, AfterReport(v))
    /\ UNCHANGED <<ctl, todo, eof, flow, raised, seen>>

CloseNothing(v) == \* mutant: the deferred Close left out
    /\ pc[v] = "close"
    /\ Goto(v, "exit")
    /\ UNCHANGED <<ctl, todo, eof, flow, errs>>

CloseOut(v) ==
    /\ pc[v] = "close"
    /\ IF v \in Consumer THEN UNCHANGED closed ELSE Close(v)
    /\ Goto(v, "exit")
    /\ UNCHANGED <<ctl, todo, eof, sent, pend, slot, got, ended, errs>>

Finish(v) ==
    /\ pc[v] = "exit"
    /\ Goto(v, "done")
    /\ UNCHANGED <<ctl, todo, eof, flow, errs>>

-----------------------------------------------------------------------------
(***************************************************************************)
(* RunTemplate's loop: it logs the errors until the merged error channel   *)
(* closes, and returns; an interrupt makes it return at once.              *)
(***************************************************************************)
ReceiveErr(v) ==
    /\ main = "select"
    /\ v \in held
    /\ held' = held \ {v}
    /\ seen' = [seen EXCEPT ![v] = @ + 1]
    /\ UNCHANGED <<ctl, pc, todo, eof, flow, raised>>

ErrCClosed ==
    /\ main = "select"
    /\ \A v \in Vertex : pc[v] = "done"
    /\ held = {}
    /\ main' = "ok"
    /\ UNCHANGED <<wg, released, cancelled, pc, todo, eof, flow, errs>>

Interrupt ==
    /\ "interrupt" \in Events
    /\ main = "select"
    /\ main' = "interrupted"
    /\ UNCHANGED <<wg, released, cancelled, pc, todo, eof, flow, errs>>

Cancel ==
    /\ "cancel" \in Events
    /\ ~cancelled
    /\ cancelled' = TRUE
    /\ UNCHANGED <<main, wg, released, pc, todo, eof, flow, errs>>

-----------------------------------------------------------------------------
Returned == main \in {"ok", "interrupted"}

\* What the goroutine of vertex v, or of SendRawInput, does when it runs.
Thread(v) ==
    \/ Initialized(v) \/ PassBarrier(v)
    \/ RecvClosed(v) \/ SeeCancel(v) \/ RunnerEof(v)
    \/ \E p \in Preds[v] : RecvData(p, v) \/ RunnerRecv(p, v)
    \/ Yield(v) \/ Refuse(v) \/ YieldError(v) \/ SendOutput(v)
    \/ Return(v) \/ Fail(v) \/ Report(v) \/ CloseOut(v) \/ Finish(v)

\* The broker of p, and the merge goroutine of the edge from p to v.
Broker(p)  == EndBroker(p) \/ \E q \in Preds[p] : Forward(q, p)
Wire(p, v) == Merge(p, v)

RunTemplate ==
    \/ \E v \in Vertex : Run(v) \/ ReceiveErr(v)
    \/ Synchronize
    \/ ErrCClosed

Step ==
    \/ RunTemplate
    \/ \E v \in Vertex \cup {Stdin} : Thread(v)
    \/ \E p \in Node : Broker(p)
    \/ \E e \in Edge : Wire(e[1], e[2])
    \/ Interrupt
    \/ Cancel

\* The process is gone once RunTemplate has returned.
Exited == Returned /\ UNCHANGED vars

Next == (~Returned /\ Step) \/ Exited

(***************************************************************************)
(* Every goroutine that can run eventually runs: the Go scheduler is fair, *)
(* and a receive that stays ready is taken.  Nothing forces an interrupt   *)
(* or a cancellation, nor a call that may fail to fail.                    *)
(***************************************************************************)
Fairness ==
    /\ WF_vars(~Returned /\ RunTemplate)
    /\ \A v \in Vertex \cup {Stdin} : WF_vars(~Returned /\ Thread(v))
    /\ \A p \in Node : WF_vars(~Returned /\ Broker(p))
    /\ \A e \in Edge : WF_vars(~Returned /\ Wire(e[1], e[2]))

Spec == Init /\ [][Next]_vars /\ Fairness

-----------------------------------------------------------------------------
(***************************************************************************)
(* Properties.                                                             *)
(***************************************************************************)

\* Every variable has its type; the wait group's counter never goes negative
\* (sync.WaitGroup panics) and a node never has two values in flight.
TypeOK ==
    /\ main \in {"start", "select", "ok", "interrupted"}
    /\ wg \in Nat
    /\ released \in BOOLEAN
    /\ cancelled \in BOOLEAN
    /\ pc \in [Node -> PC]
    /\ todo \in [Node -> Nat]
    /\ eof \subseteq Runner
    /\ sent \in [Node -> Nat]
    /\ pend \in [Node -> SUBSET Node]
    /\ \A n \in Node : pend[n] \subseteq Children(n)
    /\ slot \in [Edge -> Nat]
    /\ got \in [Edge -> Nat]
    /\ closed \subseteq Node
    /\ ended \subseteq Node
    /\ raised \in [Vertex -> Nat]
    /\ held \subseteq Vertex
    /\ seen \in [Vertex -> Nat]

\* The start barrier (context.go): as long as one vertex has not reached
\* Initialized, no goroutine is past it and no value is on any channel.
Started(n) == pc[n] \notin {"off", "init", "barrier"}

BarrierHolds ==
    (\E n \in Node : Started(n) \/ sent[n] > 0) =>
        \A v \in Vertex : pc[v] \notin {"off", "init"}

\* Nothing is lost or duplicated between two stages: each value a node handed
\* to its broker is at the reader, or in the one slot of the edge's merge, or
\* still owed by the broker, and the one in the slot is the next to be read.
InFlight(p, v) == (IF v \in pend[p] THEN 1 ELSE 0) + (IF slot[<<p, v>>] # 0 THEN 1 ELSE 0)

Delivery ==
    \A e \in Edge :
        /\ sent[e[1]] = got[e] + InFlight(e[1], e[2])
        /\ slot[e] # 0 => slot[e] = got[e] + 1

\* A stage reads each parent's values in the order they were yielded.
InOrder == [][\A e \in Edge : got'[e] \in {got[e], got[e] + 1}]_vars

\* Back-pressure keeps siblings together: two stages that read the same parent
\* are never more than two values apart, however slow one of them is.
SiblingsInStep ==
    \A e, f \in Edge : e[1] = f[1] => got[e] <= got[f] + 2

\* A stage that reads its input to the end has seen everything its parents
\* yielded when it closes its own output, unless the run was cancelled.
CompleteAtClose ==
    \A v \in Worker \cup Consumer :
        pc[v] \in {"close", "exit", "done"} /\ ~cancelled =>
            \A p \in Preds[v] : p \in ended /\ got[<<p, v>>] = sent[p]

\* No error is lost on its way to RunTemplate, whichever stages fail together.
ErrorsConserved ==
    \A v \in Vertex :
        raised[v] = seen[v] + (IF v \in held THEN 1 ELSE 0)
                            + (IF pc[v] \in {"err", "fail"} THEN 1 ELSE 0)

\* When RunTemplate returns by itself every stage has ended, every error was
\* logged and, in a graph none of whose stages left early, every value that was
\* yielded has been read.
ReturnMeansDone ==
    main = "ok" =>
        /\ \A v \in Vertex : pc[v] = "done" /\ seen[v] = raised[v]
        /\ EarlyExit = {} /\ ~cancelled =>
              \A e \in Edge : e[2] \in Worker \cup Consumer \cup Runner =>
                                  got[e] = sent[e[1]]

\* A run ends, or for ever waits behind a value owed to a stage that does not
\* read any more: a producer fed with the graph's input, a runner that
\* returned early, a stage that saw the cancellation.
Deserted(v) == v \in Producer \/ pc[v] \in {"fail", "close", "exit", "done"}
Owed(e)     == e[2] \in pend[e[1]] \/ slot[e] # 0

Stuck == \E e \in Edge : Owed(e) /\ Deserted(e[2])

EndsOrStuck == <>Returned \/ <>[]Stuck

\* Without such a stage every run ends, also when stages fail.
Terminates == <>Returned

-----------------------------------------------------------------------------
(***************************************************************************)
(* Where every stage reads its input to the end and nothing is cancelled   *)
(* or interrupted, the graph keeps the promise of Dataflow: a consumer's   *)
(* own stream ends at Run, a relay's with its broker.                      *)
(***************************************************************************)
Promise == INSTANCE Dataflow WITH
    Slack    <- [n \in Node |-> IF n \in Direct THEN 1 ELSE 2],
    Reader   <- Worker \cup Consumer \cup Runner \cup Relay,
    Eager    <- Consumer,
    produced <- sent,
    consumed <- got,
    finished <- closed \cup (ended \cap Relay)

\* The stages, brokers and merges of graphio.go and vertex.go implement the
\* streams of Dataflow, liveness included.
ImplementsDataflow == Promise!Spec
=============================================================================
