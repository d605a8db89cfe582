-------------------------------- MODULE Pipe --------------------------------
(***************************************************************************)
(* The pipe plugin (static/pipe/plugin.go): a chain of stages inside one   *)
(* stage.  Config loads the chain, Run wires it with plain channels, gives *)
(* it a barrier of its own and then yields what its last stage sends and   *)
(* the errors of all.  Channels are unbuffered: a send is a step of two.   *)
(***************************************************************************)
EXTENDS Integers, Sequences

CONSTANTS
    Chains,    \* the chains a pipe may be configured with, by adapter
    Inputs,    \* bound: values on the pipe's input
    MaxYield,  \* bound: values one call of a stage yields
    Events     \* "fail": a call may fail; "cancel": the context may end

Kind == {"worker", "producer", "consumer", "runner"}

ASSUME PipeBounds ==
    /\ Chains \subseteq Seq(Kind) \ {<<>>}
    /\ Inputs \in Nat /\ MaxYield \in Nat
    /\ Events \subseteq {"fail", "cancel"}

VARIABLES
    run,       \* "config" | "rejected" | "ready" | "sync" | "loop" | "ret"
    ioworkers, \* the chain, by the adapter of each stage
    pc,        \* pc[i]: where the goroutine of stage i stands
    todo,      \* values its current call still yields
    closed,    \* stages whose output is closed
    taken,     \* values read from the pipe's input
    sent,      \* sent[i]: values stage i handed on
    yielded,   \* values the pipe yielded
    raised,    \* raised[i]: errors of stage i
    held,      \* stages one of whose errors is in diwo.Merge
    reported,  \* reported[i]: errors of stage i the pipe yielded
    cancelled

stages == <<pc, todo, closed>>
counts == <<taken, sent, yielded>>
errs   == <<raised, held, reported>>
vars   == <<run, ioworkers, stages, counts, errs, cancelled>>

Stage == DOMAIN ioworkers
Tip   == Len(ioworkers)

Init ==
    /\ run = "config" /\ ioworkers = <<>>
    /\ pc = <<>> /\ todo = <<>> /\ closed = {}
    /\ taken = 0 /\ sent = <<>> /\ yielded = 0
    /\ raised = <<>> /\ held = {} /\ reported = <<>>
    /\ cancelled = FALSE

-----------------------------------------------------------------------------
\* What runs before it reads: a producer, and a runner, which may never read.
Starting == {i \in Stage : ioworkers[i] \in {"producer", "runner"}}

\* A step with two plugins is an error, one without any adds no stage; a plugin
\* is one stage, run by the adapter of its kind.
Config ==
    /\ run = "config"
    /\ \/ run' = "rejected" /\ UNCHANGED ioworkers
       \/ run' = "ready" /\ ioworkers' \in Chains
    /\ UNCHANGED <<stages, counts, errs, cancelled>>

\* SetInput, Output and Run of each stage; a consumer closes its output there.
Run ==
    /\ run = "ready"
    /\ run' = "sync"
    /\ pc' = [i \in Stage |-> "init"]
    /\ closed' = {i \in Stage : ioworkers[i] = "consumer"}
    /\ todo' = [i \in Stage |-> 0]
    /\ sent' = [i \in Stage |-> 0]
    /\ raised' = [i \in Stage |-> 0]
    /\ reported' = [i \in Stage |-> 0]
    /\ UNCHANGED <<ioworkers, taken, yielded, held, cancelled>>

Initialized(i) ==
    /\ run = "sync" /\ pc[i] = "init"
    /\ pc' = [pc EXCEPT ![i] = "barrier"]
    /\ UNCHANGED <<run, ioworkers, todo, closed, counts, errs, cancelled>>

Synchronize ==
    /\ run = "sync"
    /\ \A i \in Stage : pc[i] = "barrier"
    /\ run' = "loop"
    /\ pc' = [i \in Stage |-> IF i \in Starting THEN "work" ELSE "recv"]
    /\ \E first \in [Starting -> 0..MaxYield] :
          todo' = [i \in Stage |-> IF i \in Starting THEN first[i] ELSE 0]
    /\ UNCHANGED <<ioworkers, closed, counts, errs, cancelled>>

-----------------------------------------------------------------------------
(***************************************************************************)
(* The stages, as vertex.go runs them.                                     *)
(***************************************************************************)
InputEnded(i) == IF i = 1 THEN taken = Inputs ELSE i - 1 \in closed

Call(i, p) == \* what a worker, consumer or runner does with the value just read
    \E k \in 0..(IF ioworkers[i] \in {"worker", "runner"} THEN MaxYield ELSE 0) :
        /\ todo' = [todo EXCEPT ![i] = k]
        /\ pc' = [p EXCEPT ![i] = "work"]

RecvFirst ==
    /\ run \in {"loop", "ret"} /\ pc[1] = "recv" /\ taken < Inputs
    /\ taken' = taken + 1
    /\ Call(1, pc)
    /\ UNCHANGED <<run, ioworkers, closed, sent, yielded, errs, cancelled>>

Recv(i) == \* from the stage before it
    /\ i > 1 /\ pc[i] = "recv" /\ pc[i - 1] = "send"
    /\ sent' = [sent EXCEPT ![i - 1] = @ + 1]
    /\ Call(i, [pc EXCEPT ![i - 1] = "work"])
    /\ UNCHANGED <<run, ioworkers, closed, taken, yielded, errs, cancelled>>

RecvEnd(i) ==
    /\ run \in {"loop", "ret"} /\ pc[i] = "recv"
    /\ InputEnded(i) \/ cancelled
    /\ pc' = [pc EXCEPT ![i] = "close"]
    /\ UNCHANGED <<run, ioworkers, todo, closed, counts, errs, cancelled>>

Yield(i) ==
    /\ pc[i] = "work" /\ todo[i] > 0
    /\ todo' = [todo EXCEPT ![i] = IF cancelled THEN 0 ELSE @ - 1]
    /\ pc' = [pc EXCEPT ![i] = IF cancelled THEN @ ELSE "send"]
    /\ UNCHANGED <<run, ioworkers, closed, counts, errs, cancelled>>

\* A call ends, with an error or without; a producer is done then, and a runner
\* may be: it reads on for as long as it likes.
Return(i) ==
    /\ pc[i] = "work" /\ todo[i] = 0
    /\ \/ /\ \/ ioworkers[i] # "producer" /\ pc' = [pc EXCEPT ![i] = "recv"]
             \/ i \in Starting /\ pc' = [pc EXCEPT ![i] = "close"]
          /\ UNCHANGED raised
       \/ /\ "fail" \in Events
          /\ \/ ioworkers[i] # "producer" /\ pc' = [pc EXCEPT ![i] = "err"]
             \/ i \in Starting /\ pc' = [pc EXCEPT ![i] = "fail"]
          /\ raised' = [raised EXCEPT ![i] = @ + 1]
    /\ UNCHANGED <<run, ioworkers, todo, closed, counts, held, reported, cancelled>>

ReportLossy(i) == \* mutant: an error overwrites the one not yet read
    /\ pc[i] \in {"err", "fail"}
    /\ held' = held \cup {i}
    /\ pc' = [pc EXCEPT ![i] = IF @ = "fail" THEN "close" ELSE "recv"]
    /\ UNCHANGED <<run, ioworkers, todo, closed, counts, raised, reported, cancelled>>

\* diwo.Merge takes an error; it is made when the barrier has opened.
Report(i) ==
    /\ pc[i] \in {"err", "fail"} /\ i \notin held
    /\ held' = held \cup {i}
    /\ pc' = [pc EXCEPT ![i] = IF @ = "fail" THEN "close" ELSE "recv"]
    /\ UNCHANGED <<run, ioworkers, todo, closed, counts, raised, reported, cancelled>>

CloseOut(i) ==
    /\ pc[i] = "close"
    /\ pc' = [pc EXCEPT ![i] = "done"]
    /\ closed' = closed \cup {i}
    /\ UNCHANGED <<run, ioworkers, todo, counts, errs, cancelled>>

-----------------------------------------------------------------------------
(***************************************************************************)
(* The loop of Run.  errsC is made with Len(ioworkers) nil channels before *)
(* those of the stages are appended, and a nil channel never ends: the     *)
(* merged channel stays open after the last error.  If it closed, a        *)
(* receive would give a nil error, and yield(nil, nil) a value.            *)
(***************************************************************************)
NoNilChannels == 0 \* mutant: errsC made with a capacity instead of a length

NilChannels == Len(ioworkers)

NoErrC == {} \* mutant: no case for errC

ErrC == IF NilChannels = 0 /\ held = {} /\ \A i \in Stage : pc[i] = "done" THEN {0} ELSE held

LoopErr(e) ==
    /\ run = "loop" /\ e \in ErrC
    /\ held' = held \ {e}
    /\ IF cancelled
          THEN run' = "ret" /\ UNCHANGED <<yielded, reported>>
          ELSE /\ UNCHANGED run
               /\ IF e = 0 THEN yielded' = yielded + 1 /\ UNCHANGED reported
                  ELSE reported' = [reported EXCEPT ![e] = @ + 1] /\ UNCHANGED yielded
    /\ UNCHANGED <<ioworkers, stages, taken, sent, raised, cancelled>>

LoopElem ==
    /\ run = "loop" /\ pc[Tip] = "send"
    /\ pc' = [pc EXCEPT ![Tip] = "work"]
    /\ sent' = [sent EXCEPT ![Tip] = @ + 1]
    /\ IF cancelled THEN run' = "ret" /\ UNCHANGED yielded
       ELSE yielded' = yielded + 1 /\ UNCHANGED run
    /\ UNCHANGED <<ioworkers, todo, closed, taken, errs, cancelled>>

EndOfAny == \* mutant: the end of any stage ends the loop
    /\ run = "loop"
    /\ closed # {} \/ cancelled
    /\ run' = "ret"
    /\ UNCHANGED <<ioworkers, stages, counts, errs, cancelled>>

LoopEnd ==
    /\ run = "loop"
    /\ Tip \in closed \/ cancelled
    /\ run' = "ret"
    /\ UNCHANGED <<ioworkers, stages, counts, errs, cancelled>>

Cancel ==
    /\ "cancel" \in Events /\ run = "loop" /\ ~cancelled
    /\ cancelled' = TRUE
    /\ UNCHANGED <<run, ioworkers, stages, counts, errs>>

-----------------------------------------------------------------------------
Thread(i) ==
    \/ i = 1 /\ RecvFirst
    \/ Recv(i) \/ RecvEnd(i) \/ Yield(i) \/ Return(i) \/ Report(i) \/ CloseOut(i)
    \/ Initialized(i)

Loop == Run \/ Synchronize \/ LoopElem \/ LoopEnd \/ \E e \in Stage \cup {0} : LoopErr(e)

\* Run has returned: its stages may go on, or stay blocked.
Over == run \in {"rejected", "ret"} /\ UNCHANGED vars

Next == Config \/ Loop \/ (\E i \in DOMAIN pc : Thread(i)) \/ Cancel \/ Over

Fairness ==
    /\ WF_vars(Config) /\ WF_vars(Loop)
    /\ \A i \in UNION {DOMAIN c : c \in Chains} : WF_vars(i \in DOMAIN pc /\ Thread(i))

Spec == Init /\ [][Next]_vars /\ Fairness

-----------------------------------------------------------------------------
(***************************************************************************)
(* Properties.                                                             *)
(***************************************************************************)
TypeOK ==
    /\ run \in {"config", "rejected", "ready", "sync", "loop", "ret"}
    /\ ioworkers \in Seq(Kind)
    /\ run \in {"sync", "loop", "ret"} =>
          /\ pc \in [Stage -> {"init", "barrier", "recv", "work", "send", "err", "fail",
                               "close", "done"}]
          /\ todo \in [Stage -> 0..MaxYield]
          /\ sent \in [Stage -> Nat]
          /\ raised \in [Stage -> Nat]
          /\ reported \in [Stage -> Nat]
    /\ closed \subseteq Stage
    /\ held \subseteq Stage
    /\ taken \in 0..Inputs
    /\ yielded \in Nat
    /\ cancelled \in BOOLEAN

\* The pipe yields what its last stage sent and nothing else: it is an accident
\* (the nil channels of plugin.go:74) that no nil value follows the last error.
NothingMadeUp ==
    run \in {"loop", "ret"} => yielded <= sent[Tip] /\ (~cancelled => yielded = sent[Tip])

\* A chain of workers returns, if it is not cancelled, only when the pipe's
\* input is at its end and every stage has ended; a producer cuts the chain
\* before it, and a consumer behind it, so that they return earlier.
DrainedAtReturn ==
    run = "ret" /\ ~cancelled /\ (\A i \in Stage : ioworkers[i] = "worker") =>
        taken = Inputs /\ \A i \in Stage : pc[i] = "done"

\* An error is yielded, or, when Run has returned, left with its stage and, one
\* for each stage at most, in the merge that nobody reads any more.
ErrorsAccounted ==
    run \in {"loop", "ret"} /\ ~cancelled =>
        \A i \in Stage :
            raised[i] = reported[i] + (IF i \in held THEN 1 ELSE 0)
                                    + (IF pc[i] \in {"err", "fail"} THEN 1 ELSE 0)

\* Run returns whatever its stages are, also when they fail.
Returns == <>(run \in {"rejected", "ret"})
=============================================================================
