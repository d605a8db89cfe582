----------------------------- MODULE PipeProofs -----------------------------
(***************************************************************************)
(* Theorems about Pipe, for a pipe of any length and any stages.           *)
(***************************************************************************)
EXTENDS Pipe, TLAPS

Running == run \in {"sync", "loop", "ret"}
AtError(i) == pc[i] \in {"err", "fail"}

Account(i) ==
    raised[i] = reported[i] + (IF i \in held THEN 1 ELSE 0) + (IF AtError(i) THEN 1 ELSE 0)

-----------------------------------------------------------------------------
(***************************************************************************)
(* The inductive invariant.                                                *)
(***************************************************************************)
\* Before Run there is no stage; Config loads at least one.
Loaded ==
    /\ ~Running => pc = <<>> /\ held = {} /\ closed = {} /\ yielded = 0
    /\ run # "config" /\ run # "rejected" => Tip \in Nat \ {0}

\* A chain of workers ends from its first stage on.
EndsInOrder ==
    Running /\ ~cancelled /\ (\A i \in Stage : ioworkers[i] = "worker") =>
        /\ \A i \in Stage : pc[i] # "fail"
        /\ \A i \in Stage : pc[i] \in {"close", "done"} =>
               taken = Inputs /\ \A j \in 1..(i - 1) : pc[j] = "done"
        /\ \A i \in closed : pc[i] = "done"
        /\ run = "ret" => Tip \in closed

\* Nothing has happened before the barrier opens.
Begun ==
    run = "sync" =>
        /\ held = {} /\ yielded = 0
        /\ \A i \in Stage : /\ pc[i] \in {"init", "barrier"}
                             /\ raised[i] = 0 /\ reported[i] = 0 /\ sent[i] = 0

IInv == TypeOK /\ Loaded /\ Begun /\ NothingMadeUp /\ ErrorsAccounted /\ EndsInOrder

-----------------------------------------------------------------------------
LEMMA StageFacts ==
    ASSUME TypeOK
    PROVE  /\ Tip \in Nat /\ Stage = 1..Tip
           /\ \A i \in Stage : i \in Nat /\ i >= 1 /\ i <= Tip /\ (i > 1 => i - 1 \in Stage)
           /\ Tip \in Nat \ {0} => Tip \in Stage
<1>1. ioworkers \in Seq(Kind)
    BY DEF TypeOK
<1>2. Tip \in Nat /\ Stage = 1..Tip
    BY <1>1 DEF Tip, Stage
<1> QED
    BY <1>2

LEMMA InitIInv == Init => IInv
<1> SUFFICES ASSUME Init PROVE IInv
    OBVIOUS
<1>1. ioworkers \in Seq(Kind)
    BY DEF Init
<1>2. taken \in 0..Inputs /\ cancelled \in BOOLEAN
    <2>1. 0 \in 0..Inputs
        BY PipeBounds
    <2>2. taken = 0 /\ cancelled = FALSE
        BY DEF Init
    <2> QED
        BY <2>1, <2>2
<1>3. TypeOK
    BY <1>1, <1>2 DEF Init, TypeOK
<1> QED
    BY <1>3 DEF Init, IInv, Loaded, Begun, Running, NothingMadeUp, ErrorsAccounted, EndsInOrder

LEMMA ConfigStep ==
    ASSUME IInv, Config
    PROVE  IInv'
<1>1. run = "config" /\ UNCHANGED <<stages, counts, errs, cancelled>>
    BY DEF Config
<1>2. CASE run' = "rejected" /\ UNCHANGED ioworkers
    BY <1>1, <1>2 DEF IInv, TypeOK, Loaded, Begun, Running, NothingMadeUp, ErrorsAccounted, EndsInOrder,
                      stages, counts, errs, Stage
<1>3. CASE run' = "ready" /\ ioworkers' \in Chains
    <2>1. ioworkers' \in Seq(Kind) /\ Len(ioworkers') \in Nat
        BY <1>3, PipeBounds
    <2>2. Len(ioworkers') # 0
        BY <1>3, <2>1, PipeBounds
    <2> QED
        BY <1>1, <1>3, <2>1, <2>2 DEF IInv, TypeOK, Loaded, Begun, Running, NothingMadeUp,
                                      ErrorsAccounted, EndsInOrder, stages, counts, errs, Stage, Tip
<1> QED
    BY <1>2, <1>3 DEF Config

LEMMA RunStep ==
    ASSUME IInv, Run
    PROVE  IInv'
<1>1. /\ run = "ready" /\ run' = "sync" /\ held = {} /\ held' = {} /\ yielded = 0 /\ yielded' = 0
      /\ ioworkers' = ioworkers /\ Stage' = Stage /\ Tip' = Tip
      /\ taken' = taken /\ cancelled' = cancelled
    BY DEF Run, IInv, Loaded, Running, Stage, Tip
<1>2. /\ pc' = [i \in Stage |-> "init"] /\ todo' = [i \in Stage |-> 0]
      /\ sent' = [i \in Stage |-> 0] /\ raised' = [i \in Stage |-> 0]
      /\ reported' = [i \in Stage |-> 0]
      /\ closed' = {i \in Stage : ioworkers[i] = "consumer"}
    BY DEF Run
<1>3. Tip \in Stage
    BY <1>1, StageFacts DEF IInv, Loaded
<1>4. TypeOK'
    BY <1>1, <1>2, PipeBounds DEF IInv, TypeOK
<1>5. Loaded' /\ Begun' /\ NothingMadeUp' /\ ErrorsAccounted'
    BY <1>1, <1>2, <1>3 DEF IInv, Loaded, Begun, Running, NothingMadeUp, ErrorsAccounted
<1>6. EndsInOrder'
    BY <1>1, <1>2 DEF EndsInOrder
<1> QED
    BY <1>4, <1>5, <1>6 DEF IInv

LEMMA SynchronizeStep ==
    ASSUME IInv, Synchronize
    PROVE  IInv'
<1>1. /\ run = "sync" /\ run' = "loop" /\ \A i \in Stage : pc[i] = "barrier"
      /\ Stage' = Stage /\ Tip' = Tip /\ UNCHANGED <<ioworkers, closed, counts, errs, cancelled>>
      /\ pc' = [i \in Stage |-> IF i \in Starting THEN "work" ELSE "recv"]
    BY DEF Synchronize, Stage, Tip
<1>2. TypeOK'
    <2>1. PICK first \in [Starting -> 0..MaxYield] :
              todo' = [i \in Stage |-> IF i \in Starting THEN first[i] ELSE 0]
        BY DEF Synchronize
    <2>2. \A i \in Stage : (IF i \in Starting THEN first[i] ELSE 0) \in 0..MaxYield
        BY PipeBounds
    <2>3. todo' \in [Stage -> 0..MaxYield]
        BY <2>1, <2>2
    <2> QED
        BY <1>1, <2>3, PipeBounds DEF IInv, TypeOK, counts, errs
<1>3. Loaded' /\ Begun' /\ NothingMadeUp'
    BY <1>1, StageFacts DEF IInv, Loaded, Begun, Running, NothingMadeUp, counts, errs
<1>4. ErrorsAccounted'
    <2>1. \A i \in Stage : raised[i] = 0 /\ reported[i] = 0 /\ held = {}
        BY <1>1 DEF IInv, Begun
    <2>2. \A i \in Stage : pc'[i] \in {"work", "recv"}
        BY <1>1
    <2> QED
        BY <1>1, <2>1, <2>2 DEF ErrorsAccounted, errs
<1>5. EndsInOrder'
    <2> SUFFICES ASSUME ~cancelled, \A i \in Stage : ioworkers[i] = "worker"
                 PROVE  /\ \A i \in Stage : pc'[i] = "recv"
                        /\ closed = {}
        BY <1>1 DEF EndsInOrder, Starting
    <2>1. closed \subseteq Stage /\ \A i \in closed : pc[i] = "done"
        BY <1>1 DEF IInv, TypeOK, EndsInOrder, Running
    <2> QED
        BY <1>1, <2>1 DEF Starting
<1> QED
    BY <1>2, <1>3, <1>4, <1>5 DEF IInv

LEMMA LoopStep ==
    ASSUME IInv, LoopElem \/ LoopEnd \/ (\E e \in Stage \cup {0} : LoopErr(e)) \/ Cancel
    PROVE  IInv'
<1>1. /\ run = "loop" /\ run' \in {"loop", "ret"} /\ Tip \in Stage /\ Tip \in Nat \ {0}
      /\ UNCHANGED <<ioworkers, todo, closed, taken, raised>> /\ Stage' = Stage /\ Tip' = Tip
    BY StageFacts DEF LoopElem, LoopEnd, LoopErr, Cancel, IInv, Loaded, stages, counts, errs,
                      Stage, Tip
<1>2. CASE LoopElem
    <2>1. /\ pc[Tip] = "send" /\ pc' = [pc EXCEPT ![Tip] = "work"]
          /\ sent' = [sent EXCEPT ![Tip] = @ + 1] /\ UNCHANGED <<raised, held, reported, cancelled>>
          /\ IF cancelled THEN run' = "ret" /\ UNCHANGED yielded
             ELSE yielded' = yielded + 1 /\ UNCHANGED run
        BY <1>2 DEF LoopElem, errs
    <2>2. TypeOK'
        <3>1. yielded' \in Nat /\ run' \in {"loop", "ret"}
            BY <1>1, <2>1 DEF IInv, TypeOK
        <3>2. /\ pc' \in [Stage -> {"init", "barrier", "recv", "work", "send", "err", "fail",
                                    "close", "done"}]
              /\ sent' \in [Stage -> Nat]
            BY <1>1, <2>1 DEF IInv, TypeOK
        <3> QED
            BY <1>1, <2>1, <3>1, <3>2 DEF IInv, TypeOK
    <2>3. Loaded' /\ Begun' /\ NothingMadeUp'
        BY <1>1, <2>1 DEF IInv, TypeOK, Loaded, Begun, Running, NothingMadeUp
    <2>4. ErrorsAccounted'
        BY <1>1, <2>1 DEF IInv, TypeOK, ErrorsAccounted
    <2>5. EndsInOrder'
        BY <1>1, <2>1, SMTT(30) DEF IInv, TypeOK, EndsInOrder, Running
    <2> QED
        BY <2>2, <2>3, <2>4, <2>5 DEF IInv
<1>3. ASSUME NEW e \in Stage \cup {0}, LoopErr(e) PROVE IInv'
    <2>1. e \in held /\ e \in Stage
        BY <1>1, <1>3 DEF LoopErr, ErrC, NilChannels, Tip, IInv, TypeOK
    <2>2. /\ held' = held \ {e} /\ yielded' = yielded /\ UNCHANGED <<pc, sent, cancelled>>
          /\ IF cancelled THEN run' = "ret" /\ UNCHANGED reported
             ELSE run' = run /\ reported' = [reported EXCEPT ![e] = @ + 1]
        BY <1>1, <1>3, <2>1, StageFacts DEF LoopErr, IInv, stages
    <2>3. TypeOK'
        <3>1. reported \in [Stage -> Nat] /\ reported' \in [Stage -> Nat]
            <4>1. reported \in [Stage -> Nat]
                BY <1>1 DEF IInv, TypeOK
            <4>2. [reported EXCEPT ![e] = @ + 1] \in [Stage -> Nat]
                BY <4>1, <2>1
            <4> QED
                BY <4>1, <4>2, <2>2
        <3>2. run' \in {"loop", "ret"} /\ cancelled' \in BOOLEAN /\ held' \subseteq Stage
            BY <1>1, <2>2 DEF IInv, TypeOK
        <3> QED
            BY <1>1, <2>2, <3>1, <3>2 DEF IInv, TypeOK
    <2>4. Loaded' /\ Begun' /\ NothingMadeUp'
        BY <1>1, <2>2 DEF IInv, Loaded, Begun, Running, NothingMadeUp
    <2>5. ErrorsAccounted'
        <3> SUFFICES ASSUME ~cancelled, NEW i \in Stage PROVE Account(i)'
            BY <1>1, <2>2 DEF ErrorsAccounted, Account, AtError
        <3>1. raised[i] = reported[i] + (IF i \in held THEN 1 ELSE 0) + (IF AtError(i) THEN 1 ELSE 0)
            BY <1>1 DEF IInv, ErrorsAccounted, AtError
        <3>2. reported' = [reported EXCEPT ![e] = @ + 1] /\ reported \in [Stage -> Nat]
            BY <1>1, <2>2 DEF IInv, TypeOK
        <3>3. AtError(i)' = AtError(i) /\ raised' = raised
            BY <1>1, <2>2 DEF AtError
        <3> QED
            BY <2>1, <2>2, <3>1, <3>2, <3>3 DEF Account
    <2>6. EndsInOrder'
        BY <1>1, <2>2 DEF IInv, EndsInOrder, Running
    <2> QED
        BY <2>3, <2>4, <2>5, <2>6 DEF IInv
<1>4. CASE LoopEnd \/ Cancel
    <2>1. /\ UNCHANGED <<pc, sent, yielded, held, reported>>
          /\ run' = "ret" /\ ~cancelled' => Tip \in closed
          /\ cancelled' \in BOOLEAN /\ (cancelled => cancelled')
        BY <1>1, <1>4 DEF LoopEnd, Cancel, stages, counts, errs, IInv, TypeOK
    <2> QED
        BY <1>1, <2>1 DEF IInv, TypeOK, Loaded, Begun, Running, NothingMadeUp, ErrorsAccounted, EndsInOrder
<1> QED
    BY <1>2, <1>3, <1>4

-----------------------------------------------------------------------------
(***************************************************************************)
(* The stages: what every step of one leaves alone, and each of its steps. *)
(***************************************************************************)
PC == {"init", "barrier", "recv", "work", "send", "err", "fail", "close", "done"}

LEMMA ThreadFacts ==
    ASSUME IInv, NEW i \in DOMAIN pc, Thread(i)
    PROVE  /\ Running /\ i \in Stage /\ Tip \in Nat \ {0} /\ Tip \in Stage
           /\ pc \in [Stage -> PC] /\ todo \in [Stage -> 0..MaxYield]
           /\ sent \in [Stage -> Nat] /\ raised \in [Stage -> Nat]
           /\ UNCHANGED <<run, ioworkers, yielded, reported, cancelled>>
           /\ Stage' = Stage /\ Tip' = Tip
<1>1. UNCHANGED <<run, ioworkers, yielded, reported, cancelled>> /\ Stage' = Stage /\ Tip' = Tip
    BY DEF Thread, RecvFirst, Recv, RecvEnd, Yield, Return, Report, CloseOut, Initialized,
           counts, errs, Stage, Tip
<1>2. Running
    <2>1. DOMAIN <<>> = {}
        OBVIOUS
    <2> QED
        BY <2>1 DEF IInv, Loaded
<1>3. /\ pc \in [Stage -> PC] /\ todo \in [Stage -> 0..MaxYield]
      /\ sent \in [Stage -> Nat] /\ raised \in [Stage -> Nat]
    BY <1>2 DEF IInv, TypeOK, Running, PC
<1> QED
    BY <1>1, <1>2, <1>3, StageFacts DEF IInv, Loaded, Running

LEMMA RunTypes == TypeOK /\ Running => reported \in [Stage -> Nat] /\ raised \in [Stage -> Nat]
BY DEF TypeOK, Running

\* What a step of a stage must keep of each part of the invariant.
LEMMA ThreadKeeps ==
    ASSUME IInv, NEW i \in DOMAIN pc, Thread(i),
           pc' \in [Stage -> PC], todo' \in [Stage -> 0..MaxYield], sent' \in [Stage -> Nat],
           raised' \in [Stage -> Nat], held' \subseteq Stage, closed' \subseteq Stage,
           taken' \in 0..Inputs, sent'[Tip] = sent[Tip],
           run = "sync" => UNCHANGED <<held, sent, raised>> /\ pc'[i] = "barrier"
                           /\ \A j \in Stage \ {i} : pc'[j] = pc[j],
           \A j \in Stage : Account(j) => Account(j)',
           EndsInOrder'
    PROVE  IInv'
<1>1. TypeOK'
    BY ThreadFacts DEF IInv, TypeOK, PC
<1>2. Loaded'
    BY ThreadFacts DEF IInv, Loaded, Running
<1>3. Begun'
    BY ThreadFacts DEF IInv, Begun
<1>4. NothingMadeUp'
    BY ThreadFacts DEF IInv, NothingMadeUp
<1>5. ErrorsAccounted'
    BY ThreadFacts DEF IInv, ErrorsAccounted, Account, AtError
<1> QED
    BY <1>1, <1>2, <1>3, <1>4, <1>5 DEF IInv

\* The steps that touch neither the counts nor the errors nor the outputs.
LEMMA InitializedStep ==
    ASSUME IInv, NEW i \in DOMAIN pc, Initialized(i)
    PROVE  IInv'
<1>1. Thread(i)
    BY DEF Thread
<1>2. /\ pc' = [pc EXCEPT ![i] = "barrier"] /\ pc[i] = "init" /\ run = "sync"
      /\ UNCHANGED <<todo, closed, taken, sent, raised, held, reported>>
    BY DEF Initialized, counts, errs
<1>3. /\ pc' \in [Stage -> PC] /\ taken \in 0..Inputs /\ held \subseteq Stage
      /\ closed \subseteq Stage
    BY <1>1, <1>2, ThreadFacts DEF PC, IInv, TypeOK
<1>4. \A j \in Stage : Account(j) => Account(j)'
    BY <1>1, <1>2, ThreadFacts DEF Account, AtError
<1>5. EndsInOrder'
    BY <1>1, <1>2, ThreadFacts DEF IInv, EndsInOrder, Begun, Running
<1> QED
    BY <1>1, <1>2, <1>3, <1>4, <1>5, ThreadFacts, ThreadKeeps

InOrder(j) ==
    pc'[j] # pc[j] =>
        /\ pc[j] \notin {"close", "done"} /\ pc'[j] \notin {"close", "done"}
        /\ ioworkers[j] = "worker" => pc'[j] # "fail"

\* A stage that is not at its end, and whose new place is not one either, takes
\* no part in the order of the ends; no stage behind it has ended.
LEMMA OrderKept ==
    ASSUME IInv, Running, UNCHANGED <<run, ioworkers, closed, cancelled>>,
           Stage' = Stage, Tip' = Tip, pc' \in [Stage -> PC],
           taken' = taken \/ taken # Inputs,
           \A j \in Stage : InOrder(j)
    PROVE  EndsInOrder'
<1> SUFFICES ASSUME ~cancelled, \A j \in Stage : ioworkers[j] = "worker"
             PROVE  /\ \A j \in Stage : pc'[j] # "fail"
                    /\ \A j \in Stage : pc'[j] \in {"close", "done"} =>
                           taken' = Inputs /\ \A k \in 1..(j - 1) : pc'[k] = "done"
                    /\ \A j \in closed : pc'[j] = "done"
                    /\ run = "ret" => Tip \in closed
    BY DEF EndsInOrder
<1>1. /\ \A j \in Stage : pc[j] # "fail"
      /\ \A j \in Stage : pc[j] \in {"close", "done"} =>
             taken = Inputs /\ \A k \in 1..(j - 1) : pc[k] = "done"
      /\ \A j \in closed : pc[j] = "done" /\ j \in Stage
      /\ run = "ret" => Tip \in closed
    BY DEF IInv, TypeOK, EndsInOrder
<1>2. Stage = 1..Tip /\ Tip \in Nat
    BY StageFacts DEF IInv
<1>3. ASSUME NEW j \in Stage, pc'[j] \in {"close", "done"}
      PROVE  taken' = Inputs /\ \A k \in 1..(j - 1) : pc'[k] = "done"
    <2>1. pc[j] \in {"close", "done"} /\ taken = Inputs /\ \A k \in 1..(j - 1) : pc[k] = "done"
        BY <1>1, <1>3 DEF InOrder
    <2>2. \A k \in 1..(j - 1) : k \in Stage
        BY <1>2, <1>3
    <2> QED
        BY <2>1, <2>2 DEF InOrder
<1> QED
    BY <1>1, <1>3 DEF InOrder

LEMMA RecvFirstStep ==
    ASSUME IInv, 1 \in DOMAIN pc, RecvFirst
    PROVE  IInv'
<1>1. Thread(1)
    BY DEF Thread
<1>2. /\ run # "sync" /\ pc[1] = "recv" /\ taken < Inputs /\ taken' = taken + 1
      /\ pc' = [pc EXCEPT ![1] = "work"]
      /\ UNCHANGED <<closed, sent, raised, held, reported>>
    BY <1>1, ThreadFacts DEF RecvFirst, Call, errs
<1>3. todo' \in [Stage -> 0..MaxYield]
    <2>1. PICK k \in 0..(IF ioworkers[1] \in {"worker", "runner"} THEN MaxYield ELSE 0) :
              todo' = [todo EXCEPT ![1] = k]
        BY DEF RecvFirst, Call
    <2>2. k \in 0..MaxYield
        BY <2>1, PipeBounds
    <2> QED
        BY <1>1, <2>1, <2>2, ThreadFacts
<1>4. /\ pc' \in [Stage -> PC] /\ taken' \in 0..Inputs /\ held \subseteq Stage
      /\ closed \subseteq Stage /\ taken # Inputs
    BY <1>1, <1>2, PipeBounds, ThreadFacts DEF PC, IInv, TypeOK
<1>5. \A j \in Stage : Account(j) => Account(j)'
    BY <1>1, <1>2, ThreadFacts DEF Account, AtError
<1>6. EndsInOrder'
    <2>1. \A j \in Stage : InOrder(j)
        BY <1>1, <1>2, ThreadFacts DEF InOrder
    <2> QED
        BY <1>1, <1>2, <1>4, <2>1, ThreadFacts, OrderKept
<1> QED
    BY <1>1, <1>2, <1>3, <1>4, <1>5, <1>6, ThreadFacts, ThreadKeeps

LEMMA RecvStep ==
    ASSUME IInv, NEW i \in DOMAIN pc, Recv(i)
    PROVE  IInv'
<1>1. Thread(i)
    BY DEF Thread
<1>2. i \in Nat /\ i > 1 /\ i <= Tip /\ i - 1 \in Stage /\ i - 1 # Tip /\ Tip \in Nat
    BY <1>1, ThreadFacts, StageFacts DEF Recv, IInv
<1>3. /\ pc[i] = "recv" /\ pc[i - 1] = "send" /\ sent' = [sent EXCEPT ![i - 1] = @ + 1]
      /\ pc' = [pc EXCEPT ![i - 1] = "work", ![i] = "work"]
      /\ UNCHANGED <<closed, taken, raised, held, reported>>
    BY DEF Recv, Call, errs
<1>4. run # "sync"
    BY <1>1, <1>3, ThreadFacts DEF IInv, Begun
<1>5. todo' \in [Stage -> 0..MaxYield]
    <2>1. PICK k \in 0..(IF ioworkers[i] \in {"worker", "runner"} THEN MaxYield ELSE 0) :
              todo' = [todo EXCEPT ![i] = k]
        BY DEF Recv, Call
    <2>2. k \in 0..MaxYield
        BY <2>1, PipeBounds
    <2> QED
        BY <1>1, <2>1, <2>2, ThreadFacts
<1>6. /\ pc' \in [Stage -> PC] /\ sent' \in [Stage -> Nat] /\ sent'[Tip] = sent[Tip]
      /\ taken \in 0..Inputs /\ held \subseteq Stage /\ closed \subseteq Stage
      /\ \A j \in Stage : pc'[j] # pc[j] => j \in {i - 1, i} /\ pc'[j] = "work"
    <2>1. pc \in [Stage -> PC] /\ sent \in [Stage -> Nat] /\ "work" \in PC
        BY <1>1, ThreadFacts DEF PC
    <2>2. /\ pc' \in [Stage -> PC]
          /\ \A j \in Stage : pc'[j] # pc[j] => j \in {i - 1, i} /\ pc'[j] = "work"
        BY <1>2, <1>3, <2>1
    <2>3. sent' \in [Stage -> Nat] /\ sent'[Tip] = sent[Tip]
        BY <1>2, <1>3, <2>1
    <2>4. taken \in 0..Inputs /\ held \subseteq Stage /\ closed \subseteq Stage
        BY DEF IInv, TypeOK
    <2> QED
        BY <2>2, <2>3, <2>4
<1>7. \A j \in Stage : Account(j) => Account(j)'
    BY <1>1, <1>2, <1>3, ThreadFacts DEF Account, AtError
<1>8. EndsInOrder'
    <2>1. \A j \in Stage : InOrder(j)
        BY <1>1, <1>2, <1>3, <1>6, ThreadFacts DEF InOrder
    <2> QED
        BY <1>1, <1>3, <1>4, <1>6, <2>1, ThreadFacts, OrderKept
<1> QED
    BY <1>1, <1>3, <1>4, <1>5, <1>6, <1>7, <1>8, ThreadFacts, ThreadKeeps

\* The input of stage i is at its end when the pipe's is, or when the stage
\* before it has closed its output: every stage before that one has ended.
LEMMA RecvEndStep ==
    ASSUME IInv, NEW i \in DOMAIN pc, RecvEnd(i)
    PROVE  IInv'
<1>1. Thread(i)
    BY DEF Thread
<1>2. /\ run # "sync" /\ pc[i] = "recv" /\ pc' = [pc EXCEPT ![i] = "close"]
      /\ UNCHANGED <<todo, closed, taken, sent, raised, held, reported>>
    BY DEF RecvEnd, counts, errs
<1>3. /\ pc' \in [Stage -> PC] /\ taken \in 0..Inputs /\ held \subseteq Stage
      /\ closed \subseteq Stage
    BY <1>1, <1>2, ThreadFacts DEF PC, IInv, TypeOK
<1>4. \A j \in Stage : Account(j) => Account(j)'
    BY <1>1, <1>2, ThreadFacts DEF Account, AtError
<1>5. EndsInOrder'
    <2> SUFFICES ASSUME ~cancelled, \A j \in Stage : ioworkers[j] = "worker"
                 PROVE  taken = Inputs /\ \A k \in 1..(i - 1) : pc[k] = "done"
        <3>1. /\ \A j \in Stage : pc'[j] = IF j = i THEN "close" ELSE pc[j]
              /\ pc[i] \notin {"close", "done"} /\ i \in Stage
            BY <1>1, <1>2, ThreadFacts
        <3>2. \A j \in Stage : j \in Nat /\ \A k \in 1..(j - 1) : k \in Stage
            BY StageFacts DEF IInv
        <3> QED
            BY <1>1, <1>2, <3>1, <3>2, ThreadFacts DEF EndsInOrder, IInv, TypeOK
    <2>1. InputEnded(i) /\ i \in Nat /\ i >= 1
        BY <1>1, StageFacts, ThreadFacts DEF RecvEnd, IInv
    <2>2. CASE i = 1
        BY <2>1, <2>2 DEF InputEnded
    <2>3. CASE i # 1
        <3>1. i - 1 \in closed /\ i - 1 \in Stage /\ pc[i - 1] = "done"
            BY <1>1, <2>1, <2>3, ThreadFacts DEF InputEnded, IInv, TypeOK, EndsInOrder
        <3>2. taken = Inputs /\ \A k \in 1..((i - 1) - 1) : pc[k] = "done"
            BY <1>1, <3>1, ThreadFacts DEF IInv, EndsInOrder
        <3> QED
            BY <2>1, <3>1, <3>2
    <2> QED
        BY <2>2, <2>3
<1> QED
    BY <1>1, <1>2, <1>3, <1>4, <1>5, ThreadFacts, ThreadKeeps

LEMMA YieldStep ==
    ASSUME IInv, NEW i \in DOMAIN pc, Yield(i)
    PROVE  IInv'
<1>1. Thread(i)
    BY DEF Thread
<1>2. /\ pc[i] = "work" /\ todo[i] > 0
      /\ todo' = [todo EXCEPT ![i] = IF cancelled THEN 0 ELSE @ - 1]
      /\ pc' = [pc EXCEPT ![i] = IF cancelled THEN @ ELSE "send"]
      /\ UNCHANGED <<closed, taken, sent, raised, held, reported>>
    BY DEF Yield, counts, errs
<1>3. run # "sync"
    BY <1>1, <1>2, ThreadFacts DEF IInv, Begun
<1>4. /\ pc' \in [Stage -> PC] /\ taken \in 0..Inputs /\ held \subseteq Stage
      /\ closed \subseteq Stage
    BY <1>1, <1>2, ThreadFacts DEF PC, IInv, TypeOK
<1>5. todo' \in [Stage -> 0..MaxYield]
    <2>1. 0 \in 0..MaxYield /\ todo[i] - 1 \in 0..MaxYield
        BY <1>1, <1>2, PipeBounds, ThreadFacts
    <2> QED
        BY <1>1, <1>2, <2>1, ThreadFacts
<1>6. \A j \in Stage : Account(j) => Account(j)'
    BY <1>1, <1>2, ThreadFacts DEF Account, AtError
<1>7. EndsInOrder'
    <2>1. \A j \in Stage : InOrder(j)
        BY <1>1, <1>2, ThreadFacts DEF InOrder
    <2> QED
        BY <1>1, <1>2, <1>3, <1>4, <2>1, ThreadFacts, OrderKept
<1> QED
    BY <1>1, <1>2, <1>3, <1>4, <1>5, <1>6, <1>7, ThreadFacts, ThreadKeeps

\* A producer ends when its call returns, and a runner may; the order is that of workers alone.
LEMMA ReturnStep ==
    ASSUME IInv, NEW i \in DOMAIN pc, Return(i)
    PROVE  IInv'
<1>1. Thread(i)
    BY DEF Thread
<1>2. pc[i] = "work" /\ UNCHANGED <<todo, closed, taken, sent, held, reported>>
    BY DEF Return, counts
<1>3. \/ /\ \/ pc' = [pc EXCEPT ![i] = "recv"]
            \/ i \in Starting /\ pc' = [pc EXCEPT ![i] = "close"]
         /\ UNCHANGED raised
      \/ /\ \/ pc' = [pc EXCEPT ![i] = "err"]
            \/ i \in Starting /\ pc' = [pc EXCEPT ![i] = "fail"]
         /\ raised' = [raised EXCEPT ![i] = @ + 1]
    BY DEF Return
<1>4. run # "sync"
    BY <1>1, <1>2, ThreadFacts DEF IInv, Begun
<1>5. /\ pc' \in [Stage -> PC] /\ raised' \in [Stage -> Nat] /\ taken \in 0..Inputs
      /\ held \subseteq Stage /\ closed \subseteq Stage
    <2>1. pc' \in [Stage -> PC]
        BY <1>1, <1>3, ThreadFacts DEF PC
    <2>2. raised' \in [Stage -> Nat]
        BY <1>1, <1>3, ThreadFacts
    <2> QED
        BY <2>1, <2>2 DEF IInv, TypeOK
<1>6. ASSUME NEW j \in Stage, Account(j) PROVE Account(j)'
    <2>1. CASE j = i
        <3>1. ~AtError(i) /\ i \in Stage
            BY <1>1, <1>2, ThreadFacts DEF AtError
        <3>2. \/ ~AtError(i)' /\ raised' = raised
              \/ AtError(i)' /\ raised'[i] = raised[i] + 1
            BY <1>1, <1>3, <3>1, ThreadFacts DEF AtError
        <3> QED
            BY <1>1, <1>2, <1>5, <1>6, <2>1, <3>1, <3>2, ThreadFacts, RunTypes DEF Account, IInv
    <2>2. CASE j # i
        BY <1>1, <1>2, <1>3, <1>6, <2>2, ThreadFacts DEF Account, AtError
    <2> QED
        BY <2>1, <2>2
<1>7. CASE ioworkers[i] = "worker"
    <2>1. EndsInOrder'
        <3>1. \A j \in Stage : InOrder(j)
            BY <1>1, <1>2, <1>3, <1>7, ThreadFacts DEF InOrder, Starting
        <3> QED
            BY <1>1, <1>2, <1>4, <1>5, <3>1, ThreadFacts, OrderKept
    <2> QED
        BY <1>1, <1>2, <1>4, <1>5, <1>6, <2>1, ThreadFacts, ThreadKeeps
<1>8. CASE ioworkers[i] # "worker"
    <2>1. EndsInOrder'
        BY <1>1, <1>8, ThreadFacts DEF EndsInOrder
    <2> QED
        BY <1>1, <1>2, <1>4, <1>5, <1>6, <2>1, ThreadFacts, ThreadKeeps
<1> QED
    BY <1>7, <1>8

LEMMA ReportStep ==
    ASSUME IInv, NEW i \in DOMAIN pc, Report(i)
    PROVE  IInv'
<1>1. Thread(i)
    BY DEF Thread
<1>2. /\ pc[i] \in {"err", "fail"} /\ i \notin held /\ held' = held \cup {i}
      /\ pc' = [pc EXCEPT ![i] = IF @ = "fail" THEN "close" ELSE "recv"]
      /\ UNCHANGED <<todo, closed, taken, sent, raised, reported>>
    BY DEF Report, counts
<1>3. run # "sync"
    BY <1>1, <1>2, ThreadFacts DEF IInv, Begun
<1>4. /\ pc' \in [Stage -> PC] /\ taken \in 0..Inputs /\ held' \subseteq Stage
      /\ closed \subseteq Stage
    BY <1>1, <1>2, ThreadFacts DEF PC, IInv, TypeOK
<1>5. \A j \in Stage : Account(j) => Account(j)'
    <2>1. AtError(i) /\ ~AtError(i)' /\ i \in Stage
        BY <1>1, <1>2, ThreadFacts DEF AtError
    <2>2. \A j \in Stage \ {i} : AtError(j)' = AtError(j)
        BY <1>1, <1>2, ThreadFacts DEF AtError
    <2>3. Account(i) => Account(i)'
        BY <1>1, <1>2, <2>1, ThreadFacts, RunTypes DEF Account, IInv
    <2>4. ASSUME NEW j \in Stage \ {i}, Account(j) PROVE Account(j)'
        BY <1>2, <2>2, <2>4 DEF Account
    <2> QED
        BY <2>3, <2>4
<1>6. CASE pc[i] = "err"
    <2>1. EndsInOrder'
        <3>1. \A j \in Stage : InOrder(j)
            BY <1>1, <1>2, <1>6, ThreadFacts DEF InOrder
        <3> QED
            BY <1>1, <1>2, <1>3, <1>4, <3>1, ThreadFacts, OrderKept
    <2> QED
        BY <1>1, <1>2, <1>3, <1>4, <1>5, <2>1, ThreadFacts, ThreadKeeps
<1>7. CASE pc[i] = "fail"
    <2>1. EndsInOrder'
        BY <1>1, <1>7, ThreadFacts DEF IInv, EndsInOrder
    <2> QED
        BY <1>1, <1>2, <1>3, <1>4, <1>5, <2>1, ThreadFacts, ThreadKeeps
<1> QED
    BY <1>2, <1>6, <1>7

LEMMA CloseOutStep ==
    ASSUME IInv, NEW i \in DOMAIN pc, CloseOut(i)
    PROVE  IInv'
<1>1. Thread(i)
    BY DEF Thread
<1>2. /\ pc[i] = "close" /\ pc' = [pc EXCEPT ![i] = "done"] /\ closed' = closed \cup {i}
      /\ UNCHANGED <<todo, taken, sent, raised, held, reported>>
    BY DEF CloseOut, counts, errs
<1>3. run # "sync"
    BY <1>1, <1>2, ThreadFacts DEF IInv, Begun
<1>4. /\ pc' \in [Stage -> PC] /\ taken \in 0..Inputs /\ held \subseteq Stage
      /\ closed' \subseteq Stage
    BY <1>1, <1>2, ThreadFacts DEF PC, IInv, TypeOK
<1>5. \A j \in Stage : Account(j) => Account(j)'
    BY <1>1, <1>2, ThreadFacts DEF Account, AtError
<1>6. EndsInOrder'
    <2>1. \A j \in Stage : pc'[j] = IF j = i THEN "done" ELSE pc[j]
        BY <1>1, <1>2, ThreadFacts
    <2>2. \A j \in Stage : j \in Nat /\ \A k \in 1..(j - 1) : k \in Stage
        BY StageFacts DEF IInv
    <2> QED
        BY <1>1, <1>2, <1>4, <2>1, <2>2, ThreadFacts DEF EndsInOrder, IInv, TypeOK
<1> QED
    BY <1>1, <1>2, <1>3, <1>4, <1>5, <1>6, ThreadFacts, ThreadKeeps

-----------------------------------------------------------------------------
LEMMA NextIInv == IInv /\ [Next]_vars => IInv'
<1> SUFFICES ASSUME IInv, [Next]_vars PROVE IInv'
    OBVIOUS
<1>1. CASE Config
    BY <1>1, ConfigStep
<1>2. CASE Loop
    BY <1>2, RunStep, SynchronizeStep, LoopStep DEF Loop
<1>3. ASSUME NEW i \in DOMAIN pc, Thread(i) PROVE IInv'
    BY <1>3, RecvFirstStep, RecvStep, RecvEndStep, YieldStep, ReturnStep, ReportStep,
       CloseOutStep, InitializedStep DEF Thread
<1>4. CASE Cancel
    BY <1>4, LoopStep
<1>5. CASE UNCHANGED vars
    BY <1>5 DEF vars, stages, counts, errs, IInv, TypeOK, Loaded, Begun, Running, NothingMadeUp,
                ErrorsAccounted, EndsInOrder, Stage, Tip
<1> QED
    BY <1>1, <1>2, <1>3, <1>4, <1>5 DEF Next, Over

\* Every reachable state satisfies the inductive invariant.
THEOREM Invariance == Spec => []IInv
BY InitIInv, NextIInv, PTL DEF Spec

-----------------------------------------------------------------------------
(***************************************************************************)
(* The theorems.                                                           *)
(***************************************************************************)
\* Whatever its stages are, the pipe yields what its last stage sent and
\* nothing else: the merged error channel (plugin.go:74-81) never closes.
THEOREM NothingMadeUpCorrect == Spec => []NothingMadeUp
BY Invariance, PTL DEF IInv

\* No error of a stage is lost between the stage and the pipe's own yield
\* (plugin.go:86-89), except those that are on their way when Run returns.
THEOREM ErrorsAccountedCorrect == Spec => []ErrorsAccounted
BY Invariance, PTL DEF IInv

\* A pipe of workers of any length is drained when Run returns by itself.
THEOREM DrainedAtReturnCorrect == Spec => []DrainedAtReturn
<1>1. IInv => DrainedAtReturn
    <2> SUFFICES ASSUME IInv, run = "ret", ~cancelled, \A i \in Stage : ioworkers[i] = "worker"
                 PROVE  taken = Inputs /\ \A i \in Stage : pc[i] = "done"
        BY DEF DrainedAtReturn
    <2>1. Stage = 1..Tip /\ Tip \in Nat \ {0} /\ Tip \in Stage
        BY StageFacts DEF IInv, Loaded
    <2>2. pc[Tip] = "done" /\ taken = Inputs /\ \A j \in 1..(Tip - 1) : pc[j] = "done"
        BY <2>1 DEF IInv, EndsInOrder, Running
    <2> QED
        BY <2>1, <2>2
<1> QED
    BY <1>1, Invariance, PTL
=============================================================================
