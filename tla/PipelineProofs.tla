--------------------------- MODULE PipelineProofs ---------------------------
(***************************************************************************)
(* Theorems about Pipeline, for every graph, every kind of stage and every *)
(* bound.                                                                  *)
(***************************************************************************)
EXTENDS Pipeline, FiniteSetTheorems, TLAPS

-----------------------------------------------------------------------------
(***************************************************************************)
(* The graph.                                                              *)
(***************************************************************************)

\* Every vertex, relay and the raw input is a node; the raw input is neither.
LEMMA NodeFacts ==
    /\ Vertex \subseteq Node /\ Relay \subseteq Node /\ Stdin \in Node
    /\ Stdin \notin Vertex /\ Stdin \notin Relay /\ Vertex \cap Relay = {}
    /\ Worker \subseteq Vertex /\ Producer \subseteq Vertex
    /\ Consumer \subseteq Vertex /\ Runner \subseteq Vertex
BY KindsAreDisjoint DEF Node, Vertex, Relay

\* Reading a parent and being subscribed to it are the same edge.
LEMMA EdgeFacts ==
    /\ \A v \in Node : \A p \in Preds[v] :
          p \in Node /\ <<p, v>> \in Edge /\ v \in Children(p)
    /\ \A e \in Edge :
          /\ e[1] \in Node /\ e[2] \in Node /\ e = <<e[1], e[2]>>
          /\ e[1] \in Preds[e[2]] /\ e[2] \in Children(e[1])
    /\ \A p, v : <<p, v>> \in Edge =>
          p \in Node /\ v \in Node /\ p \in Preds[v] /\ v \in Children(p)
    /\ \A p \in Node : Children(p) \subseteq Node
    /\ \A p, v : v \in Children(p) => p \in Preds[v]
BY GraphIsFinite DEF Edge, Children

-----------------------------------------------------------------------------
(***************************************************************************)
(* The inductive invariant.                                                *)
(***************************************************************************)

\* The wait group counts the vertices between Initializing and Initialized.
Initializing == {v \in Vertex : pc[v] = "init"}
Counted      == wg = Cardinality(Initializing)

\* SendRawInput takes no part in the barrier and raises no error.
StdinPlain == pc[Stdin] \in {"off", "work", "send", "close", "exit", "done"}

\* A root's edge has no merge, and so nothing in a slot.
DirectSlots == \A e \in Edge : e[1] \in Direct => slot[e] = 0

\* The barrier opens after every vertex has reached it, and nothing starts or
\* is sent before it opens.
Gate ==
    /\ main = "start" => ~released
    /\ main # "start" => \A v \in Vertex : pc[v] \notin {"off", "init"}
    /\ \A n \in Node : Started(n) \/ sent[n] > 0 => released

IInv ==
    /\ TypeOK
    /\ Counted
    /\ StdinPlain
    /\ DirectSlots
    /\ Delivery
    /\ Gate

-----------------------------------------------------------------------------
(***************************************************************************)
(* Type correctness.                                                       *)
(***************************************************************************)

LEMMA InitType == Init => TypeOK
<1> SUFFICES ASSUME Init PROVE TypeOK
    OBVIOUS
<1> QED
    BY DEF Init, TypeOK, PC

\* A vertex that has not reached the barrier is counted.
LEMMA CountedPositive ==
    ASSUME TypeOK, Counted, NEW v \in Vertex, pc[v] = "init"
    PROVE  wg > 0
<1>1. IsFiniteSet(Initializing)
    BY GraphIsFinite, FS_Subset DEF Initializing
<1>2. Initializing # {}
    BY DEF Initializing
<1> QED
    BY <1>1, <1>2, FS_EmptySet, FS_CardinalityType DEF Counted, TypeOK

\* What a reader is offered is a value it has not read.
LEMMA OfferedFacts ==
    ASSUME TypeOK, DirectSlots, Delivery, NEW v \in Node, NEW p \in Preds[v],
           Offered(p, v) # 0
    PROVE  /\ Offered(p, v) = got[<<p, v>>] + 1
           /\ Offered(p, v) \in Nat
           /\ sent[p] > 0
           /\ p \in Direct => v \in pend[p] /\ sent[p] = Offered(p, v)
           /\ p \notin Direct => slot[<<p, v>>] = Offered(p, v)
<1> DEFINE e == <<p, v>>
<1>1. /\ e \in Edge /\ p \in Node /\ e[1] = p /\ e[2] = v
    BY EdgeFacts
<1>2. /\ sent[p] = got[e] + InFlight(p, v)
      /\ slot[e] # 0 => slot[e] = got[e] + 1
    BY <1>1 DEF Delivery
<1>3. sent[p] \in Nat /\ got[e] \in Nat /\ slot[e] \in Nat
    BY <1>1 DEF TypeOK
<1>4. CASE p \in Direct
    <2>1. v \in pend[p] /\ Offered(p, v) = sent[p] /\ slot[e] = 0
        BY <1>1, <1>4 DEF Offered, DirectSlots
    <2>2. InFlight(p, v) = 1
        BY <2>1 DEF InFlight
    <2> QED
        BY <1>2, <1>3, <1>4, <2>1, <2>2
<1>5. CASE p \notin Direct
    <2>1. Offered(p, v) = slot[e]
        BY <1>5 DEF Offered
    <2>2. InFlight(p, v) \in {1, 2}
        BY <2>1 DEF InFlight
    <2> QED
        BY <1>2, <1>3, <1>5, <2>1, <2>2
<1> QED
    BY <1>4, <1>5

\* Every step but the exit is one of the actions, taken by the node it is for.
LEMMA StepCases ==
    ASSUME Step
    PROVE  \/ \E v \in Vertex : Run(v) \/ ReceiveErr(v)
           \/ Synchronize \/ ErrCClosed \/ Interrupt \/ Cancel
           \/ \E v \in Vertex \cup {Stdin} :
                 \/ Initialized(v) \/ PassBarrier(v) \/ RecvClosed(v)
                 \/ SeeCancel(v) \/ RunnerEof(v) \/ Yield(v) \/ Refuse(v)
                 \/ YieldError(v) \/ SendOutput(v) \/ Return(v) \/ Fail(v)
                 \/ Report(v) \/ CloseOut(v) \/ Finish(v)
           \/ \E v \in Vertex \cup {Stdin} : \E p \in Preds[v] :
                 RecvData(p, v) \/ RunnerRecv(p, v)
           \/ \E p \in Node : EndBroker(p)
           \/ \E r \in Node : \E p \in Preds[r] : Forward(p, r)
           \/ \E e \in Edge : Merge(e[1], e[2])
BY DEF Step, RunTemplate, Thread, Broker, Wire

\* Taking a value from a direct subscription changes what is owed there only.
LEMMA SettledFacts ==
    ASSUME TypeOK, NEW p \in Node, NEW v \in Node
    PROVE  /\ Settled(p, v) \in [Node -> SUBSET Node]
           /\ \A n \in Node : Settled(p, v)[n] \subseteq pend[n]
           /\ \A n \in Node : Settled(p, v)[n] =
                 IF n = p /\ p \in Direct THEN pend[p] \ {v} ELSE pend[n]
BY DEF Settled, TypeOK

LEMMA NextType ==
    ASSUME IInv, [Next]_vars
    PROVE  TypeOK'
<1> USE NodeFacts, EdgeFacts DEF IInv, TypeOK, Goto, flow, errs, ctl, vars
<1>1. ASSUME NEW v \in Vertex, Run(v) PROVE TypeOK'
    BY <1>1 DEF Run, Close, PC
<1>2. ASSUME NEW v \in Vertex, ReceiveErr(v) PROVE TypeOK'
    BY <1>2 DEF ReceiveErr
<1>3. CASE Synchronize
    BY <1>3 DEF Synchronize, Begin, PC
<1>4. CASE ErrCClosed \/ Interrupt \/ Cancel
    BY <1>4 DEF ErrCClosed, Interrupt, Cancel
<1>5. ASSUME NEW v \in Vertex \cup {Stdin}, Initialized(v) PROVE TypeOK'
    <2>1. v \in Vertex /\ pc[v] = "init"
        BY <1>5 DEF Initialized, StdinPlain
    <2>2. wg > 0
        BY <2>1, CountedPositive
    <2> QED
        BY <1>5, <2>2 DEF Initialized, PC
<1>6. ASSUME NEW v \in Vertex \cup {Stdin}, PassBarrier(v) PROVE TypeOK'
    <2>1. v \in Vertex
        BY <1>6 DEF PassBarrier, StdinPlain
    <2>2. MaxYield[v] \in Nat
        BY <2>1, Bounds
    <2>3. pc' \in [Node -> PC]
        BY <1>6 DEF PassBarrier, PC
    <2>4. todo' \in [Node -> Nat]
        <3>1. todo' = todo \/ \E k \in 0..MaxYield[v] : todo' = [todo EXCEPT ![v] = k]
            BY <1>6 DEF PassBarrier
        <3> QED
            BY <2>2, <3>1
    <2> QED
        BY <1>6, <2>3, <2>4 DEF PassBarrier
<1>7. ASSUME NEW v \in Vertex \cup {Stdin},
             RecvClosed(v) \/ SeeCancel(v) \/ RunnerEof(v) \/ Return(v) \/ Finish(v)
      PROVE TypeOK'
    BY <1>7 DEF RecvClosed, SeeCancel, RunnerEof, Return, Finish, PC
<1>8. ASSUME NEW v \in Vertex \cup {Stdin}, Yield(v) \/ Refuse(v) PROVE TypeOK'
    <2>1. v \in Node /\ todo[v] \in Nat /\ todo[v] > 0
        BY <1>8 DEF Yield, Refuse
    <2>2. todo' \in [Node -> Nat]
        <3>1. todo' \in {[todo EXCEPT ![v] = todo[v] - 1], [todo EXCEPT ![v] = 0]}
            BY <1>8 DEF Yield, Refuse
        <3> QED
            BY <2>1, <3>1
    <2>3. pc' \in [Node -> PC]
        <3>1. pc' = pc \/ pc' = [pc EXCEPT ![v] = "send"]
            BY <1>8 DEF Yield, Refuse
        <3> QED
            BY <2>1, <3>1 DEF PC
    <2> QED
        BY <1>8, <2>2, <2>3 DEF Yield, Refuse
<1>9. ASSUME NEW v \in Vertex \cup {Stdin}, YieldError(v) \/ Fail(v) PROVE TypeOK'
    <2>1. v \in Vertex
        BY <1>9 DEF YieldError, Fail
    <2>2. pc' \in [Node -> PC]
        BY <1>9 DEF YieldError, Fail, PC
    <2>3. raised' \in [Vertex -> Nat]
        BY <1>9, <2>1 DEF YieldError, Fail, Raise
    <2>4. todo' \in [Node -> Nat]
        <3>1. CASE YieldError(v)
            <4>1. v \in Node /\ todo[v] \in Nat /\ todo[v] > 0
                BY <3>1 DEF YieldError
            <4> QED
                BY <3>1, <4>1 DEF YieldError
        <3>2. CASE Fail(v)
            BY <3>2 DEF Fail
        <3> QED
            BY <1>9, <3>1, <3>2
    <2> QED
        BY <1>9, <2>2, <2>3, <2>4 DEF YieldError, Fail
<1>10. ASSUME NEW v \in Vertex \cup {Stdin}, SendOutput(v) PROVE TypeOK'
    BY <1>10 DEF SendOutput, PC
<1>11. ASSUME NEW v \in Vertex \cup {Stdin}, Report(v) PROVE TypeOK'
    <2>1. v \in Vertex
        BY <1>11 DEF Report, StdinPlain
    <2>2. pc' \in [Node -> PC]
        BY <1>11, <2>1 DEF Report, AfterReport, PC
    <2> QED
        BY <1>11, <2>1, <2>2 DEF Report
<1>12. ASSUME NEW v \in Vertex \cup {Stdin}, CloseOut(v) PROVE TypeOK'
    BY <1>12 DEF CloseOut, Close, PC
<1>13. ASSUME NEW v \in Vertex \cup {Stdin}, NEW p \in Preds[v],
              RecvData(p, v) \/ RunnerRecv(p, v)
       PROVE TypeOK'
    <2>1. Offered(p, v) \in Nat
        BY <1>13, OfferedFacts DEF RecvData, RunnerRecv, Accept
    <2>2. v \in Vertex /\ MaxYield[v] \in Nat
        BY <1>13, Bounds DEF RecvData, RunnerRecv
    <2>3. p \in Node /\ v \in Node /\ <<p, v>> \in Edge
        OBVIOUS
    <2>4. pend' \in [Node -> SUBSET Node] /\ \A n \in Node : pend'[n] \subseteq Children(n)
        <3>1. pend' = Settled(p, v)
            BY <1>13 DEF RecvData, RunnerRecv
        <3>2. /\ Settled(p, v) \in [Node -> SUBSET Node]
              /\ \A n \in Node : Settled(p, v)[n] \subseteq pend[n]
            BY <2>3, SettledFacts
        <3> QED
            BY <3>1, <3>2
    <2>5. Accept(p, v)
        BY <1>13 DEF RecvData, RunnerRecv
    <2>6. got' \in [Edge -> Nat] /\ slot' \in [Edge -> Nat]
        BY <2>1, <2>3, <2>5 DEF Accept
    <2>7. \E k \in Nat : todo' = [todo EXCEPT ![v] = k]
        BY <1>13, <2>2 DEF RecvData, RunnerRecv
    <2>8. todo' \in [Node -> Nat]
        BY <2>7
    <2>9. pc' \in [Node -> PC]
        BY <1>13, <2>3 DEF RecvData, RunnerRecv, PC
    <2> QED
        BY <1>13, <2>4, <2>6, <2>8, <2>9 DEF RecvData, RunnerRecv
<1>14. ASSUME NEW p \in Node, EndBroker(p) PROVE TypeOK'
    BY <1>14 DEF EndBroker
<1>15. ASSUME NEW r \in Node, NEW p \in Preds[r], Forward(p, r) PROVE TypeOK'
    <2>1. Offered(p, r) \in Nat
        BY <1>15, OfferedFacts DEF Forward, Accept
    <2>2. p \in Node /\ <<p, r>> \in Edge
        OBVIOUS
    <2>3. /\ Settled(p, r) \in [Node -> SUBSET Node]
          /\ \A n \in Node : Settled(p, r)[n] \subseteq pend[n]
        BY <2>2, SettledFacts
    <2>4. pend' \in [Node -> SUBSET Node] /\ \A n \in Node : pend'[n] \subseteq Children(n)
        BY <1>15, <2>3 DEF Forward
    <2>5. got' \in [Edge -> Nat] /\ slot' \in [Edge -> Nat]
        BY <1>15, <2>1, <2>2 DEF Forward, Accept
    <2>6. sent' \in [Node -> Nat]
        BY <1>15 DEF Forward
    <2> QED
        BY <1>15, <2>4, <2>5, <2>6 DEF Forward
<1>16. ASSUME NEW e \in Edge, Merge(e[1], e[2]) PROVE TypeOK'
    BY <1>16 DEF Merge
<1>17. CASE UNCHANGED vars
    BY <1>17
<1> QED
    BY <1>1, <1>2, <1>3, <1>4, <1>5, <1>6, <1>7, <1>8, <1>9, <1>10, <1>11, <1>12,
       <1>13, <1>14, <1>15, <1>16, <1>17, StepCases DEF Next, Exited

-----------------------------------------------------------------------------
(***************************************************************************)
(* The barrier.                                                            *)
(***************************************************************************)

\* Apart from Run, Initialized and Synchronize, a step moves at most one
\* goroutine, one that is past Initialized, and only behind the open barrier.
Moves ==
    \/ pc' = pc
    \/ \E v \in Vertex : \E l \in PC \ {"off", "init", "barrier"} :
          released /\ pc[v] \notin {"off", "init"} /\ pc' = [pc EXCEPT ![v] = l]
    \/ \E l \in {"work", "send", "close", "exit", "done"} :
          released /\ pc[Stdin] # "off" /\ pc' = [pc EXCEPT ![Stdin] = l]

LEMMA PcStep ==
    ASSUME IInv, [Next]_vars
    PROVE  \/ \E v \in Vertex : Run(v) \/ Initialized(v)
           \/ Synchronize
           \/ wg' = wg /\ released' = released /\ (main' = "start" <=> main = "start") /\ Moves
<1> DEFINE P == wg' = wg /\ released' = released /\ (main' = "start" <=> main = "start") /\ Moves
<1> USE NodeFacts DEF Goto, flow, errs, ctl, vars
<1>0. /\ \A n \in Node : Started(n) => released
      /\ pc \in [Node -> PC]
      /\ StdinPlain
    BY DEF IInv, Gate, TypeOK
<1>1. ASSUME NEW v \in Vertex, ReceiveErr(v) PROVE P
    BY <1>1 DEF ReceiveErr, Moves
<1>2. CASE ErrCClosed \/ Interrupt \/ Cancel
    BY <1>2 DEF ErrCClosed, Interrupt, Cancel, Moves
<1>3. ASSUME NEW v \in Vertex \cup {Stdin}, NEW l \in PC \ {"off", "init", "barrier"},
             pc' = [pc EXCEPT ![v] = l], ctl' = ctl,
             pc[v] \in PC \ {"off", "init", "barrier"} \/ (pc[v] = "barrier" /\ released),
             v = Stdin => l \in {"work", "send", "close", "exit", "done"}
      PROVE P
    <2>1. released
        BY <1>0, <1>3 DEF Started
    <2>2. CASE v \in Vertex
        <3>1. pc[v] \notin {"off", "init"}
            BY <1>3
        <3> QED
            BY <1>3, <2>1, <2>2, <3>1 DEF Moves
    <2>3. CASE v = Stdin
        <3>1. pc[Stdin] # "off"
            BY <1>3, <2>3
        <3> QED
            BY <1>3, <2>1, <2>3, <3>1 DEF Moves
    <2> QED
        BY <2>2, <2>3
<1>4. ASSUME NEW v \in Vertex \cup {Stdin}, PassBarrier(v) PROVE P
    <2>1. v # Stdin
        BY <1>0, <1>4 DEF PassBarrier, StdinPlain
    <2>2. \E l \in {"recv", "work"} : pc' = [pc EXCEPT ![v] = l]
        BY <1>4 DEF PassBarrier
    <2> QED
        BY <1>3, <1>4, <2>1, <2>2 DEF PassBarrier, PC
<1>5. ASSUME NEW v \in Vertex \cup {Stdin}, RecvClosed(v) \/ SeeCancel(v)
      PROVE P
    BY <1>3, <1>5 DEF RecvClosed, SeeCancel, PC
<1>6. ASSUME NEW v \in Vertex \cup {Stdin}, RunnerEof(v) \/ Refuse(v) PROVE P
    BY <1>6 DEF RunnerEof, Refuse, Moves
<1>7. ASSUME NEW v \in Vertex \cup {Stdin}, Yield(v) PROVE P
    <2>1. CASE pc' = pc
        BY <1>7, <2>1 DEF Yield, Moves
    <2>2. CASE pc' = [pc EXCEPT ![v] = "send"]
        BY <1>3, <1>7, <2>2 DEF Yield, PC
    <2> QED
        BY <1>7, <2>1, <2>2 DEF Yield
<1>8. ASSUME NEW v \in Vertex \cup {Stdin}, YieldError(v) PROVE P
    BY <1>3, <1>8 DEF YieldError, PC
<1>9. ASSUME NEW v \in Vertex \cup {Stdin}, Return(v) PROVE P
    <2>1. v = Stdin => v \notin Worker \cup Consumer
        OBVIOUS
    <2> QED
        BY <1>3, <1>9, <2>1 DEF Return, MayReturn, PC
<1>10. ASSUME NEW v \in Vertex \cup {Stdin}, Fail(v) PROVE P
    BY <1>3, <1>10 DEF Fail, MayReturn, PC
<1>11. ASSUME NEW v \in Vertex \cup {Stdin}, Report(v) PROVE P
    <2>1. v # Stdin
        BY <1>0, <1>11 DEF Report, StdinPlain
    <2>2. \E l \in {"close", "work", "recv"} : pc' = [pc EXCEPT ![v] = l]
        BY <1>11 DEF Report, AfterReport
    <2> QED
        BY <1>3, <1>11, <2>1, <2>2 DEF Report, PC
<1>12. ASSUME NEW v \in Vertex \cup {Stdin}, SendOutput(v) PROVE P
    BY <1>3, <1>12 DEF SendOutput, PC
<1>13. ASSUME NEW v \in Vertex \cup {Stdin}, CloseOut(v) \/ Finish(v) PROVE P
    BY <1>3, <1>13 DEF CloseOut, Finish, PC
<1>14. ASSUME NEW v \in Vertex \cup {Stdin}, NEW p \in Preds[v], RecvData(p, v)
       PROVE P
    <2>1. v # Stdin
        BY <1>14 DEF RecvData
    <2> QED
        BY <1>3, <1>14, <2>1 DEF RecvData, PC
<1>15. ASSUME NEW v \in Vertex \cup {Stdin}, NEW p \in Preds[v], RunnerRecv(p, v)
       PROVE P
    BY <1>15 DEF RunnerRecv, Moves
<1>16. ASSUME NEW p \in Node, EndBroker(p) PROVE P
    BY <1>16 DEF EndBroker, Moves
<1>17. ASSUME NEW r \in Node, NEW p \in Preds[r], Forward(p, r) PROVE P
    BY <1>17 DEF Forward, Moves
<1>18. ASSUME NEW e \in Edge, Merge(e[1], e[2]) PROVE P
    BY <1>18 DEF Merge, Moves
<1>19. CASE UNCHANGED vars
    BY <1>19 DEF Moves
<1>20. ASSUME Initialized(Stdin) PROVE FALSE
    BY <1>0, <1>20 DEF Initialized, StdinPlain
<1> HIDE DEF P
<1> QED
    <2>1. CASE Step
        <3>1. ASSUME NEW v \in Vertex \cup {Stdin}, Initialized(v) PROVE v \in Vertex
            BY <1>20, <3>1
        <3> QED
            BY <2>1, <3>1, <1>1, <1>2, <1>4, <1>5, <1>6, <1>7, <1>8, <1>9, <1>10, <1>11,
               <1>12, <1>13, <1>14, <1>15, <1>16, <1>17, <1>18, StepCases DEF P
    <2>2. CASE UNCHANGED vars
        BY <1>19, <2>2 DEF P
    <2> QED
        BY <2>1, <2>2 DEF Next, Exited

LEMMA NextCounted ==
    ASSUME IInv, [Next]_vars
    PROVE  Counted'
<1>1. IsFiniteSet(Initializing) /\ Cardinality(Initializing) \in Nat
    BY GraphIsFinite, FS_Subset, FS_CardinalityType DEF Initializing
<1>2. wg = Cardinality(Initializing) /\ pc \in [Node -> PC] /\ Vertex \subseteq Node
    BY NodeFacts DEF IInv, Counted, TypeOK
<1>3. ASSUME NEW v \in Vertex, Run(v) PROVE Counted'
    <2>1. v \notin Initializing /\ Initializing' = Initializing \cup {v}
        BY <1>2, <1>3 DEF Run, Goto, Initializing
    <2>2. Cardinality(Initializing \cup {v}) = Cardinality(Initializing) + 1
        BY <1>1, <2>1, FS_AddElement
    <2> QED
        BY <1>2, <1>3, <2>1, <2>2 DEF Run, Counted
<1>4. ASSUME NEW v \in Vertex, Initialized(v) PROVE Counted'
    <2>1. v \in Initializing /\ Initializing' = Initializing \ {v}
        BY <1>2, <1>4 DEF Initialized, Goto, Initializing
    <2>2. Cardinality(Initializing \ {v}) = Cardinality(Initializing) - 1
        BY <1>1, <2>1, FS_RemoveElement
    <2> QED
        BY <1>2, <1>4, <2>1, <2>2 DEF Initialized, Counted
<1>5. CASE Synchronize
    <2>1. Initializing' = Initializing
        BY <1>2, <1>5, NodeFacts DEF Synchronize, Begin, Goto, Initializing
    <2> QED
        BY <1>2, <1>5, <2>1 DEF Synchronize, Begin, Counted
<1>6. CASE wg' = wg /\ Moves
    <2>1. Initializing' = Initializing
        BY <1>2, <1>6, NodeFacts DEF Moves, Initializing
    <2> QED
        BY <1>2, <1>6, <2>1 DEF Counted
<1> QED
    BY <1>3, <1>4, <1>5, <1>6, PcStep

LEMMA NextStdin ==
    ASSUME IInv, [Next]_vars
    PROVE  StdinPlain'
<1>1. StdinPlain /\ pc \in [Node -> PC]
    BY DEF IInv, TypeOK
<1>2. ASSUME NEW v \in Vertex, Run(v) \/ Initialized(v) PROVE StdinPlain'
    BY <1>1, <1>2, NodeFacts DEF Run, Initialized, Goto, StdinPlain
<1>3. CASE Synchronize
    BY <1>1, <1>3, NodeFacts DEF Synchronize, Begin, Goto, StdinPlain
<1>4. CASE Moves
    BY <1>1, <1>4, NodeFacts DEF Moves, StdinPlain
<1> QED
    BY <1>2, <1>3, <1>4, PcStep

-----------------------------------------------------------------------------
(***************************************************************************)
(* The streams.                                                            *)
(***************************************************************************)

\* A step that touches a stream hands a value over, moves one into a merge, or
\* takes one at the reader; a relay takes and hands over at once.
HandsOver(p) ==
    /\ pend[p] = {}
    /\ sent' = [sent EXCEPT ![p] = @ + 1]
    /\ pend' = [pend EXCEPT ![p] = Children(p)]
    /\ UNCHANGED <<slot, got>>

Takes(p, v) ==
    /\ Accept(p, v)
    /\ pend' = Settled(p, v)
    /\ UNCHANGED sent

LEMMA StreamStep ==
    ASSUME [Next]_vars
    PROVE  \/ UNCHANGED <<sent, pend, slot, got>>
           \/ \E n \in Vertex \cup {Stdin} : SendOutput(n) /\ HandsOver(n)
           \/ \E v \in Vertex \cup {Stdin} : \E p \in Preds[v] :
                 Takes(p, v) /\ (RecvData(p, v) \/ RunnerRecv(p, v))
           \/ \E r \in Node : \E p \in Preds[r] : Forward(p, r)
           \/ \E e \in Edge : Merge(e[1], e[2])
<1> DEFINE Same == UNCHANGED <<sent, pend, slot, got>>
<1> USE DEF flow, errs, ctl
<1>1. ASSUME NEW v \in Vertex, Run(v) \/ ReceiveErr(v) PROVE Same
    BY <1>1 DEF Run, ReceiveErr
<1>2. CASE Synchronize \/ ErrCClosed \/ Interrupt \/ Cancel
    BY <1>2 DEF Synchronize, Begin, ErrCClosed, Interrupt, Cancel
<1>3. ASSUME NEW v \in Vertex \cup {Stdin},
             \/ Initialized(v) \/ PassBarrier(v) \/ RecvClosed(v) \/ SeeCancel(v)
             \/ RunnerEof(v) \/ Yield(v) \/ Refuse(v) \/ YieldError(v)
             \/ Return(v) \/ Fail(v) \/ Report(v) \/ CloseOut(v) \/ Finish(v)
      PROVE Same
    BY <1>3 DEF Initialized, PassBarrier, RecvClosed, SeeCancel, RunnerEof, Yield, Refuse,
                YieldError, Return, Fail, Report, CloseOut, Finish
<1>4. ASSUME NEW v \in Vertex \cup {Stdin}, SendOutput(v) PROVE HandsOver(v)
    BY <1>4 DEF SendOutput, HandsOver
<1>5. ASSUME NEW v \in Vertex \cup {Stdin}, NEW p \in Preds[v],
             RecvData(p, v) \/ RunnerRecv(p, v)
      PROVE Takes(p, v)
    BY <1>5 DEF RecvData, RunnerRecv, Takes
<1>6. ASSUME NEW p \in Node, EndBroker(p) PROVE Same
    BY <1>6 DEF EndBroker
<1>7. CASE UNCHANGED vars
    BY <1>7 DEF vars
<1> HIDE DEF Same
<1>8. CASE Step
    BY <1>8, <1>1, <1>2, <1>3, <1>4, <1>5, <1>6, StepCases DEF Same
<1> QED
    BY <1>7, <1>8 DEF Next, Exited, Same

Accounted(e) ==
    /\ sent[e[1]] = got[e] + InFlight(e[1], e[2])
    /\ slot[e] # 0 => slot[e] = got[e] + 1
    /\ e[1] \in Direct => slot[e] = 0

LEMMA DeliveryIsAccounting == Delivery /\ DirectSlots <=> \A e \in Edge : Accounted(e)
BY DEF Delivery, DirectSlots, Accounted

\* The bookkeeping of a reader that takes a value.
LEMMA TakenFacts ==
    ASSUME IInv, NEW v \in Node, NEW p \in Preds[v], Accept(p, v)
    PROVE  /\ got' = [got EXCEPT ![<<p, v>>] = @ + 1]
           /\ <<p, v>> \in Edge
           /\ slot' = [slot EXCEPT ![<<p, v>>] = 0]
           /\ p \in Direct => v \in pend[p] /\ slot[<<p, v>>] = 0
           /\ p \notin Direct => slot[<<p, v>>] # 0
<1>1. Offered(p, v) # 0
    BY DEF Accept
<1>2. /\ Offered(p, v) = got[<<p, v>>] + 1
      /\ p \in Direct => v \in pend[p]
      /\ p \notin Direct => slot[<<p, v>>] = Offered(p, v)
    BY <1>1, OfferedFacts DEF IInv
<1>3. <<p, v>> \in Edge /\ <<p, v>>[1] = p
    BY EdgeFacts
<1>4. p \in Direct => slot[<<p, v>>] = 0
    BY <1>3 DEF IInv, DirectSlots
<1> QED
    BY <1>1, <1>2, <1>3, <1>4 DEF Accept

LEMMA NextDelivery ==
    ASSUME IInv, [Next]_vars
    PROVE  Delivery' /\ DirectSlots'
<1> SUFFICES ASSUME NEW e \in Edge PROVE Accounted(e)'
    <2>1. (\A f \in Edge : Accounted(f)') => Delivery' /\ DirectSlots'
        BY DEF Delivery, DirectSlots, Accounted
    <2> QED
        BY <2>1
<1> DEFINE q == e[1]
           w == e[2]
<1>1. /\ Accounted(e)
      /\ q \in Node /\ w \in Node /\ e = <<q, w>> /\ w \in Children(q)
    BY EdgeFacts, DeliveryIsAccounting DEF IInv
<1>2. /\ sent \in [Node -> Nat] /\ got \in [Edge -> Nat] /\ slot \in [Edge -> Nat]
      /\ pend \in [Node -> SUBSET Node]
    BY DEF IInv, TypeOK
<1>3. CASE UNCHANGED <<sent, pend, slot, got>>
    BY <1>1, <1>3 DEF Accounted, InFlight
<1>4. ASSUME NEW n \in Vertex \cup {Stdin}, HandsOver(n) PROVE Accounted(e)'
    <2>1. n \in Node
        BY NodeFacts
    <2>2. CASE n = q
        <3>1. w \notin pend[q] /\ w \in pend'[q] /\ sent'[q] = sent[q] + 1
            BY <1>1, <1>2, <1>4, <2>1, <2>2 DEF HandsOver
        <3>2. slot' = slot /\ got' = got
            BY <1>4 DEF HandsOver
        <3> QED
            BY <1>1, <1>2, <3>1, <3>2 DEF Accounted, InFlight
    <2>3. CASE n # q
        <3>1. pend'[q] = pend[q] /\ sent'[q] = sent[q]
            BY <1>1, <1>2, <1>4, <2>1, <2>3 DEF HandsOver
        <3>2. slot' = slot /\ got' = got
            BY <1>4 DEF HandsOver
        <3> QED
            BY <1>1, <1>2, <3>1, <3>2 DEF Accounted, InFlight
    <2> QED
        BY <2>2, <2>3
<1>5. ASSUME NEW v \in Node, NEW p \in Preds[v], Accept(p, v),
             NEW owed \in BOOLEAN, NEW len \in Nat,
             owed <=> w \in Settled(p, v)[q],
             len = got'[e] + (IF owed THEN 1 ELSE 0) + (IF slot'[e] # 0 THEN 1 ELSE 0)
      PROVE /\ len = sent[q]
            /\ slot'[e] # 0 => slot'[e] = got'[e] + 1
            /\ q \in Direct => slot'[e] = 0
    <2>1. /\ got' = [got EXCEPT ![<<p, v>>] = @ + 1]
          /\ <<p, v>> \in Edge
          /\ slot' = [slot EXCEPT ![<<p, v>>] = 0]
          /\ p \in Direct => v \in pend[p] /\ slot[<<p, v>>] = 0
          /\ p \notin Direct => slot[<<p, v>>] # 0
        BY <1>5, TakenFacts
    <2>2. p \in Node
        BY EdgeFacts
    <2>3. owed <=> IF q = p /\ p \in Direct THEN w \in pend[p] /\ w # v ELSE w \in pend[q]
        <3>1. Settled(p, v)[q] = IF q = p /\ p \in Direct THEN pend[p] \ {v} ELSE pend[q]
            BY <1>1, <1>2, <2>2 DEF Settled
        <3> QED
            BY <1>5, <3>1
    <2>4. CASE e = <<p, v>>
        <3>1. q = p /\ w = v
            BY <1>1, <2>4
        <3>2. got'[e] = got[e] + 1 /\ slot'[e] = 0
            BY <1>2, <2>1, <2>4
        <3>3. p \in Direct => ~owed /\ w \in pend[q] /\ slot[e] = 0
            BY <2>1, <2>3, <2>4, <3>1
        <3>4. p \notin Direct => slot[e] # 0 /\ (owed <=> w \in pend[q])
            BY <2>1, <2>3, <2>4, <3>1
        <3> QED
            BY <1>1, <1>2, <1>5, <3>1, <3>2, <3>3, <3>4 DEF Accounted, InFlight
    <2>5. CASE e # <<p, v>>
        <3>1. got'[e] = got[e] /\ slot'[e] = slot[e]
            BY <1>2, <2>1, <2>5
        <3>2. owed <=> w \in pend[q]
            BY <1>1, <2>3, <2>5
        <3> QED
            BY <1>1, <1>2, <1>5, <3>1, <3>2 DEF Accounted, InFlight
    <2> QED
        BY <2>4, <2>5
<1>6. ASSUME NEW v \in Vertex \cup {Stdin}, NEW p \in Preds[v], Takes(p, v)
      PROVE Accounted(e)'
    <2>1. v \in Node /\ Accept(p, v) /\ pend' = Settled(p, v) /\ sent' = sent
        BY <1>6, NodeFacts DEF Takes
    <2>2. got'[e] \in Nat
        <3>1. got' = [got EXCEPT ![<<p, v>>] = @ + 1]
            BY <2>1, TakenFacts
        <3> QED
            BY <1>2, <3>1
    <2> DEFINE owed == w \in pend'[q]
               len == got'[e] + (IF owed THEN 1 ELSE 0) + (IF slot'[e] # 0 THEN 1 ELSE 0)
    <2>3. len \in Nat /\ owed \in BOOLEAN
        BY <2>2
    <2>4. /\ len = sent[q]
          /\ slot'[e] # 0 => slot'[e] = got'[e] + 1
          /\ q \in Direct => slot'[e] = 0
        BY <1>5, <2>1, <2>3
    <2> QED
        BY <1>1, <2>1, <2>2, <2>4 DEF Accounted, InFlight
<1>7. ASSUME NEW r \in Node, NEW p \in Preds[r], Forward(p, r) PROVE Accounted(e)'
    <2>1. /\ Accept(p, r) /\ pend[r] = {} /\ p \in Node
          /\ sent' = [sent EXCEPT ![r] = @ + 1]
          /\ pend' = [Settled(p, r) EXCEPT ![r] = Children(r)]
        BY <1>7, EdgeFacts DEF Forward
    <2>2. /\ Settled(p, r) \in [Node -> SUBSET Node]
          /\ \A n \in Node : Settled(p, r)[n] \subseteq pend[n]
        BY <2>1, SettledFacts DEF IInv
    <2>3. got'[e] \in Nat
        <3>1. got' = [got EXCEPT ![<<p, r>>] = @ + 1]
            BY <2>1, TakenFacts
        <3> QED
            BY <1>2, <3>1
    <2> DEFINE owed == w \in Settled(p, r)[q]
               len == got'[e] + (IF owed THEN 1 ELSE 0) + (IF slot'[e] # 0 THEN 1 ELSE 0)
    <2>4. len \in Nat /\ owed \in BOOLEAN
        BY <2>3
    <2>5. /\ len = sent[q]
          /\ slot'[e] # 0 => slot'[e] = got'[e] + 1
          /\ q \in Direct => slot'[e] = 0
        BY <1>5, <2>1, <2>4
    <2>6. CASE q = r
        <3>1. ~owed /\ w \in pend'[q] /\ sent'[q] = sent[q] + 1
            BY <1>1, <1>2, <2>1, <2>2, <2>6
        <3> QED
            BY <1>1, <1>2, <2>3, <2>5, <3>1 DEF Accounted, InFlight
    <2>7. CASE q # r
        <3>1. (w \in pend'[q] <=> owed) /\ sent'[q] = sent[q]
            BY <1>1, <1>2, <2>1, <2>2, <2>7
        <3> QED
            BY <1>1, <1>2, <2>3, <2>5, <3>1 DEF Accounted, InFlight
    <2> QED
        BY <2>6, <2>7
<1>8. ASSUME NEW f \in Edge, Merge(f[1], f[2]) PROVE Accounted(e)'
    <2>1. f[1] \in Node /\ f = <<f[1], f[2]>>
        BY EdgeFacts
    <2>2. /\ f[1] \notin Direct /\ f[2] \in pend[f[1]] /\ slot[f] = 0
          /\ slot' = [slot EXCEPT ![f] = sent[f[1]]]
          /\ pend' = [pend EXCEPT ![f[1]] = @ \ {f[2]}]
          /\ sent' = sent /\ got' = got
        BY <1>8, <2>1 DEF Merge
    <2>3. CASE e = f
        <3>1. w \in pend[q] /\ w \notin pend'[q] /\ slot[e] = 0 /\ slot'[e] = sent[q]
            BY <1>1, <1>2, <2>2, <2>3
        <3>2. sent[q] = got[e] + 1
            BY <1>1, <1>2, <3>1 DEF Accounted, InFlight
        <3> QED
            BY <1>1, <1>2, <2>2, <2>3, <3>1, <3>2 DEF Accounted, InFlight
    <2>4. CASE e # f
        <3>1. slot'[e] = slot[e]
            BY <1>2, <2>2, <2>4
        <3>2. w \in pend'[q] <=> w \in pend[q]
            BY <1>1, <1>2, <2>1, <2>2, <2>4
        <3> QED
            BY <1>1, <1>2, <2>2, <3>1, <3>2 DEF Accounted, InFlight
    <2> QED
        BY <2>3, <2>4
<1> QED
    BY <1>3, <1>4, <1>6, <1>7, <1>8, StreamStep

-----------------------------------------------------------------------------
(***************************************************************************)
(* The barrier, continued: what is sent has been let through.              *)
(***************************************************************************)

LEMMA NextGate ==
    ASSUME IInv, [Next]_vars
    PROVE  Gate'
<1>1. /\ main = "start" => ~released
      /\ main # "start" => \A v \in Vertex : pc[v] \notin {"off", "init"}
      /\ \A n \in Node : Started(n) => released
      /\ \A n \in Node : sent[n] > 0 => released
    BY DEF IInv, Gate
<1>2. /\ pc \in [Node -> PC] /\ sent \in [Node -> Nat] /\ wg = Cardinality(Initializing)
      /\ Vertex \subseteq Node /\ Stdin \in Node /\ Stdin \notin Vertex
    BY NodeFacts DEF IInv, TypeOK, Counted
<1>3. released => released'
    <2>1. ASSUME NEW v \in Vertex, Run(v) \/ Initialized(v) PROVE released' = released
        BY <2>1 DEF Run, Initialized
    <2>2. CASE Synchronize
        BY <2>2 DEF Synchronize
    <2> QED
        BY <2>1, <2>2, PcStep
<1>4. ASSUME NEW n \in Node, sent'[n] > 0 PROVE released'
    <2>1. CASE UNCHANGED <<sent, pend, slot, got>>
        BY <1>1, <1>3, <1>4, <2>1
    <2>2. ASSUME NEW v \in Vertex \cup {Stdin}, SendOutput(v) PROVE released
        <3>1. Started(v)
            BY <2>2 DEF SendOutput, Started
        <3> QED
            BY <1>1, <1>2, <3>1
    <2>3. ASSUME sent' = sent PROVE released'
        BY <1>1, <1>3, <1>4, <2>3
    <2>4. ASSUME NEW r \in Node, NEW p \in Preds[r], Forward(p, r) PROVE released
        <3>1. Offered(p, r) # 0 /\ p \in Node
            BY <2>4, EdgeFacts DEF Forward, Accept
        <3>2. sent[p] > 0
            BY <3>1, OfferedFacts DEF IInv
        <3> QED
            BY <1>1, <3>1, <3>2
    <2> QED
        BY <1>3, <2>1, <2>2, <2>3, <2>4, StreamStep DEF Takes, Merge
<1>5. ASSUME NEW v \in Vertex, Run(v) \/ Initialized(v)
      PROVE /\ main' = "start" => ~released'
            /\ main' # "start" => \A u \in Vertex : pc'[u] \notin {"off", "init"}
            /\ \A m \in Node : Started(m)' => released'
    <2>1. main' = main /\ released' = released
        BY <1>5 DEF Run, Initialized
    <2>2. pc' = [pc EXCEPT ![v] = "init"] \/ pc' = [pc EXCEPT ![v] = "barrier"]
        BY <1>5 DEF Run, Initialized, Goto
    <2>3. main # "start" => pc' = [pc EXCEPT ![v] = "barrier"]
        BY <1>5 DEF Run, Initialized, Goto
    <2>4. \A m \in Node : Started(m)' => Started(m)
        BY <1>2, <2>2 DEF Started
    <2>5. main # "start" => \A u \in Vertex : pc'[u] \notin {"off", "init"}
        BY <1>1, <1>2, <2>3
    <2> QED
        BY <1>1, <2>1, <2>4, <2>5
<1>6. ASSUME Synchronize
      PROVE /\ main' = "start" => ~released'
            /\ main' # "start" => \A u \in Vertex : pc'[u] \notin {"off", "init"}
            /\ \A m \in Node : Started(m)' => released'
    <2>1. wg = 0 /\ released' = TRUE /\ main' = "select" /\ pc' = [pc EXCEPT ![Stdin] = "work"]
        BY <1>6 DEF Synchronize, Begin, Goto
    <2>2. Initializing = {}
        <3>1. IsFiniteSet(Initializing)
            BY GraphIsFinite, FS_Subset DEF Initializing
        <3> QED
            BY <1>2, <2>1, <3>1, FS_EmptySet
    <2>3. \A u \in Vertex : pc[u] \notin {"off", "init"}
        BY <1>6, <2>2 DEF Synchronize, Initializing
    <2> QED
        BY <1>2, <2>1, <2>3
<1>7. ASSUME released' = released, main' = "start" <=> main = "start", Moves
      PROVE /\ main' = "start" => ~released'
            /\ main' # "start" => \A u \in Vertex : pc'[u] \notin {"off", "init"}
            /\ \A m \in Node : Started(m)' => released'
    <2>1. \A u \in Vertex : pc[u] \notin {"off", "init"} => pc'[u] \notin {"off", "init"}
        BY <1>2, <1>7 DEF Moves
    <2>2. \A m \in Node : Started(m)' => Started(m) \/ released
        BY <1>2, <1>7 DEF Moves, Started
    <2> QED
        BY <1>1, <1>7, <2>1, <2>2
<1> QED
    BY <1>4, <1>5, <1>6, <1>7, PcStep DEF Gate

-----------------------------------------------------------------------------
LEMMA InitInv == Init => IInv
<1> SUFFICES ASSUME Init PROVE IInv
    OBVIOUS
<1>1. TypeOK
    BY InitType
<1>2. Counted
    <2>1. Initializing = {}
        BY NodeFacts DEF Init, Initializing
    <2> QED
        BY <2>1, FS_EmptySet DEF Init, Counted
<1>3. StdinPlain
    BY NodeFacts DEF Init, StdinPlain
<1>4. DirectSlots
    BY DEF Init, DirectSlots
<1>5. Delivery
    <2> SUFFICES ASSUME NEW e \in Edge
                 PROVE  sent[e[1]] = got[e] + InFlight(e[1], e[2]) /\ slot[e] = 0
        BY DEF Delivery
    <2>1. sent[e[1]] = 0 /\ got[e] = 0 /\ slot[e] = 0 /\ pend[e[1]] = {}
        BY EdgeFacts DEF Init
    <2>2. InFlight(e[1], e[2]) = 0
        BY <2>1, EdgeFacts DEF InFlight
    <2> QED
        BY <2>1, <2>2
<1>6. Gate
    BY DEF Init, Gate, Started
<1> QED
    BY <1>1, <1>2, <1>3, <1>4, <1>5, <1>6 DEF IInv

\* The invariant the theorems below rest on.
THEOREM Invariance == Spec => []IInv
<1>1. IInv /\ [Next]_vars => IInv'
    BY NextType, NextCounted, NextStdin, NextDelivery, NextGate DEF IInv
<1> QED
    BY InitInv, <1>1, PTL DEF Spec

\* Every variable keeps its type; in particular the wait group's counter never
\* goes negative, whatever the order in which vertices start (context.go).
THEOREM TypeCorrect == Spec => []TypeOK
<1>1. IInv => TypeOK
    BY DEF IInv
<1> QED
    BY Invariance, <1>1, PTL

\* The start barrier holds: no goroutine of a stage gets past Initialized and
\* no value is sent while another vertex has not called Initialized.
THEOREM BarrierCorrect == Spec => []BarrierHolds
<1>1. IInv => BarrierHolds
    BY DEF IInv, Gate, BarrierHolds
<1> QED
    BY Invariance, <1>1, PTL

\* No value is lost or duplicated between a stage and any of its readers.
THEOREM DeliveryCorrect == Spec => []Delivery
<1>1. IInv => Delivery
    BY DEF IInv
<1> QED
    BY Invariance, <1>1, PTL

\* Back-pressure: readers of the same stage are at most two values apart.
THEOREM SiblingsCorrect == Spec => []SiblingsInStep
<1>1. ASSUME IInv PROVE SiblingsInStep
    <2> SUFFICES ASSUME NEW e \in Edge, NEW f \in Edge, e[1] = f[1]
                 PROVE  got[e] <= got[f] + 2
        BY DEF SiblingsInStep
    <2>1. sent[e[1]] \in Nat /\ got[e] \in Nat /\ got[f] \in Nat
        BY <1>1, EdgeFacts DEF IInv, TypeOK
    <2>2. /\ sent[e[1]] = got[e] + InFlight(e[1], e[2])
          /\ sent[f[1]] = got[f] + InFlight(f[1], f[2])
        BY <1>1 DEF IInv, Delivery
    <2>3. InFlight(e[1], e[2]) \in 0..2 /\ InFlight(f[1], f[2]) \in 0..2
        BY DEF InFlight
    <2> QED
        BY <2>1, <2>2, <2>3
<1> QED
    BY Invariance, <1>1, PTL

\* Each reader takes each parent's values one after the other, none skipped.
THEOREM OrderCorrect == Spec => InOrder
<1> DEFINE Ordered == \A e \in Edge : got'[e] \in {got[e], got[e] + 1}
<1>1. ASSUME IInv, [Next]_vars PROVE Ordered
    <2>1. got \in [Edge -> Nat]
        BY <1>1 DEF IInv, TypeOK
    <2>2. CASE got' = got
        BY <2>2
    <2>3. ASSUME NEW v \in Node, NEW p \in Preds[v], Accept(p, v) PROVE Ordered
        <3>1. got' = [got EXCEPT ![<<p, v>>] = @ + 1]
            BY <1>1, <2>3, TakenFacts
        <3> QED
            BY <2>1, <3>1
    <2> HIDE DEF Ordered
    <2> QED
        BY <1>1, <2>2, <2>3, StreamStep, NodeFacts DEF HandsOver, Takes, Forward, Merge
<1>2. IInv /\ [Next]_vars => [Ordered]_vars
    BY <1>1
<1> QED
    BY Invariance, <1>2, PTL DEF Spec, InOrder

-----------------------------------------------------------------------------
(***************************************************************************)
(* The errors.                                                             *)
(***************************************************************************)

\* A vertex that is about to put an error on its channel has counted it; one
\* that is not, and holds none, has no error of its own under way.
LEMMA NextErrors ==
    ASSUME IInv, ErrorsConserved, [Next]_vars
    PROVE  ErrorsConserved'
<1> SUFFICES ASSUME NEW v \in Vertex
             PROVE  raised'[v] = seen'[v] + (IF v \in held' THEN 1 ELSE 0)
                                          + (IF pc'[v] \in {"err", "fail"} THEN 1 ELSE 0)
    BY DEF ErrorsConserved
<1> DEFINE Goal == raised'[v] = seen'[v] + (IF v \in held' THEN 1 ELSE 0)
                                          + (IF pc'[v] \in {"err", "fail"} THEN 1 ELSE 0)
<1> USE NodeFacts DEF Goto, flow, errs, ctl, vars
<1>1. /\ raised[v] = seen[v] + (IF v \in held THEN 1 ELSE 0)
                             + (IF pc[v] \in {"err", "fail"} THEN 1 ELSE 0)
      /\ raised \in [Vertex -> Nat] /\ seen \in [Vertex -> Nat] /\ pc \in [Node -> PC]
    BY DEF IInv, TypeOK, ErrorsConserved
<1>2. ASSUME errs' = errs, pc'[v] \in {"err", "fail"} <=> pc[v] \in {"err", "fail"}
      PROVE Goal
    BY <1>1, <1>2
<1>3. ASSUME NEW n \in Node, NEW l \in PC \ {"err", "fail"}, pc' = [pc EXCEPT ![n] = l],
             errs' = errs, pc[n] \notin {"err", "fail"}
      PROVE Goal
    <2>1. pc'[v] = IF n = v THEN l ELSE pc[v]
        BY <1>1, <1>3
    <2> QED
        BY <1>2, <1>3, <2>1
<1>4. ASSUME NEW u \in Vertex, Run(u) \/ Initialized(u) PROVE Goal
    BY <1>3, <1>4 DEF Run, Initialized, PC
<1>5. ASSUME NEW u \in Vertex, ReceiveErr(u) PROVE Goal
    <2>1. CASE u = v
        <3>1. v \in held /\ v \notin held' /\ seen'[v] = seen[v] + 1
            BY <1>1, <1>5, <2>1 DEF ReceiveErr
        <3> QED
            BY <1>1, <1>5, <3>1 DEF ReceiveErr
    <2>2. CASE u # v
        <3>1. (v \in held' <=> v \in held) /\ seen'[v] = seen[v]
            BY <1>1, <1>5, <2>2 DEF ReceiveErr
        <3> QED
            BY <1>1, <1>5, <3>1 DEF ReceiveErr
    <2> QED
        BY <2>1, <2>2
<1>6. ASSUME Synchronize PROVE Goal
    <2>1. pc'[v] = pc[v] /\ errs' = errs
        BY <1>1, <1>6 DEF Synchronize, Begin
    <2> QED
        BY <1>2, <2>1
<1>7. ASSUME ErrCClosed \/ Interrupt \/ Cancel \/ UNCHANGED vars PROVE Goal
    BY <1>1, <1>7 DEF ErrCClosed, Interrupt, Cancel
<1>8. ASSUME NEW u \in Vertex \cup {Stdin},
             \/ Initialized(u) \/ PassBarrier(u) \/ RecvClosed(u) \/ SeeCancel(u)
             \/ SendOutput(u) \/ CloseOut(u) \/ Finish(u)
      PROVE Goal
    <2>1. \E l \in PC \ {"err", "fail"} : pc' = [pc EXCEPT ![u] = l]
        BY <1>8 DEF Initialized, PassBarrier, RecvClosed, SeeCancel, SendOutput, CloseOut, Finish, PC
    <2>2. errs' = errs /\ pc[u] \notin {"err", "fail"}
        BY <1>8 DEF Initialized, PassBarrier, RecvClosed, SeeCancel, SendOutput, CloseOut, Finish
    <2> QED
        BY <1>3, <2>1, <2>2
<1>9. ASSUME NEW u \in Vertex \cup {Stdin}, RunnerEof(u) \/ Refuse(u) PROVE Goal
    BY <1>2, <1>9 DEF RunnerEof, Refuse
<1>10. ASSUME NEW u \in Vertex \cup {Stdin}, Yield(u) PROVE Goal
    <2>1. errs' = errs /\ pc[u] \notin {"err", "fail"} /\ "send" \in PC \ {"err", "fail"}
        BY <1>10 DEF Yield, PC
    <2>2. pc' = pc \/ pc' = [pc EXCEPT ![u] = "send"]
        BY <1>10 DEF Yield
    <2> QED
        BY <1>2, <1>3, <2>1, <2>2
<1>11. ASSUME NEW u \in Vertex \cup {Stdin}, Return(u) PROVE Goal
    <2>1. errs' = errs /\ pc[u] \notin {"err", "fail"}
        BY <1>11 DEF Return, MayReturn
    <2>2. pc' = [pc EXCEPT ![u] = "recv"] \/ pc' = [pc EXCEPT ![u] = "close"]
        BY <1>11 DEF Return
    <2>3. "recv" \in PC \ {"err", "fail"} /\ "close" \in PC \ {"err", "fail"}
        BY DEF PC
    <2> QED
        BY <1>3, <2>1, <2>2, <2>3
<1>12. ASSUME NEW u \in Vertex \cup {Stdin}, YieldError(u) \/ Fail(u) PROVE Goal
    <2>1. /\ u \in Vertex /\ pc[u] = "work" /\ held' = held /\ seen' = seen
          /\ raised' = [raised EXCEPT ![u] = @ + 1]
          /\ \E l \in {"err", "fail"} : pc' = [pc EXCEPT ![u] = l]
        BY <1>12 DEF YieldError, Fail, MayReturn, Raise
    <2>2. CASE u = v
        <3>1. raised'[v] = raised[v] + 1 /\ pc'[v] \in {"err", "fail"} /\ pc[v] = "work"
            BY <1>1, <2>1, <2>2
        <3> QED
            BY <1>1, <2>1, <3>1
    <2>3. CASE u # v
        <3>1. raised'[v] = raised[v] /\ pc'[v] = pc[v]
            BY <1>1, <2>1, <2>3
        <3> QED
            BY <1>1, <2>1, <3>1
    <2> QED
        BY <2>2, <2>3
<1>13. ASSUME NEW u \in Vertex \cup {Stdin}, Report(u) PROVE Goal
    <2>1. /\ pc[u] \in {"err", "fail"} /\ u \notin held /\ held' = held \cup {u}
          /\ raised' = raised /\ seen' = seen
          /\ \E l \in {"close", "work", "recv"} : pc' = [pc EXCEPT ![u] = l]
        BY <1>13 DEF Report, AfterReport
    <2>2. CASE u = v
        <3>1. v \notin held /\ v \in held' /\ pc'[v] \notin {"err", "fail"} /\ pc[v] \in {"err", "fail"}
            BY <1>1, <2>1, <2>2
        <3> QED
            BY <1>1, <2>1, <3>1
    <2>3. CASE u # v
        <3>1. (v \in held' <=> v \in held) /\ pc'[v] = pc[v]
            BY <1>1, <2>1, <2>3
        <3> QED
            BY <1>1, <2>1, <3>1
    <2> QED
        BY <2>2, <2>3
<1>14. ASSUME NEW u \in Vertex \cup {Stdin}, NEW p \in Preds[u],
              RecvData(p, u) \/ RunnerRecv(p, u)
       PROVE Goal
    <2>1. CASE RecvData(p, u)
        BY <1>3, <2>1 DEF RecvData, PC
    <2>2. CASE RunnerRecv(p, u)
        BY <1>2, <2>2 DEF RunnerRecv
    <2> QED
        BY <1>14, <2>1, <2>2
<1>15. ASSUME NEW p \in Node, EndBroker(p) PROVE Goal
    BY <1>2, <1>15 DEF EndBroker
<1>16. ASSUME NEW r \in Node, NEW p \in Preds[r], Forward(p, r) PROVE Goal
    BY <1>2, <1>16 DEF Forward
<1>17. ASSUME NEW e \in Edge, Merge(e[1], e[2]) PROVE Goal
    BY <1>2, <1>17 DEF Merge
<1> HIDE DEF Goal
<1>18. ASSUME Step PROVE Goal
    BY <1>18, <1>4, <1>5, <1>6, <1>7, <1>8, <1>9, <1>10, <1>11, <1>12, <1>13, <1>14,
       <1>15, <1>16, <1>17, StepCases
<1>19. Goal
    BY <1>7, <1>18 DEF Next, Exited
<1> QED
    BY <1>19 DEF Goal

\* Every error a stage raised is at RunTemplate, in the error merge, or still
\* being put on the stage's channel: none is dropped or counted twice.
THEOREM ErrorsCorrect == Spec => []ErrorsConserved
<1>1. Init => ErrorsConserved
    BY NodeFacts DEF Init, ErrorsConserved
<1>2. IInv /\ ErrorsConserved /\ [Next]_vars => ErrorsConserved'
    BY NextErrors
<1> QED
    BY Invariance, <1>1, <1>2, PTL DEF Spec

-----------------------------------------------------------------------------
(***************************************************************************)
(* The end of the streams, and of the run: a stage closes its output       *)
(* behind everything its parents yielded, and RunTemplate returns when     *)
(* nothing is left under way.                                              *)
(***************************************************************************)

(***************************************************************************)
(* The invariant.                                                          *)
(***************************************************************************)

\* An ended broker owes nothing and has nothing to come.
Quiet ==
    \A p \in ended : /\ p \in Node
                     /\ pend[p] = {}
                     /\ IF p \in Relay THEN InputClosed(p) ELSE p \in closed

\* Whoever closed its output sends no more: its goroutine is about to end, or
\* it is a consumer, which never sends.
Silenced ==
    \A v \in closed : /\ v \in Vertex \cup {Stdin}
                      /\ v \in Consumer \/ pc[v] \in {"exit", "done"}

Mute == \A v \in Consumer : todo[v] = 0 /\ pc[v] # "send"

\* A runner that saw the end of its input, and a stage that is about to end by
\* itself, have it behind them.
Drained == \A v \in eof : InputClosed(v)

Ending == {"fail", "close", "exit", "done"}
Patient == Worker \cup Consumer \cup (Runner \ EarlyExit)

Finished ==
    \A v \in Patient : pc[v] \in Ending /\ ~cancelled => InputClosed(v)

\* RunTemplate returned by itself, and the process is gone.
Left == main = "ok" => held = {} /\ \A v \in Vertex : pc[v] = "done"

Ends == Quiet /\ Silenced /\ Mute /\ Drained /\ Finished /\ Left

-----------------------------------------------------------------------------
\* What a step does to the control of one vertex u.
Local(u) ==
    /\ pc[u] \in {"exit", "done"} => pc'[u] \in {"exit", "done"}
    /\ u \in closed' => u \in closed \/ u \in Consumer \/ pc'[u] = "exit"
    /\ u \in Consumer /\ todo[u] = 0 /\ pc[u] # "send" => todo'[u] = 0 /\ pc'[u] # "send"
    /\ pc'[u] \in Ending =>
          \/ pc[u] \in Ending
          \/ InputClosed(u)
          \/ cancelled
          \/ u \notin Worker \cup Consumer /\ MayReturn(u)
    /\ u \in eof' => u \in eof \/ InputClosed(u)

LEMMA LocalStep ==
    ASSUME IInv, Step, NEW u \in Vertex \cup {Stdin}
    PROVE  Local(u)
<1> USE NodeFacts DEF Goto, flow, errs, ctl, Local, Ending
<1>0. /\ pc \in [Node -> PC] /\ todo \in [Node -> Nat] /\ u \in Node
      /\ StdinPlain
    BY DEF IInv, TypeOK
<1>1. ASSUME NEW v \in Vertex, Run(v) PROVE Local(u)
    BY <1>0, <1>1 DEF Run, Close
<1>2. ASSUME NEW v \in Vertex, ReceiveErr(v) PROVE Local(u)
    BY <1>2 DEF ReceiveErr
<1>3. CASE Synchronize
    <2>1. /\ pc' = [pc EXCEPT ![Stdin] = "work"] /\ closed' = closed /\ eof' = eof
          /\ \E k \in {0, 1} : todo' = [todo EXCEPT ![Stdin] = k]
        BY <1>3 DEF Synchronize, Begin
    <2>2. pc[Stdin] \notin {"exit", "done"}
        BY <1>3 DEF Synchronize, IInv, Gate, Started
    <2> QED
        BY <1>0, <2>1, <2>2
<1>4. CASE ErrCClosed \/ Interrupt \/ Cancel
    BY <1>4 DEF ErrCClosed, Interrupt, Cancel
<1>5. ASSUME NEW v \in Vertex \cup {Stdin}, Initialized(v) PROVE Local(u)
    BY <1>0, <1>5 DEF Initialized
<1>6. ASSUME NEW v \in Vertex \cup {Stdin}, PassBarrier(v) PROVE Local(u)
    BY <1>0, <1>6 DEF PassBarrier
<1>7. ASSUME NEW v \in Vertex \cup {Stdin}, RecvClosed(v) \/ SeeCancel(v) PROVE Local(u)
    BY <1>0, <1>7 DEF RecvClosed, SeeCancel
<1>8. ASSUME NEW v \in Vertex \cup {Stdin}, RunnerEof(v) PROVE Local(u)
    BY <1>0, <1>8 DEF RunnerEof
<1>9. ASSUME NEW v \in Vertex \cup {Stdin}, Yield(v) \/ Refuse(v) \/ YieldError(v)
      PROVE Local(u)
    BY <1>0, <1>9 DEF Yield, Refuse, YieldError
<1>10. ASSUME NEW v \in Vertex \cup {Stdin}, SendOutput(v) PROVE Local(u)
    BY <1>0, <1>10 DEF SendOutput
<1>11. ASSUME NEW v \in Vertex \cup {Stdin}, Return(v) \/ Fail(v) PROVE Local(u)
    <2>1. /\ MayReturn(v) /\ pc[v] = "work"
          /\ todo' = todo /\ closed' = closed /\ eof' = eof
          /\ \/ v \in Worker \cup Consumer
                /\ \E l \in {"recv", "err"} : pc' = [pc EXCEPT ![v] = l]
             \/ v \notin Worker \cup Consumer
                /\ \E l \in {"close", "fail"} : pc' = [pc EXCEPT ![v] = l]
        BY <1>11 DEF Return, Fail, MayReturn
    <2> QED
        BY <1>0, <2>1
<1>12. ASSUME NEW v \in Vertex \cup {Stdin}, Report(v) PROVE Local(u)
    <2>1. /\ todo' = todo /\ closed' = closed /\ eof' = eof
          /\ \/ pc[v] = "fail" /\ pc' = [pc EXCEPT ![v] = "close"]
             \/ pc[v] = "err" /\ \E l \in {"work", "recv"} : pc' = [pc EXCEPT ![v] = l]
        BY <1>12 DEF Report, AfterReport
    <2> QED
        BY <1>0, <2>1
<1>13. ASSUME NEW v \in Vertex \cup {Stdin}, CloseOut(v) PROVE Local(u)
    BY <1>0, <1>13 DEF CloseOut, Close
<1>14. ASSUME NEW v \in Vertex \cup {Stdin}, Finish(v) PROVE Local(u)
    BY <1>0, <1>14 DEF Finish
<1>15. ASSUME NEW v \in Vertex \cup {Stdin}, NEW p \in Preds[v], RecvData(p, v)
       PROVE Local(u)
    <2>1. /\ closed' = closed /\ eof' = eof /\ pc[v] = "recv"
          /\ pc' = [pc EXCEPT ![v] = "work"]
          /\ v \in Worker \cup Consumer
          /\ \E k \in 0..(IF v \in Worker THEN MaxYield[v] ELSE 0) :
                todo' = [todo EXCEPT ![v] = k]
        BY <1>15 DEF RecvData
    <2>2. v \in Consumer => v \notin Worker
        BY KindsAreDisjoint
    <2> QED
        BY <1>0, <2>1, <2>2
<1>16. ASSUME NEW v \in Vertex \cup {Stdin}, NEW p \in Preds[v], RunnerRecv(p, v)
       PROVE Local(u)
    <2>1. v \notin Consumer
        BY <1>16, KindsAreDisjoint DEF RunnerRecv
    <2> QED
        BY <1>0, <1>16, <2>1 DEF RunnerRecv
<1>17. ASSUME NEW p \in Node, EndBroker(p) PROVE Local(u)
    BY <1>17 DEF EndBroker
<1>18. ASSUME NEW r \in Node, NEW p \in Preds[r], Forward(p, r) PROVE Local(u)
    BY <1>18 DEF Forward
<1>19. ASSUME NEW e \in Edge, Merge(e[1], e[2]) PROVE Local(u)
    BY <1>19 DEF Merge
<1> HIDE DEF Local
<1> QED
    BY <1>1, <1>2, <1>3, <1>4, <1>5, <1>6, <1>7, <1>8, <1>9, <1>10, <1>11, <1>12, <1>13,
       <1>14, <1>15, <1>16, <1>17, <1>18, <1>19, StepCases
-----------------------------------------------------------------------------
\* What a step does to the rest.
LEMMA GlobalStep ==
    ASSUME Step
    PROVE  /\ ended' = ended \/ \E p \in Node : EndBroker(p)
           /\ cancelled => cancelled'
           /\ closed \subseteq closed'
           /\ closed' \subseteq closed \cup Vertex \cup {Stdin}
           /\ main' = "ok" => main = "ok" \/ ErrCClosed
<1> DEFINE P == /\ ended' = ended \/ \E p \in Node : EndBroker(p)
                /\ cancelled => cancelled'
                /\ closed \subseteq closed'
                /\ closed' \subseteq closed \cup Vertex \cup {Stdin}
                /\ main' = "ok" => main = "ok" \/ ErrCClosed
<1> USE DEF flow, errs, ctl
<1>1. ASSUME NEW v \in Vertex, Run(v) \/ ReceiveErr(v) PROVE P
    BY <1>1 DEF Run, ReceiveErr, Close
<1>2. CASE Synchronize \/ ErrCClosed \/ Interrupt \/ Cancel
    BY <1>2 DEF Synchronize, Begin, ErrCClosed, Interrupt, Cancel
<1>3. ASSUME NEW v \in Vertex \cup {Stdin},
             \/ Initialized(v) \/ PassBarrier(v) \/ RecvClosed(v) \/ SeeCancel(v)
             \/ RunnerEof(v) \/ Yield(v) \/ Refuse(v) \/ YieldError(v) \/ SendOutput(v)
             \/ Return(v) \/ Fail(v) \/ Report(v) \/ CloseOut(v) \/ Finish(v)
      PROVE P
    BY <1>3 DEF Initialized, PassBarrier, RecvClosed, SeeCancel, RunnerEof, Yield, Refuse,
                YieldError, SendOutput, Return, Fail, Report, CloseOut, Close, Finish
<1>4. ASSUME NEW v \in Vertex \cup {Stdin}, NEW p \in Preds[v],
             RecvData(p, v) \/ RunnerRecv(p, v)
      PROVE P
    BY <1>4 DEF RecvData, RunnerRecv
<1>5. ASSUME NEW p \in Node, EndBroker(p) PROVE P
    BY <1>5 DEF EndBroker
<1>6. ASSUME NEW r \in Node, NEW p \in Preds[r], Forward(p, r) PROVE P
    BY <1>6 DEF Forward
<1>7. ASSUME NEW e \in Edge, Merge(e[1], e[2]) PROVE P
    BY <1>7 DEF Merge
<1> HIDE DEF P
<1> QED
    BY <1>1, <1>2, <1>3, <1>4, <1>5, <1>6, <1>7, StepCases DEF P

\* A relay whose input is closed has nothing to take.
LEMMA NothingOffered ==
    ASSUME IInv, Quiet, NEW v \in Node, NEW p \in Preds[v], InputClosed(v)
    PROVE  Offered(p, v) = 0
<1>1. p \in ended /\ pend[p] = {} /\ (p \notin Direct => slot[<<p, v>>] = 0)
    BY DEF InputClosed, Quiet
<1> QED
    BY <1>1 DEF Offered

\* Nothing is handed to a broker that has ended.
LEMMA PendStaysEmpty ==
    ASSUME IInv, Ends, ~Returned, Step, NEW q \in ended
    PROVE  pend'[q] = {}
<1>1. /\ q \in Node /\ pend[q] = {}
      /\ q \in Relay => InputClosed(q)
      /\ q \notin Relay => q \in closed
    BY DEF Ends, Quiet
<1>2. pend \in [Node -> SUBSET Node]
    BY DEF IInv, TypeOK
<1>3. CASE UNCHANGED <<sent, pend, slot, got>>
    BY <1>1, <1>3
<1>4. ASSUME NEW n \in Vertex \cup {Stdin}, SendOutput(n), HandsOver(n) PROVE pend'[q] = {}
    <2>1. n \notin closed
        BY <1>4 DEF SendOutput, Ends, Silenced, Mute
    <2>2. n # q
        BY <1>1, <2>1, NodeFacts
    <2> QED
        BY <1>1, <1>2, <1>4, <2>2 DEF HandsOver
<1>5. ASSUME NEW v \in Node, NEW p \in Preds[v] PROVE Settled(p, v)[q] = {}
    <2>1. p \in Node
        BY EdgeFacts
    <2> QED
        BY <1>1, <2>1, SettledFacts DEF IInv
<1>6. ASSUME NEW r \in Node, NEW p \in Preds[r], Forward(p, r) PROVE pend'[q] = {}
    <2>1. r # q
        BY <1>1, <1>6, NothingOffered DEF Forward, Accept, Ends
    <2>2. Settled(p, r)[q] = {} /\ Settled(p, r) \in [Node -> SUBSET Node]
        BY <1>5, EdgeFacts, SettledFacts DEF IInv
    <2> QED
        BY <1>1, <1>6, <2>1, <2>2 DEF Forward
<1>7. ASSUME NEW e \in Edge, Merge(e[1], e[2]) PROVE pend'[q] = {}
    BY <1>1, <1>2, <1>7, EdgeFacts DEF Merge
<1>8. [Next]_vars
    BY DEF Next
<1> QED
    BY <1>3, <1>4, <1>5, <1>6, <1>7, <1>8, StreamStep, NodeFacts DEF Takes

\* Once closed, an input stays closed.
LEMMA InputStaysClosed ==
    ASSUME IInv, Ends, ~Returned, Step, NEW v \in Node, InputClosed(v)
    PROVE  InputClosed(v)'
<1> SUFFICES ASSUME NEW p \in Preds[v]
             PROVE  p \in ended' /\ (p \notin Direct => slot'[<<p, v>>] = 0)
    BY DEF InputClosed
<1> DEFINE e == <<p, v>>
<1>1. /\ p \in ended /\ pend[p] = {} /\ e \in Edge /\ e[1] = p /\ e[2] = v
      /\ p \notin Direct => slot[e] = 0
    BY EdgeFacts DEF InputClosed, Ends, Quiet
<1>2. p \in ended'
    BY <1>1, GlobalStep DEF EndBroker
<1>3. slot \in [Edge -> Nat]
    BY DEF IInv, TypeOK
<1>4. slot'[e] \in {0, slot[e]}
    <2>1. CASE slot' = slot
        BY <2>1
    <2>2. ASSUME NEW w \in Node, NEW q \in Preds[w], Accept(q, w)
          PROVE slot'[e] \in {0, slot[e]}
        BY <1>1, <1>3, <2>2 DEF Accept
    <2>3. ASSUME NEW f \in Edge, Merge(f[1], f[2]) PROVE slot'[e] \in {0, slot[e]}
        <3>1. f # e /\ f = <<f[1], f[2]>>
            BY <1>1, <2>3, EdgeFacts DEF Merge
        <3> QED
            BY <1>1, <1>3, <2>3, <3>1 DEF Merge
    <2>4. [Next]_vars
        BY DEF Next
    <2> QED
        BY <2>1, <2>2, <2>3, <2>4, StreamStep, NodeFacts DEF HandsOver, Takes, Forward
<1> QED
    BY <1>1, <1>2, <1>4
-----------------------------------------------------------------------------
LEMMA InitEnds == Init => Ends
BY DEF Init, Ends, Quiet, Silenced, Mute, Drained, Finished, Left, Ending, Patient, Vertex, Node

LEMMA NextEnds ==
    ASSUME IInv, Ends, [Next]_vars
    PROVE  Ends'
<1>1. CASE UNCHANGED vars
    BY <1>1 DEF vars, ctl, flow, errs, Ends, Quiet, Silenced, Mute, Drained, Finished, Left,
                InputClosed
<1>2. CASE ~Returned /\ Step
    <2>1. ASSUME NEW v \in Node, InputClosed(v) PROVE InputClosed(v)'
        BY <1>2, <2>1, InputStaysClosed
    <2>2. ASSUME NEW u \in Vertex \cup {Stdin} PROVE Local(u)
        BY <1>2, LocalStep
    <2>3. Quiet'
        <3> SUFFICES ASSUME NEW p \in ended'
                     PROVE  /\ p \in Node /\ pend'[p] = {}
                            /\ IF p \in Relay THEN InputClosed(p)' ELSE p \in closed'
            BY DEF Quiet
        <3>1. CASE p \in ended
            <4>1. pend'[p] = {}
                BY <1>2, <3>1, PendStaysEmpty
            <4> QED
                BY <1>2, <2>1, <3>1, <4>1, GlobalStep DEF Ends, Quiet
        <3>2. CASE p \notin ended
            <4>1. p \in Node /\ EndBroker(p)
                BY <1>2, <3>2, GlobalStep DEF EndBroker
            <4>2. pend'[p] = {} /\ closed' = closed
                BY <4>1 DEF EndBroker
            <4>3. IF p \in Relay THEN InputClosed(p) ELSE p \in closed
                BY <4>1 DEF EndBroker
            <4> QED
                BY <2>1, <4>1, <4>2, <4>3
        <3> QED
            BY <3>1, <3>2
    <2>4. Silenced'
        <3> SUFFICES ASSUME NEW v \in closed'
                     PROVE  /\ v \in Vertex \cup {Stdin}
                            /\ v \in Consumer \/ pc'[v] \in {"exit", "done"}
            BY DEF Silenced
        <3>1. v \in Vertex \cup {Stdin}
            BY <1>2, GlobalStep DEF Ends, Silenced
        <3> QED
            BY <2>2, <3>1 DEF Local, Ends, Silenced
    <2>5. Mute'
        BY <2>2, NodeFacts DEF Local, Ends, Mute
    <2>6. Drained'
        <3> SUFFICES ASSUME NEW v \in eof' PROVE InputClosed(v)'
            BY DEF Drained
        <3>1. v \in Vertex /\ v \in Node
            BY NextType, NodeFacts DEF TypeOK
        <3> QED
            BY <2>1, <2>2, <3>1 DEF Local, Ends, Drained
    <2>7. Finished'
        <3> SUFFICES ASSUME NEW v \in Patient, pc'[v] \in Ending, ~cancelled'
                     PROVE  InputClosed(v)'
            BY DEF Finished
        <3>1. v \in Vertex /\ v \in Node /\ ~cancelled
            BY <1>2, NodeFacts, GlobalStep DEF Patient
        <3>2. CASE pc[v] \in Ending
            BY <2>1, <3>1, <3>2 DEF Ends, Finished
        <3>3. CASE v \notin Worker \cup Consumer /\ MayReturn(v)
            BY <2>1, <3>1, <3>3 DEF Patient, MayReturn, Ends, Drained
        <3> QED
            BY <2>1, <2>2, <3>1, <3>2, <3>3 DEF Local
    <2>8. Left'
        <3> SUFFICES ASSUME main' = "ok" PROVE held' = {} /\ \A v \in Vertex : pc'[v] = "done"
            BY DEF Left
        <3>1. ErrCClosed
            BY <1>2, GlobalStep DEF Returned
        <3> QED
            BY <3>1 DEF ErrCClosed, errs
    <2> QED
        BY <2>3, <2>4, <2>5, <2>6, <2>7, <2>8 DEF Ends
<1> QED
    BY <1>1, <1>2 DEF Next, Exited

THEOREM EndsInvariance == Spec => []Ends
<1>1. Ends /\ IInv /\ [Next]_vars => Ends'
    BY NextEnds
<1> QED
    BY Invariance, InitEnds, <1>1, PTL DEF Spec

-----------------------------------------------------------------------------
\* Behind the end of an input nothing is left on its edges.
LEMMA NothingLeft ==
    ASSUME IInv, Ends, NEW v \in Node, InputClosed(v), NEW p \in Preds[v]
    PROVE  p \in ended /\ got[<<p, v>>] = sent[p]
<1> DEFINE e == <<p, v>>
<1>1. e \in Edge /\ e[1] = p /\ e[2] = v /\ p \in Node
    BY EdgeFacts
<1>2. p \in ended /\ pend[p] = {} /\ (p \notin Direct => slot[e] = 0)
    BY DEF InputClosed, Ends, Quiet
<1>3. slot[e] = 0
    BY <1>1, <1>2 DEF IInv, DirectSlots
<1>4. InFlight(p, v) = 0
    BY <1>2, <1>3 DEF InFlight
<1> QED
    BY <1>1, <1>2, <1>4 DEF IInv, Delivery, TypeOK

\* A worker or consumer that is about to close its output, or has, read all that
\* its parents yielded (vertex.go: it returns on a closed input only), unless
\* the run was cancelled.
THEOREM CompleteCorrect == Spec => []CompleteAtClose
<1>1. ASSUME IInv, Ends PROVE CompleteAtClose
    <2> SUFFICES ASSUME NEW v \in Worker \cup Consumer,
                        pc[v] \in {"close", "exit", "done"}, ~cancelled,
                        NEW p \in Preds[v]
                 PROVE  p \in ended /\ got[<<p, v>>] = sent[p]
        BY DEF CompleteAtClose
    <2>1. v \in Node /\ InputClosed(v)
        BY <1>1, NodeFacts DEF Ends, Finished, Patient, Ending
    <2> QED
        BY <1>1, <2>1, NothingLeft
<1> QED
    BY Invariance, EndsInvariance, <1>1, PTL

\* When RunTemplate returns because the error channel closed (main.go), every
\* stage has ended, every error was logged, and in a graph none of whose stages
\* leaves early every value was read.
THEOREM ReturnCorrect == Spec => []ReturnMeansDone
<1>1. ASSUME IInv, Ends, ErrorsConserved PROVE ReturnMeansDone
    <2> SUFFICES ASSUME main = "ok"
                 PROVE  /\ \A v \in Vertex : pc[v] = "done" /\ seen[v] = raised[v]
                        /\ EarlyExit = {} /\ ~cancelled =>
                              \A e \in Edge : e[2] \in Worker \cup Consumer \cup Runner =>
                                                  got[e] = sent[e[1]]
        BY DEF ReturnMeansDone
    <2>1. held = {} /\ \A v \in Vertex : pc[v] = "done"
        BY <1>1 DEF Ends, Left
    <2>2. ASSUME NEW v \in Vertex PROVE seen[v] = raised[v]
        BY <1>1, <2>1 DEF ErrorsConserved, IInv, TypeOK
    <2>3. ASSUME EarlyExit = {}, ~cancelled, NEW e \in Edge,
                 e[2] \in Worker \cup Consumer \cup Runner
          PROVE  got[e] = sent[e[1]]
        <3>1. e[2] \in Node /\ e[1] \in Preds[e[2]] /\ e = <<e[1], e[2]>>
            BY EdgeFacts
        <3>2. InputClosed(e[2])
            BY <1>1, <2>1, <2>3, NodeFacts DEF Ends, Finished, Patient, Ending
        <3> QED
            BY <1>1, <3>1, <3>2, NothingLeft
    <2> QED
        BY <2>1, <2>2, <2>3
<1> QED
    BY Invariance, EndsInvariance, ErrorsCorrect, <1>1, PTL

-----------------------------------------------------------------------------
(***************************************************************************)
(* Pipeline keeps the safety part of what Dataflow promises, in every      *)
(* graph whose stages read their input to the end, when nothing is         *)
(* cancelled: each step is a step of Dataflow or changes nothing it sees.  *)
(***************************************************************************)

Calm == ~cancelled

LEMMA CalmStep ==
    ASSUME "cancel" \notin Events, Calm, [Next]_vars
    PROVE  Calm'
<1> USE DEF flow, errs, ctl, Calm
<1>1. ASSUME NEW v \in Vertex, Run(v) \/ ReceiveErr(v) PROVE Calm'
    BY <1>1 DEF Run, ReceiveErr
<1>2. CASE Synchronize \/ ErrCClosed \/ Interrupt \/ Cancel
    BY <1>2 DEF Synchronize, Begin, ErrCClosed, Interrupt, Cancel
<1>3. ASSUME NEW v \in Vertex \cup {Stdin},
             \/ Initialized(v) \/ PassBarrier(v) \/ RecvClosed(v) \/ SeeCancel(v)
             \/ RunnerEof(v) \/ Yield(v) \/ Refuse(v) \/ YieldError(v) \/ SendOutput(v)
             \/ Return(v) \/ Fail(v) \/ Report(v) \/ CloseOut(v) \/ Finish(v)
      PROVE Calm'
    BY <1>3 DEF Initialized, PassBarrier, RecvClosed, SeeCancel, RunnerEof, Yield, Refuse,
                YieldError, SendOutput, Return, Fail, Report, CloseOut, Finish
<1>4. ASSUME NEW v \in Vertex \cup {Stdin}, NEW p \in Preds[v],
             RecvData(p, v) \/ RunnerRecv(p, v)
      PROVE Calm'
    BY <1>4 DEF RecvData, RunnerRecv
<1>5. ASSUME NEW p \in Node, EndBroker(p) PROVE Calm'
    BY <1>5 DEF EndBroker
<1>6. ASSUME NEW r \in Node, NEW p \in Preds[r], Forward(p, r) PROVE Calm'
    BY <1>6 DEF Forward
<1>7. ASSUME NEW e \in Edge, Merge(e[1], e[2]) PROVE Calm'
    BY <1>7 DEF Merge
<1>8. CASE UNCHANGED vars
    BY <1>8 DEF vars
<1>9. CASE Step
    BY <1>9, <1>1, <1>2, <1>3, <1>4, <1>5, <1>6, <1>7, StepCases
<1> QED
    BY <1>8, <1>9 DEF Next, Exited

-----------------------------------------------------------------------------
\* The stream of a node is over for those who read it.
Over == closed \cup (ended \cap Relay)

LEMMA OverFacts ==
    ASSUME IInv, Ends
    PROVE  /\ ended \subseteq Over
           /\ \A n \in Vertex \cup {Stdin} : n \in Over <=> n \in closed
           /\ \A r \in Relay : r \in Over <=> r \in ended
<1>1. \A r \in Relay : r \notin closed
    BY NodeFacts DEF Ends, Silenced
<1> QED
    BY <1>1, NodeFacts DEF Over, Ends, Quiet

\* A node that owes nothing may emit: it is not too far ahead of any reader.
LEMMA RoomToEmit ==
    ASSUME IInv, NEW n \in Node, pend[n] = {}, n \notin Over
    PROVE  Promise!MayEmit(n)
<1> SUFFICES ASSUME NEW v \in Promise!Children(n)
             PROVE  sent[n] - got[<<n, v>>] < IF n \in Direct THEN 1 ELSE 2
    BY DEF Promise!MayEmit, Over
<1> DEFINE e == <<n, v>>
<1>1. e \in Edge /\ e[1] = n /\ e[2] = v
    BY GraphIsFinite DEF Promise!Children, Edge
<1>2. sent[n] = got[e] + InFlight(n, v) /\ (n \in Direct => slot[e] = 0)
    BY <1>1 DEF IInv, Delivery, DirectSlots
<1>3. sent[n] \in Nat /\ got[e] \in Nat
    BY <1>1 DEF IInv, TypeOK
<1>4. InFlight(n, v) \in {0, 1} /\ (n \in Direct => InFlight(n, v) = 0)
    BY <1>2 DEF InFlight
<1> QED
    BY <1>2, <1>3, <1>4

\* What a reader takes is there to be read.
LEMMA TakenIsReadable ==
    ASSUME IInv, NEW v \in Node, NEW p \in Preds[v], Accept(p, v)
    PROVE  /\ Promise!Readable(p, v)
           /\ got' = [got EXCEPT ![<<p, v>>] = @ + 1]
<1> DEFINE e == <<p, v>>
<1>1. /\ e \in Edge /\ e[1] = p /\ e[2] = v /\ p \in Node
      /\ sent[p] = got[e] + InFlight(p, v)
    BY EdgeFacts DEF IInv, Delivery
<1>2. /\ got' = [got EXCEPT ![e] = @ + 1]
      /\ v \in pend[p] \/ slot[e] # 0
    BY TakenFacts
<1>3. sent[p] \in Nat /\ got[e] \in Nat /\ InFlight(p, v) \in {1, 2}
    BY <1>1, <1>2 DEF IInv, TypeOK, InFlight
<1> QED
    BY <1>1, <1>2, <1>3 DEF Promise!Readable

\* A node whose input is closed has read all of its parents' streams.
LEMMA ReadToTheEnd ==
    ASSUME IInv, Ends, NEW v \in Node, InputClosed(v), NEW p \in Preds[v]
    PROVE  p \in Over /\ got[<<p, v>>] = sent[p]
BY NothingLeft, OverFacts

-----------------------------------------------------------------------------
Seen == <<sent, got, Over>>

\* A node ends its stream, or does nothing to it.
LEMMA CloseRefines ==
    ASSUME IInv, Ends, NEW n \in Node,
           UNCHANGED <<sent, got>>, Over' = Over \cup {n},
           n \in Worker \cup Runner \cup Relay => InputClosed(n)
    PROVE  Promise!Finish(n) \/ UNCHANGED Seen
<1>1. CASE n \in Over
    BY <1>1 DEF Seen
<1>2. CASE n \notin Over
    <2>1. ASSUME NEW p \in Preds[n], n \in Worker \cup Runner \cup Relay
          PROVE  p \in Over /\ got[<<p, n>>] = sent[p]
        BY <2>1, ReadToTheEnd
    <2> QED
        BY <1>2, <2>1 DEF Promise!Finish, Over
<1> QED
    BY <1>1, <1>2

\* A step Dataflow allows, or does not see.
Kept == Promise!Next \/ UNCHANGED Seen

LEMMA StepRefines ==
    ASSUME EarlyExit = {}, IInv, Ends, Calm, [Next]_vars
    PROVE  Kept
<1> USE DEF flow, errs, ctl
<1>1. ASSUME NEW n \in Node, Promise!Finish(n) \/ UNCHANGED Seen PROVE Kept
    BY <1>1 DEF Promise!Next, Kept
<1>2. ASSUME NEW v \in Vertex, Run(v) PROVE Kept
    <2>1. CASE v \in Consumer
        <3>1. v \in Node /\ v \notin Worker \cup Runner \cup Relay
            BY <2>1, NodeFacts, KindsAreDisjoint
        <3>2. UNCHANGED <<sent, got>> /\ Over' = Over \cup {v}
            BY <1>2, <2>1 DEF Run, Close, Over
        <3> QED
            BY <1>1, <3>1, <3>2, CloseRefines
    <2>2. CASE v \notin Consumer
        BY <1>2, <2>2 DEF Run, Seen, Over, Kept
    <2> QED
        BY <2>1, <2>2
<1>3. ASSUME NEW v \in Vertex, ReceiveErr(v) PROVE Kept
    BY <1>3 DEF ReceiveErr, Seen, Over, Kept
<1>4. CASE Synchronize \/ ErrCClosed \/ Interrupt \/ Cancel
    BY <1>4 DEF Synchronize, Begin, ErrCClosed, Interrupt, Cancel, Seen, Over, Kept
<1>5. ASSUME NEW v \in Vertex \cup {Stdin},
             \/ Initialized(v) \/ PassBarrier(v) \/ RecvClosed(v) \/ SeeCancel(v)
             \/ RunnerEof(v) \/ Yield(v) \/ Refuse(v) \/ YieldError(v)
             \/ Return(v) \/ Fail(v) \/ Report(v) \/ Finish(v)
      PROVE Kept
    BY <1>5 DEF Initialized, PassBarrier, RecvClosed, SeeCancel, RunnerEof, Yield, Refuse,
                YieldError, Return, Fail, Report, Finish, Seen, Over, Kept
<1>6. ASSUME NEW v \in Vertex \cup {Stdin}, SendOutput(v) PROVE Kept
    <2>1. v \in Node /\ v \notin closed
        BY <1>6, NodeFacts DEF SendOutput, Ends, Silenced, Mute
    <2>2. Promise!MayEmit(v)
        BY <1>6, <2>1, OverFacts, RoomToEmit DEF SendOutput
    <2>3. Promise!Emit(v)
        BY <1>6, <2>2 DEF SendOutput, Promise!Emit
    <2> QED
        BY <2>1, <2>3 DEF Promise!Next, Kept
<1>7. ASSUME NEW v \in Vertex \cup {Stdin}, CloseOut(v) PROVE Kept
    <2>1. CASE v \in Consumer
        BY <1>7, <2>1 DEF CloseOut, Seen, Over, Kept
    <2>2. CASE v \notin Consumer
        <3>1. v \in Node /\ v \notin Relay
            BY NodeFacts
        <3>2. UNCHANGED <<sent, got>> /\ Over' = Over \cup {v}
            BY <1>7, <2>2 DEF CloseOut, Close, Over
        <3>3. v \in Worker \cup Runner => InputClosed(v)
            BY <1>7 DEF CloseOut, Ends, Finished, Patient, Ending, Calm
        <3> QED
            BY <1>1, <3>1, <3>2, <3>3, CloseRefines
    <2> QED
        BY <2>1, <2>2
<1>8. ASSUME NEW v \in Vertex \cup {Stdin}, NEW p \in Preds[v],
             RecvData(p, v) \/ RunnerRecv(p, v)
      PROVE Kept
    <2>1. v \in Node /\ Accept(p, v) /\ sent' = sent /\ Over' = Over
        BY <1>8, NodeFacts DEF RecvData, RunnerRecv, Over
    <2>2. Promise!Take(p, v)
        BY <2>1, TakenIsReadable DEF Promise!Take, Over
    <2>3. <<p, v>> \in Promise!Edge
        BY <2>1, EdgeFacts DEF Promise!Edge
    <2> QED
        BY <2>2, <2>3 DEF Promise!Next, Kept
<1>9. ASSUME NEW q \in Node, EndBroker(q) PROVE Kept
    <2>1. CASE q \in Relay
        <3>1. UNCHANGED <<sent, got>> /\ Over' = Over \cup {q} /\ InputClosed(q)
            BY <1>9, <2>1 DEF EndBroker, Over
        <3> QED
            BY <1>1, <3>1, CloseRefines
    <2>2. CASE q \notin Relay
        BY <1>9, <2>2 DEF EndBroker, Seen, Over, Kept
    <2> QED
        BY <2>1, <2>2
<1>10. ASSUME NEW r \in Node, NEW p \in Preds[r], Forward(p, r) PROVE Kept
    <2>1. r \in Relay /\ Accept(p, r) /\ pend[r] = {} /\ Over' = Over
        BY <1>10 DEF Forward, Over
    <2>2. r \notin ended
        BY <2>1, NothingOffered DEF Accept, Ends, Quiet
    <2>3. Promise!MayEmit(r)
        BY <2>1, <2>2, OverFacts, RoomToEmit
    <2>4. Promise!Pass(p, r)
        BY <1>10, <2>1, <2>3, TakenIsReadable DEF Forward, Promise!Pass, Over
    <2>5. <<p, r>> \in Promise!Edge
        BY EdgeFacts DEF Promise!Edge
    <2> QED
        BY <2>4, <2>5 DEF Promise!Next, Kept
<1>11. ASSUME NEW e \in Edge, Merge(e[1], e[2]) PROVE Kept
    BY <1>11 DEF Merge, Seen, Over, Kept
<1>12. CASE UNCHANGED vars
    BY <1>12 DEF vars, Seen, Over, Kept
<1>13. ASSUME Step PROVE Kept
    BY <1>13, <1>2, <1>3, <1>4, <1>5, <1>6, <1>7, <1>8, <1>9, <1>10, <1>11, StepCases
<1> QED
    BY <1>12, <1>13 DEF Next, Exited

\* The machinery of vertex.go and graphio.go (goroutines, brokers, merges, the
\* barrier) implements the ordered, complete streams of Dataflow, liveness aside.
THEOREM KeepsPromise ==
    ASSUME EarlyExit = {}, "cancel" \notin Events
    PROVE  Spec => Promise!SafeSpec
<1>1. Init => Promise!Init
    BY DEF Init, Promise!Init, Edge, Promise!Edge
<1>2. IInv /\ Ends /\ Calm /\ [Next]_vars => [Promise!Next]_(Promise!vars)
    BY StepRefines DEF Kept, Seen, Over, Promise!vars
<1>3. Init => Calm
    BY DEF Init, Calm
<1>4. Calm /\ [Next]_vars => Calm'
    BY CalmStep
<1>5. Spec => []Calm
    BY <1>3, <1>4, PTL DEF Spec
<1> QED
    BY Invariance, EndsInvariance, <1>1, <1>2, <1>5, PTL DEF Spec, Promise!SafeSpec
=============================================================================
