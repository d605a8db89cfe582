------------------------------ MODULE Dataflow ------------------------------
(***************************************************************************)
(* What a graph of stages promises to those who write stages: every edge   *)
(* is a stream of numbered values that its reader takes in order and       *)
(* completely, a stage may run ahead of its slowest reader by a fixed      *)
(* number of values only, and the end of the streams travels down the      *)
(* graph behind the last value.  Nothing is said here of goroutines,       *)
(* brokers, merges, barriers or channels.                                  *)
(***************************************************************************)
EXTENDS Integers

CONSTANTS
    Node,
    Preds,   \* Preds[n]: the nodes whose streams n reads
    Slack,   \* Slack[n]: how far n may be ahead of a reader of its stream
    Reader,  \* nodes that read their streams to the end
    Eager    \* nodes that end their own stream without waiting for that

VARIABLES
    produced, \* produced[n]: length of the stream of n
    consumed, \* consumed[<<p, n>>]: values of p's stream that n has read
    finished  \* nodes whose stream has ended

vars == <<produced, consumed, finished>>

Edge        == {e \in Node \X Node : e[1] \in Preds[e[2]]}
Children(n) == {v \in Node : n \in Preds[v]}

Init ==
    /\ produced = [n \in Node |-> 0]
    /\ consumed = [e \in Edge |-> 0]
    /\ finished = {}

MayEmit(n) ==
    /\ n \notin finished
    /\ \A v \in Children(n) : produced[n] - consumed[<<n, v>>] < Slack[n]

Readable(p, n) == consumed[<<p, n>>] < produced[p]

Emit(n) ==
    /\ MayEmit(n)
    /\ produced' = [produced EXCEPT ![n] = @ + 1]
    /\ UNCHANGED <<consumed, finished>>

Take(p, n) ==
    /\ Readable(p, n)
    /\ consumed' = [consumed EXCEPT ![<<p, n>>] = @ + 1]
    /\ UNCHANGED <<produced, finished>>

\* A node with no work of its own hands on what it reads.
Pass(p, n) ==
    /\ Readable(p, n)
    /\ MayEmit(n)
    /\ consumed' = [consumed EXCEPT ![<<p, n>>] = @ + 1]
    /\ produced' = [produced EXCEPT ![n] = @ + 1]
    /\ UNCHANGED finished

Finish(n) ==
    /\ n \notin finished
    /\ n \in Reader \ Eager =>
          \A p \in Preds[n] : p \in finished /\ consumed[<<p, n>>] = produced[p]
    /\ finished' = finished \cup {n}
    /\ UNCHANGED <<produced, consumed>>

Next ==
    \/ \E n \in Node : Emit(n) \/ Finish(n)
    \/ \E e \in Edge : Take(e[1], e[2]) \/ Pass(e[1], e[2])

\* What a reader has been offered it reads, and it ends when its parents have.
Fairness ==
    /\ \A e \in Edge : e[2] \in Reader =>
          WF_vars(Take(e[1], e[2]) \/ Pass(e[1], e[2]))
    /\ \A n \in Reader : WF_vars(Finish(n))

SafeSpec == Init /\ [][Next]_vars
Spec     == SafeSpec /\ Fairness
=============================================================================
