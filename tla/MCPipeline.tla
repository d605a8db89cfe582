----------------------------- MODULE MCPipeline -----------------------------
(***************************************************************************)
(* Small graphs for TLC.  Every root subscribes to the input broker of its *)
(* graph, as piping does when IO.inputC is set.                            *)
(***************************************************************************)
EXTENDS Pipeline

CONSTANTS stdin, a, b, c, rin, rout

\* stdin -> a (worker) -> b (runner) -> c (consumer)
ChainPreds == [n \in Node |-> CASE n = a -> {stdin}
                                [] n = b -> {a}
                                [] n = c -> {b}
                                [] OTHER -> {}]
ChainYield == [v \in Vertex |-> IF v = a THEN 2 ELSE 1]

\* a (producer) feeds c (consumer) twice: directly, and through an included
\* graph whose only stage is b (worker); rin and rout are the brokers around b
DiamondPreds == [n \in Node |-> CASE n = a    -> {stdin}
                                  [] n = rin  -> {a}
                                  [] n = b    -> {rin}
                                  [] n = rout -> {b}
                                  [] n = c    -> {a, rout}
                                  [] OTHER    -> {}]
DiamondYield == [v \in Vertex |-> IF v = a THEN 2 ELSE 1]

\* a (producer) and b (worker) are roots side by side; c (runner) reads b and
\* may stop doing so
DesertPreds == [n \in Node |-> CASE n \in {a, b} -> {stdin}
                                 [] n = c -> {b}
                                 [] OTHER -> {}]
DesertYield == [v \in Vertex |-> IF v = b THEN 3 ELSE 0]
=============================================================================
