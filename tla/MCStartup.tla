----------------------------- MODULE MCStartup -----------------------------
(***************************************************************************)
(* A template that includes a template that includes a template.           *)
(*   root: k (consumer) -> s -> c (consumer), a (worker) -> c, u           *)
(*   s:    b (worker) -> t                                                 *)
(*   t:    d (worker)                                                      *)
(*   u:    e (worker); nobody reads u                                      *)
(***************************************************************************)
EXTENDS Startup

CONSTANTS root, a, b, c, d, e, k, s, t, u

NestedHome == [v \in Vertex |-> CASE v \in {a, c, k, s, u} -> root
                                  [] v \in {b, t} -> s
                                  [] v = d -> t
                                  [] v = e -> u]

NestedPreds == [v \in Vertex |-> CASE v = s -> {k}
                                   [] v = c -> {s, a}
                                   [] v = u -> {a}
                                   [] v = t -> {b}
                                   [] OTHER -> {}]
=============================================================================
