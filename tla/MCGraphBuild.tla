---------------------------- MODULE MCGraphBuild ----------------------------
(***************************************************************************)
(* Four stages and at most three declared parents: room for two pieces of  *)
(* two stages, a cycle of three, and every wrong declaration.              *)
(***************************************************************************)
EXTENDS GraphBuild

ParentsOf(s, v) ==
    LET own == SelectSeq(s, LAMBDA e : e[2] = v) IN [k \in DOMAIN own |-> own[k][1]]

FewParents ==
    {[v \in Stage |-> ParentsOf(s, v)] : s \in BoundedSeq((Stage \cup {Ghost}) \X Stage, 3)}

Interchangeable == Permutations(Stage)
=============================================================================
