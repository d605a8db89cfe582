----------------------------- MODULE GraphBuild -----------------------------
(***************************************************************************)
(* How a template's stages become a graph, and how a graph is split in     *)
(* connected pieces (core/graph/graph.go, NewIO and WithVertices of        *)
(* graphio.go).  The stages come from a map, so in any order; a stage may  *)
(* name itself, a stage that does not exist, or the same parent twice.     *)
(***************************************************************************)
EXTENDS Integers, Sequences, FiniteSets, SequencesExt, Graphs

CONSTANTS
    Stage,     \* the template's stages
    Ghost,     \* a name no stage has
    Parents    \* Parents: the declarations checked, of stages' parent lists

ASSUME GraphBounds ==
    /\ IsFiniteSet(Stage) /\ Ghost \notin Stage
    /\ Parents \subseteq [Stage -> Seq(Stage \cup {Ghost})]

VARIABLES
    parents, \* GetParents() of every stage
    g,       \* the graph: its vertices and edges
    slice,   \* the stages in the order AddVertices gets them
    at,      \* where its second loop is: stage and parent
    err,     \* what AddVertices returns, and the edges it names
    split    \* SplitEdges and Split: verticesNeighborsMap's keys, the stack and
             \* the place in it, listEdges, the graphs made

buildVars == <<parents, g, slice, at, err, split>>

\* The template's map of stages and NewIO: an empty directed graph.
BuildInit ==
    /\ parents \in Parents
    /\ g = EmptyGraph /\ slice = <<>> /\ at = <<1, 1>>
    /\ err = [kind |-> "none", edges |-> {}]
    /\ split = [keys |-> {}, stack |-> <<>>, at |-> 1, edges |-> {}, pieces |-> <<>>]

-----------------------------------------------------------------------------
(***************************************************************************)
(* AddVertices: every vertex first, then the edges in the same order.      *)
(* WithVertices only logs the error, and the graph is used as it is.       *)
(***************************************************************************)
Building == err.kind = "none"
Vertices == Stage = ToSet(slice)

AddVertex(v) ==
    /\ Building /\ v \notin ToSet(slice)
    /\ slice' = Append(slice, v)
    /\ g' = [g EXCEPT !.node = @ \cup {v}]
    /\ UNCHANGED <<parents, at, err, split>>

\* A missing parent is noted and the loop goes on; another error ends it, and
\* the errors joined so far are not returned.
MissingEnds(e) == \* mutant: a missing parent ends the loop too
    /\ e[1] \notin g.node
    /\ err' = [kind |-> "missing", edges |-> {e}]
    /\ UNCHANGED <<at, g>>

Missing(e) ==
    /\ e[1] \notin g.node
    /\ at' = <<at[1], at[2] + 1>>
    /\ err' = [err EXCEPT !.edges = @ \cup {e}]
    /\ UNCHANGED g

AddEdge ==
    LET v == slice[at[1]]  e == <<parents[v][at[2]], v>>  IN
    /\ Building /\ Vertices /\ at[1] <= Len(slice) /\ at[2] <= Len(parents[v])
    /\ \/ Missing(e)
       \/ /\ e[1] \in g.node /\ e \notin g.edge
          /\ at' = <<at[1], at[2] + 1>>
          /\ g' = [g EXCEPT !.edge = @ \cup {e}]
          /\ UNCHANGED err
       \/ /\ e \in g.edge
          /\ err' = [kind |-> "duplicate", edges |-> {}]
          /\ UNCHANGED <<at, g>>
    /\ UNCHANGED <<parents, slice, split>>

NextVertex ==
    /\ Building /\ Vertices /\ at[1] <= Len(slice) /\ at[2] > Len(parents[slice[at[1]]])
    /\ at' = <<at[1] + 1, 1>>
    /\ UNCHANGED <<parents, g, slice, err, split>>

Built ==
    /\ Building /\ Vertices /\ at[1] > Len(slice)
    /\ err' = [err EXCEPT !.kind = IF err.edges = {} THEN "nil" ELSE "missing"]
    /\ UNCHANGED <<parents, g, slice, at, split>>

-----------------------------------------------------------------------------
(***************************************************************************)
(* SplitEdges walks each piece once, over a stack that grows while it is   *)
(* read, and keeps the edge that first led to a vertex.                    *)
(***************************************************************************)
DirectedNeighbors(v) == Successors(g, v) \* mutant: the predecessors are not inserted
UndirectedNeighbors(v) == Successors(g, v) \cup Predecessors(g, v)

\* The map has one edge to a neighbour: the predecessor's hides the successor's.
NeighborEdge(v, n) == IF n \in Predecessors(g, v) THEN <<n, v>> ELSE <<v, n>>

\* Without edges CloneFromEdge clones the whole graph.
CloneFromEdge(edges) ==
    IF edges = {} THEN g
    ELSE [node |-> UNION {{e[1], e[2]} : e \in edges}, edge |-> edges]

Split ==
    /\ ~Building /\ split.keys = {} /\ split.stack = <<>> /\ split.pieces = <<>>
    /\ split' = [split EXCEPT !.keys = g.node]
    /\ UNCHANGED <<parents, g, slice, at, err>>

NextKey(v) ==
    /\ v \in split.keys /\ split.stack = <<>>
    /\ split' = [split EXCEPT !.stack = <<v>>, !.at = 1, !.edges = {}]
    /\ UNCHANGED <<parents, g, slice, at, err>>

VisitVertex ==
    /\ split.at <= Len(split.stack)
    /\ LET v == split.stack[split.at]
           new == (IF v \in split.keys THEN UndirectedNeighbors(v) ELSE {}) \ ToSet(split.stack)
       IN \E order \in SetToSeqs(new) :
            split' = [split EXCEPT !.stack = @ \o order, !.at = @ + 1, !.keys = @ \ {v},
                                   !.edges = @ \cup {NeighborEdge(v, n) : n \in new}]
    /\ UNCHANGED <<parents, g, slice, at, err>>

Piece ==
    /\ split.stack # <<>> /\ split.at > Len(split.stack)
    /\ split' = [split EXCEPT !.stack = <<>>, !.pieces = Append(@, CloneFromEdge(split.edges))]
    /\ UNCHANGED <<parents, g, slice, at, err>>

BuildNext ==
    \/ \E v \in Stage : AddVertex(v) \/ NextKey(v)
    \/ AddEdge \/ NextVertex \/ Built \/ Split \/ VisitVertex \/ Piece

BuildSpec == BuildInit /\ [][BuildNext]_buildVars

-----------------------------------------------------------------------------
Declared == UNION {{<<p, v>> : p \in ToSet(parents[v])} : v \in Stage}
Repeats  == \E v \in Stage : \E i, j \in DOMAIN parents[v] :
                i # j /\ parents[v][i] = parents[v][j] /\ parents[v][i] \in Stage

\* Whatever the order of the stages, the graph that is run has the edges the
\* template declares, save those to stages that do not exist, which the error
\* names, all of them; only a parent declared twice loses more (AddVertices).
BuiltAsDeclared ==
    /\ g.edge \subseteq Declared
    /\ err.kind \in {"nil", "missing"} => Declared \ g.edge = err.edges /\ ~Repeats
    /\ err.kind = "duplicate" => Repeats
    /\ err.kind = "nil" => err.edges = {}

\* The vertices joined to v: no set that no edge leaves has v without them.
Separate(G)  == {S \in SUBSET G.node : \A e \in G.edge : e[1] \in S <=> e[2] \in S}
PartOf(G, v) == {w \in G.node : \A S \in Separate(G) : v \in S => w \in S}

SplitDone == split.keys = {} /\ split.stack = <<>> /\ split.pieces # <<>>
Isolated(v) == UndirectedNeighbors(v) \subseteq {v}

\* A tree that spans p: joined, with one edge less than vertices.
Spans(G, p) ==
    /\ G.node = p /\ G.edge \subseteq g.edge
    /\ Cardinality(G.edge) = Cardinality(p) - 1
    /\ \A v \in p : PartOf(G, v) = p

\* Split gives one graph for every connected part of the graph: a tree that
\* spans it, or, for a vertex on its own, a copy of the whole graph.
SplitCovers ==
    SplitDone =>
      LET parts == {PartOf(g, v) : v \in Stage}
          Trees(p) == {i \in DOMAIN split.pieces : Spans(split.pieces[i], p)}
      IN  /\ Len(split.pieces) = Cardinality(parts)
          /\ \A p \in parts : Cardinality(p) > 1 => Cardinality(Trees(p)) = 1
          /\ Cardinality({i \in DOMAIN split.pieces : split.pieces[i] = g})
               >= Cardinality({v \in Stage : Isolated(v)})
=============================================================================
