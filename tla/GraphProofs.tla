----------------------------- MODULE GraphProofs -----------------------------
(***************************************************************************)
(* Theorems about how a graph comes to be: GraphBuild, for any template,   *)
(* with stages in any order and any parents, and Startup, for every        *)
(* nesting of included graphs.                                             *)
(***************************************************************************)
EXTENDS GraphBuild, Startup, FiniteSetTheorems, SequenceTheorems, TLAPS

-----------------------------------------------------------------------------
(***************************************************************************)
(* AddVertices.                                                            *)
(***************************************************************************)
Edge(i, j) == <<parents[slice[i]][j], slice[i]>>

\* The second loop is past parent j of the stage at i.
Passed(i, j) ==
    /\ i \in DOMAIN slice /\ j \in DOMAIN parents[slice[i]]
    /\ i < at[1] \/ (i = at[1] /\ j < at[2])

-----------------------------------------------------------------------------
(***************************************************************************)
(* The inductive invariant.                                                *)
(***************************************************************************)
Types ==
    /\ parents \in [Stage -> Seq(Stage \cup {Ghost})]
    /\ g \in [node : SUBSET Stage, edge : SUBSET (Stage \X Stage)]
    /\ slice \in Seq(Stage) /\ at \in (Nat \ {0}) \X (Nat \ {0})
    /\ err \in [kind : {"none", "nil", "missing", "duplicate"},
                edges : SUBSET ((Stage \cup {Ghost}) \X Stage)]

\* Every stage is a vertex once, and the edges come after the vertices.
Listed ==
    /\ \A i, k \in DOMAIN slice : slice[i] = slice[k] => i = k
    /\ g.node = ToSet(slice)
    /\ ~Vertices => at = <<1, 1>> /\ Building

\* The edges the loop has passed are in the graph or in the error, no others,
\* and it has not passed one of the graph's twice.
Handled ==
    /\ \A i, j : Passed(i, j) =>
           IF Edge(i, j)[1] \in Stage THEN Edge(i, j) \in g.edge
           ELSE err.kind = "duplicate" \/ Edge(i, j) \in err.edges
    /\ \A e \in g.edge \cup err.edges : \E i, j : Passed(i, j) /\ e = Edge(i, j)
    /\ \A e \in err.edges : e[1] \notin Stage
    /\ \A i, j, k : Passed(i, j) /\ Passed(i, k) /\ Edge(i, j) = Edge(i, k)
                      /\ Edge(i, j)[1] \in Stage => j = k

Result ==
    /\ err.kind \in {"nil", "missing"} => at[1] > Len(slice) /\ Vertices
    /\ err.kind = "nil" => err.edges = {}
    /\ err.kind = "duplicate" => Repeats /\ err.edges = {}

BuildIInv == Types /\ Listed /\ Handled /\ Result

-----------------------------------------------------------------------------
LEMMA BuildInitIInv == BuildInit => BuildIInv
<1> SUFFICES ASSUME BuildInit PROVE BuildIInv
    OBVIOUS
<1>1. Types
    <2>1. slice \in Seq(Stage)
        BY DEF BuildInit
    <2>2. parents \in [Stage -> Seq(Stage \cup {Ghost})]
        BY GraphBounds DEF BuildInit
    <2> QED
        BY <2>1, <2>2 DEF BuildInit, Types, EmptyGraph
<1>2. DOMAIN slice = {} /\ ToSet(slice) = {}
    BY DEF BuildInit, ToSet
<1>3. Listed
    BY <1>2 DEF BuildInit, Listed, EmptyGraph, Building
<1>4. Handled
    BY <1>2 DEF BuildInit, Handled, Passed, EmptyGraph
<1>5. Result
    BY DEF BuildInit, Result
<1> QED
    BY <1>1, <1>3, <1>4, <1>5 DEF BuildIInv

LEMMA ParentPlaces ==
    ASSUME Types, NEW v \in Stage
    PROVE  /\ Len(parents[v]) \in Nat /\ DOMAIN parents[v] = 1..Len(parents[v])
           /\ \A j \in DOMAIN parents[v] : j \in Nat /\ j >= 1
                                         /\ parents[v][j] \in Stage \cup {Ghost}
<1>1. parents[v] \in Seq(Stage \cup {Ghost})
    BY DEF Types
<1> QED
    BY <1>1

LEMMA AddVertexStep ==
    ASSUME BuildIInv, NEW v \in Stage, AddVertex(v)
    PROVE  BuildIInv'
<1>1. /\ slice' = Append(slice, v) /\ g' = [g EXCEPT !.node = @ \cup {v}]
      /\ UNCHANGED <<parents, at, err>> /\ v \notin ToSet(slice)
    BY DEF AddVertex
<1>2. /\ slice' \in Seq(Stage) /\ Len(slice') = Len(slice) + 1 /\ Len(slice) \in Nat
      /\ DOMAIN slice = 1..Len(slice) /\ DOMAIN slice' = 1..Len(slice')
      /\ slice'[Len(slice')] = v /\ \A i \in DOMAIN slice : slice'[i] = slice[i]
    BY <1>1 DEF BuildIInv, Types
<1>3. DOMAIN slice' = DOMAIN slice \cup {Len(slice')} /\ Len(slice') \notin DOMAIN slice
    BY <1>2
<1>4. ToSet(slice') = ToSet(slice) \cup {v}
    BY <1>2, <1>3 DEF ToSet
<1>5. at = <<1, 1>> /\ Building
    BY <1>1 DEF BuildIInv, Listed, Vertices
<1>6. /\ g'.node = g.node \cup {v} /\ g'.edge = g.edge
      /\ g' \in [node : SUBSET Stage, edge : SUBSET (Stage \X Stage)]
    BY <1>1 DEF BuildIInv, Types
<1>7. Types'
    BY <1>1, <1>2, <1>6 DEF BuildIInv, Types
<1>8. Listed'
    BY <1>1, <1>2, <1>3, <1>4, <1>5, <1>6 DEF BuildIInv, Listed, ToSet, Building
<1>9. \A i, j : ~Passed(i, j) /\ ~Passed(i, j)'
    <2>1. \A i \in DOMAIN slice' : i \in Nat /\ i >= 1
        BY <1>2
    <2>2. \A i \in DOMAIN slice' : slice'[i] \in Stage
        BY <1>2
    <2>3. \A i \in DOMAIN slice' : \A j \in DOMAIN parents[slice'[i]] : j \in Nat /\ j >= 1
        BY <2>2, ParentPlaces DEF BuildIInv
    <2>4. at[1] = 1 /\ at[2] = 1 /\ at' = at /\ parents' = parents
        BY <1>1, <1>5
    <2>5. \A i \in DOMAIN slice : i \in DOMAIN slice' /\ slice[i] = slice'[i]
        BY <1>2, <1>3
    <2>6. \A i, j : i \in DOMAIN slice' /\ j \in DOMAIN parents[slice'[i]]
                       => ~(i < 1 \/ (i = 1 /\ j < 1))
        BY <2>1, <2>3
    <2> QED
        BY <2>4, <2>5, <2>6 DEF Passed
<1>10. Handled'
    BY <1>1, <1>6, <1>9 DEF BuildIInv, Handled
<1>11. Result'
    BY <1>1, <1>5 DEF BuildIInv, Result, Building
<1> QED
    BY <1>7, <1>8, <1>10, <1>11 DEF BuildIInv

LEMMA AddEdgeStep ==
    ASSUME BuildIInv, AddEdge
    PROVE  BuildIInv'
<1> DEFINE n == at[1]
           m == at[2]
           v == slice[n]
           e == <<parents[v][m], v>>
<1>1. /\ Building /\ Vertices /\ n \in DOMAIN slice /\ n \in Nat /\ m \in Nat
      /\ v \in Stage /\ m \in DOMAIN parents[v]
      /\ UNCHANGED <<parents, slice, split>>
    <2>1. /\ n \in Nat \ {0} /\ m \in Nat \ {0} /\ n <= Len(slice) /\ m <= Len(parents[v])
          /\ slice \in Seq(Stage)
        BY DEF BuildIInv, Types, AddEdge
    <2>2. n \in DOMAIN slice /\ v \in Stage
        BY <2>1
    <2> QED
        BY <2>1, <2>2, ParentPlaces DEF AddEdge, BuildIInv
<1>2. e[1] \in Stage \cup {Ghost} /\ e = Edge(n, m) /\ e[2] = v /\ Ghost \notin Stage
    BY <1>1, ParentPlaces, GraphBounds DEF BuildIInv, Edge
<1>3. g.node = Stage
    BY <1>1 DEF BuildIInv, Listed, Vertices
<1>4. \A i, j : Edge(i, j)' = Edge(i, j)
    BY <1>1 DEF Edge
<1>5. ASSUME at' = <<n, m + 1>>
      PROVE  \A i, j : Passed(i, j)' <=> Passed(i, j) \/ (i = n /\ j = m)
    <2>1. at'[1] = n /\ at'[2] = m + 1
        BY <1>5
    <2>2. \A i \in DOMAIN slice : \A j \in DOMAIN parents[slice[i]] : j \in Nat
        BY ParentPlaces DEF BuildIInv, Types
    <2> QED
        BY <1>1, <2>1, <2>2 DEF Passed
<1>6. e \in (Stage \cup {Ghost}) \X Stage /\ <<n, m + 1>> \in (Nat \ {0}) \X (Nat \ {0})
    BY <1>1, <1>2 DEF BuildIInv, Types
<1>7. CASE Missing(e)
    <2>1. /\ at' = <<n, m + 1>> /\ err' = [err EXCEPT !.edges = @ \cup {e}] /\ g' = g
          /\ e[1] \notin Stage
        BY <1>3, <1>7 DEF Missing
    <2>2. Types' /\ err'.kind = "none" /\ err'.edges = err.edges \cup {e}
        <3>1. err.edges \cup {e} \in SUBSET ((Stage \cup {Ghost}) \X Stage)
            BY <1>6 DEF BuildIInv, Types
        <3>2. /\ err' \in [kind : {"none", "nil", "missing", "duplicate"},
                          edges : SUBSET ((Stage \cup {Ghost}) \X Stage)]
              /\ err'.kind = "none" /\ err'.edges = err.edges \cup {e}
            BY <1>1, <2>1, <3>1 DEF BuildIInv, Types, Building
        <3> QED
            BY <1>1, <1>6, <2>1, <3>2 DEF BuildIInv, Types
    <2>3. Listed'
        BY <1>1, <2>1 DEF BuildIInv, Listed, Vertices
    <2>4. Handled'
        BY <1>2, <1>4, <1>5, <2>1, <2>2 DEF BuildIInv, Handled
    <2>5. Result'
        BY <2>2 DEF Result
    <2> QED
        BY <2>2, <2>3, <2>4, <2>5 DEF BuildIInv
<1>8. CASE e[1] \in g.node /\ e \notin g.edge /\ at' = <<n, m + 1>>
           /\ g' = [g EXCEPT !.edge = @ \cup {e}] /\ err' = err
    <2>1. /\ g'.node = g.node /\ g'.edge = g.edge \cup {e}
          /\ Types'
        <3>1. e \in Stage \X Stage
            BY <1>1, <1>3, <1>8
        <3>2. /\ g'.node = g.node /\ g'.edge = g.edge \cup {e}
              /\ g' \in [node : SUBSET Stage, edge : SUBSET (Stage \X Stage)]
            BY <1>8, <3>1 DEF BuildIInv, Types
        <3> QED
            BY <1>1, <1>8, <1>6, <3>2 DEF BuildIInv, Types
    <2>2. Listed'
        BY <1>1, <1>8, <2>1 DEF BuildIInv, Listed, Vertices
    <2>3. \A i, j : Passed(i, j) => Edge(i, j) # e
        BY <1>3, <1>8 DEF BuildIInv, Handled
    <2>4. Handled'
        <3>1. \A i, j : Passed(i, j)' =>
                  IF Edge(i, j)'[1] \in Stage THEN Edge(i, j)' \in g'.edge
                  ELSE err'.kind = "duplicate" \/ Edge(i, j)' \in err'.edges
            BY <1>2, <1>3, <1>4, <1>5, <1>8, <2>1 DEF BuildIInv, Handled
        <3>2. \A d \in g'.edge \cup err'.edges : \E i, j : Passed(i, j)' /\ d = Edge(i, j)'
            BY <1>2, <1>4, <1>5, <1>8, <2>1 DEF BuildIInv, Handled
        <3>3. \A i, j, k : Passed(i, j)' /\ Passed(i, k)' /\ Edge(i, j)' = Edge(i, k)'
                              /\ Edge(i, j)'[1] \in Stage => j = k
            BY <1>2, <1>4, <1>5, <1>8, <2>3 DEF BuildIInv, Handled
        <3> QED
            BY <1>8, <3>1, <3>2, <3>3 DEF BuildIInv, Handled
    <2>5. Result'
        BY <1>1, <1>8 DEF Result, BuildIInv, Building
    <2> QED
        BY <2>1, <2>2, <2>4, <2>5 DEF BuildIInv
<1>9. CASE e \in g.edge /\ err' = [kind |-> "duplicate", edges |-> {}] /\ UNCHANGED <<at, g>>
    <2>1. PICK i, j : Passed(i, j) /\ e = Edge(i, j)
        BY <1>9 DEF BuildIInv, Handled
    <2>2. i = n
        BY <1>1, <2>1 DEF Passed, Edge, BuildIInv, Listed
    <2>3. j # m /\ j \in DOMAIN parents[v] /\ parents[v][j] = parents[v][m]
        BY <1>1, <2>1, <2>2, ParentPlaces DEF Passed, Edge, BuildIInv
    <2>4. parents[v][m] \in Stage
        BY <1>9 DEF BuildIInv, Types
    <2>5. Repeats'
        BY <1>1, <2>3, <2>4 DEF Repeats
    <2>6. Types' /\ Listed'
        BY <1>1, <1>9 DEF BuildIInv, Types, Listed, Vertices
    <2>7. \A k, l : Passed(k, l)' = Passed(k, l)
        BY <1>1, <1>9 DEF Passed
    <2>8. Handled'
        BY <1>4, <1>9, <2>7 DEF BuildIInv, Handled
    <2>9. Result'
        BY <1>9, <2>5 DEF Result
    <2> QED
        BY <2>6, <2>8, <2>9 DEF BuildIInv
<1> QED
    BY <1>7, <1>8, <1>9 DEF AddEdge

LEMMA NextVertexStep ==
    ASSUME BuildIInv, NextVertex
    PROVE  BuildIInv'
<1> DEFINE n == at[1]
<1>1. /\ n \in Nat \ {0} /\ n <= Len(slice) /\ at[2] \in Nat /\ at[2] > Len(parents[slice[n]])
      /\ at' = <<n + 1, 1>> /\ Building /\ Vertices /\ slice \in Seq(Stage)
      /\ UNCHANGED <<parents, g, slice, err>>
    BY DEF BuildIInv, Types, NextVertex
<1>2. \A i, j : Passed(i, j)' <=> Passed(i, j)
    <2>1. \A i \in DOMAIN slice : i \in Nat /\ slice[i] \in Stage
        BY <1>1
    <2>2. \A i \in DOMAIN slice : \A j \in DOMAIN parents[slice[i]] :
              j \in Nat /\ j >= 1 /\ j <= Len(parents[slice[i]])
        BY <2>1, ParentPlaces DEF BuildIInv
    <2>3. at'[1] = n + 1 /\ at'[2] = 1
        BY <1>1
    <2>4. ASSUME NEW i \in DOMAIN slice, NEW j \in DOMAIN parents[slice[i]]
          PROVE  (i < n + 1 \/ (i = n + 1 /\ j < 1)) <=> (i < n \/ (i = n /\ j < at[2]))
        BY <1>1, <2>1, <2>2
    <2> QED
        BY <1>1, <2>3, <2>4 DEF Passed
<1>3. \A i, j : Edge(i, j)' = Edge(i, j)
    BY <1>1 DEF Edge
<1>4. Types' /\ Listed' /\ Result'
    BY <1>1 DEF BuildIInv, Types, Listed, Result, Vertices, Building
<1>5. Handled'
    BY <1>1, <1>2, <1>3 DEF BuildIInv, Handled
<1> QED
    BY <1>4, <1>5 DEF BuildIInv

LEMMA BuiltStep ==
    ASSUME BuildIInv, Built
    PROVE  BuildIInv'
<1>1. /\ err.kind = "none" /\ Vertices /\ at[1] > Len(slice)
      /\ err' = [err EXCEPT !.kind = IF err.edges = {} THEN "nil" ELSE "missing"]
      /\ UNCHANGED <<parents, g, slice, at>>
    BY DEF Built, Building
<1>2. Types' /\ err'.edges = err.edges /\ err'.kind = IF err.edges = {} THEN "nil" ELSE "missing"
    BY <1>1 DEF BuildIInv, Types
<1>3. Listed' /\ Result'
    BY <1>1, <1>2 DEF BuildIInv, Listed, Result, Vertices
<1>4. \A i, j : Edge(i, j)' = Edge(i, j) /\ Passed(i, j)' = Passed(i, j)
    BY <1>1 DEF Edge, Passed
<1>5. Handled'
    BY <1>1, <1>2, <1>4 DEF BuildIInv, Handled
<1> QED
    BY <1>2, <1>3, <1>5 DEF BuildIInv

LEMMA BuildNextIInv == BuildIInv /\ [BuildNext]_buildVars => BuildIInv'
<1> SUFFICES ASSUME BuildIInv, [BuildNext]_buildVars PROVE BuildIInv'
    OBVIOUS
<1>1. ASSUME UNCHANGED <<parents, g, slice, at, err>> PROVE BuildIInv'
    <2>1. \A i, j : Edge(i, j)' = Edge(i, j) /\ Passed(i, j)' = Passed(i, j)
        BY <1>1 DEF Edge, Passed
    <2>2. Handled'
        BY <1>1, <2>1 DEF BuildIInv, Handled
    <2> QED
        BY <1>1, <2>2 DEF BuildIInv, Types, Listed, Result, Vertices, Building, Repeats
<1>2. ASSUME NEW v \in Stage, AddVertex(v) PROVE BuildIInv'
    BY <1>2, AddVertexStep
<1>3. CASE AddEdge \/ NextVertex \/ Built
    BY <1>3, AddEdgeStep, NextVertexStep, BuiltStep
<1>4. ASSUME NEW v \in Stage, NextKey(v) PROVE BuildIInv'
    BY <1>1, <1>4 DEF NextKey
<1>5. CASE Split \/ VisitVertex \/ Piece \/ UNCHANGED buildVars
    BY <1>1, <1>5 DEF Split, VisitVertex, Piece, buildVars
<1> QED
    BY <1>2, <1>3, <1>4, <1>5 DEF BuildNext

LEMMA BuildInvariance == BuildSpec => []BuildIInv
<1> QED
    BY BuildInitIInv, BuildNextIInv, PTL DEF BuildSpec

-----------------------------------------------------------------------------
\* For any template, whatever the order its stages come in: the graph has the
\* declared edges but those to unknown stages, all of which the error names,
\* unless a parent is declared twice (AddVertices).
THEOREM BuiltAsDeclaredCorrect == BuildSpec => []BuiltAsDeclared
<1>1. ASSUME BuildIInv PROVE BuiltAsDeclared
    <2>1. \A i, j : Passed(i, j) => Edge(i, j) \in Declared
        <3>1. \A i \in DOMAIN slice : slice[i] \in Stage
            BY <1>1 DEF BuildIInv, Types
        <3> QED
            BY <3>1 DEF Passed, Edge, Declared, ToSet
    <2>2. g.edge \subseteq Declared /\ err.edges \subseteq Declared
        BY <1>1, <2>1 DEF BuildIInv, Handled
    <2>3. ASSUME err.kind \in {"nil", "missing"}
          PROVE  Declared \ g.edge = err.edges /\ ~Repeats
        <3>1. \A v \in Stage : \E i \in DOMAIN slice : slice[i] = v
            BY <1>1, <2>3 DEF BuildIInv, Result, Vertices, ToSet
        <3>2. \A i \in DOMAIN slice : \A j \in DOMAIN parents[slice[i]] : Passed(i, j)
            BY <1>1, <2>3 DEF BuildIInv, Types, Result, Passed
        <3>3. \A e \in Declared : \E i, j : Passed(i, j) /\ e = Edge(i, j)
            BY <3>1, <3>2 DEF Declared, ToSet, Edge
        <3>4. \A e \in Declared : IF e[1] \in Stage THEN e \in g.edge ELSE e \in err.edges
            BY <1>1, <2>3, <3>3 DEF BuildIInv, Handled
        <3>5. \A e \in g.edge : e[1] \in Stage
            BY <1>1 DEF BuildIInv, Types
        <3>6. Declared \ g.edge = err.edges
            BY <1>1, <2>2, <3>4, <3>5 DEF BuildIInv, Handled
        <3>7. ASSUME Repeats PROVE FALSE
            <4>1. PICK v \in Stage : \E i, j \in DOMAIN parents[v] :
                      i # j /\ parents[v][i] = parents[v][j] /\ parents[v][i] \in Stage
                BY <3>7 DEF Repeats
            <4>2. PICK k \in DOMAIN slice : slice[k] = v
                BY <3>1
            <4> QED
                BY <1>1, <3>2, <4>1, <4>2 DEF BuildIInv, Handled, Edge
        <3> QED
            BY <3>6, <3>7
    <2> QED
        BY <1>1, <2>2, <2>3 DEF BuildIInv, Result, BuiltAsDeclared
<1> QED
    BY <1>1, BuildInvariance, PTL

-----------------------------------------------------------------------------
(***************************************************************************)
(* SplitEdges and Split.  A part is what no edge leaves: the lemmas on     *)
(* PartOf hold of every graph, and are used of the template's and of each  *)
(* piece.                                                                  *)
(***************************************************************************)
\* Split has not been called, or had no vertex to visit.
NotSplit ==
    /\ split.keys = {} /\ split.stack = <<>> /\ split.edges = {} /\ split.pieces = <<>>

\* The vertices of the parts that SplitEdges has been through.
Finished == Stage \ (split.keys \cup ToSet(split.stack))

\* The stack has each vertex once; those read have their neighbours on it.
Stacked ==
    /\ \A i, j \in DOMAIN split.stack : split.stack[i] = split.stack[j] => i = j
    /\ \A i \in DOMAIN split.stack :
         IF i < split.at
         THEN split.stack[i] \notin split.keys
              /\ UndirectedNeighbors(split.stack[i]) \subseteq ToSet(split.stack)
         ELSE split.stack[i] \in split.keys

\* The edges kept are one less than the vertices on the stack, and join them.
Joins ==
    /\ split.edges \subseteq g.edge \cap (ToSet(split.stack) \X ToSet(split.stack))
    /\ Cardinality(split.edges) = Len(split.stack) - 1
    /\ \A S \in SUBSET Stage :
         split.stack[1] \in S /\ (\A e \in split.edges : e[1] \in S <=> e[2] \in S)
           => ToSet(split.stack) \subseteq S

FinishedParts == {PartOf(g, v) : v \in Finished}

\* A finished part has a piece that spans it, and no other piece has its vertices.
PieceOfEach ==
    \A p \in FinishedParts : Cardinality(p) > 1 =>
      \E i \in DOMAIN split.pieces :
        /\ Spans(split.pieces[i], p)
        /\ \A j \in DOMAIN split.pieces : split.pieces[j].node = p => j = i

\* A vertex on its own has a copy of the graph.
CopyOfEach ==
    Cardinality({i \in DOMAIN split.pieces : split.pieces[i] = g})
      >= Cardinality({v \in Finished : Isolated(v)})

\* The parts that are finished have their pieces.
PiecesMade ==
    /\ Finished \in Separate(g)
    /\ Len(split.pieces) = Cardinality(FinishedParts)
    /\ \A i \in DOMAIN split.pieces : split.pieces[i].node \in FinishedParts \cup {Stage}
    /\ PieceOfEach /\ CopyOfEach

SplitTypes ==
    /\ split \in [keys : SUBSET Stage, stack : Seq(Stage), at : Nat \ {0},
                  edges : SUBSET (Stage \X Stage),
                  pieces : Seq([node : SUBSET Stage, edge : SUBSET (Stage \X Stage)])]

SplitIInv ==
    /\ SplitTypes
    /\ NotSplit \/ /\ ~Building /\ Stacked /\ PiecesMade
                   /\ split.stack # <<>> => Joins


LEMMA PartFacts ==
    ASSUME NEW G, \A e \in G.edge : e[1] \in G.node /\ e[2] \in G.node
    PROVE  /\ \A v \in G.node : v \in PartOf(G, v) /\ PartOf(G, v) \in Separate(G)
           /\ \A v \in G.node : \A S \in Separate(G) : v \in S => PartOf(G, v) \subseteq S
           /\ \A v \in G.node : \A w \in PartOf(G, v) : PartOf(G, w) = PartOf(G, v)
<1>1. \A v \in G.node : v \in PartOf(G, v)
    BY DEF PartOf
<1>2. \A v \in G.node : \A S \in Separate(G) : v \in S => PartOf(G, v) \subseteq S
    BY DEF PartOf
<1>3. ASSUME NEW v \in G.node PROVE PartOf(G, v) \in Separate(G)
    <2>1. PartOf(G, v) \in SUBSET G.node
        BY DEF PartOf
    <2>2. ASSUME NEW e \in G.edge PROVE e[1] \in PartOf(G, v) <=> e[2] \in PartOf(G, v)
        <3>1. e[1] \in G.node /\ e[2] \in G.node
            OBVIOUS
        <3>2. \A S \in Separate(G) : e[1] \in S <=> e[2] \in S
            BY DEF Separate
        <3> QED
            BY <3>1, <3>2 DEF PartOf
    <2> QED
        BY <2>1, <2>2 DEF Separate
<1>4. ASSUME NEW S \in Separate(G) PROVE G.node \ S \in Separate(G)
    BY DEF Separate
<1>5. ASSUME NEW v \in G.node, NEW w \in PartOf(G, v)
      PROVE  PartOf(G, w) = PartOf(G, v)
    <2>1. w \in G.node
        BY DEF PartOf
    <2>2. PartOf(G, w) \subseteq PartOf(G, v)
        BY <1>2, <1>3, <2>1
    <2>3. v \in PartOf(G, w)
        <3> SUFFICES ASSUME v \notin PartOf(G, w) PROVE FALSE
            OBVIOUS
        <3>1. G.node \ PartOf(G, w) \in Separate(G)
            BY <1>3, <1>4, <2>1
        <3>2. PartOf(G, v) \subseteq G.node \ PartOf(G, w)
            BY <1>2, <3>1
        <3> QED
            BY <1>1, <2>1, <3>2
    <2>4. PartOf(G, v) \subseteq PartOf(G, w)
        BY <1>2, <1>3, <2>1, <2>3
    <2> QED
        BY <2>2, <2>4
<1> QED
    BY <1>1, <1>2, <1>3, <1>5

\* The graph as AddVertices leaves it, its parts and its neighbours.
LEMMA GraphStands ==
    ASSUME BuildIInv, ~Building
    PROVE  /\ g.node = Stage /\ g.edge \subseteq Stage \X Stage /\ IsFiniteSet(Stage)
           /\ \A e \in g.edge : e[1] \in Stage /\ e[2] \in Stage
           /\ g = [node |-> g.node, edge |-> g.edge]
<1>1. g.node = Stage
    BY DEF BuildIInv, Listed, Vertices
<1>2. /\ g.edge \subseteq Stage \X Stage
      /\ g = [node |-> g.node, edge |-> g.edge]
    BY DEF BuildIInv, Types
<1>3. \A e \in g.edge : e[1] \in Stage /\ e[2] \in Stage
    BY <1>2
<1> QED
    BY <1>1, <1>2, <1>3, GraphBounds

LEMMA StageParts ==
    ASSUME BuildIInv, ~Building
    PROVE  /\ \A v \in Stage : v \in PartOf(g, v) /\ PartOf(g, v) \in Separate(g)
           /\ \A v \in Stage : \A S \in Separate(g) : v \in S => PartOf(g, v) \subseteq S
           /\ \A v \in Stage : \A w \in PartOf(g, v) : PartOf(g, w) = PartOf(g, v)
           /\ Separate(g) = {S \in SUBSET Stage : \A e \in g.edge : e[1] \in S <=> e[2] \in S}
           /\ \A v : PartOf(g, v) \subseteq Stage
<1>1. g.node = Stage /\ \A e \in g.edge : e[1] \in g.node /\ e[2] \in g.node
    BY GraphStands
<1>2. \A v : PartOf(g, v) \subseteq Stage
    BY <1>1 DEF PartOf
<1>3. Separate(g) = {S \in SUBSET Stage : \A e \in g.edge : e[1] \in S <=> e[2] \in S}
    BY <1>1 DEF Separate
<1> QED
    BY <1>1, <1>2, <1>3, PartFacts, Zenon

LEMMA Neighbors ==
    ASSUME BuildIInv, ~Building
    PROVE  /\ \A v \in Stage : UndirectedNeighbors(v) =
                 {w \in Stage : <<v, w>> \in g.edge \/ <<w, v>> \in g.edge}
           /\ \A v \in Stage : \A w \in UndirectedNeighbors(v) :
                 /\ NeighborEdge(v, w) \in g.edge
                 /\ NeighborEdge(v, w) \in {<<v, w>>, <<w, v>>}
           /\ \A S \in Separate(g) : \A v \in S : UndirectedNeighbors(v) \subseteq S
           /\ \A S \in SUBSET Stage :
                (\A v \in S : UndirectedNeighbors(v) \subseteq S) => S \in Separate(g)
<1>1. g.node = Stage /\ g.edge \subseteq Stage \X Stage
    BY GraphStands
<1>2. \A v \in Stage : UndirectedNeighbors(v) =
                 {w \in Stage : <<v, w>> \in g.edge \/ <<w, v>> \in g.edge}
    BY <1>1 DEF UndirectedNeighbors, Successors, Predecessors
<1>3. ASSUME NEW v \in Stage, NEW w \in UndirectedNeighbors(v)
      PROVE  /\ NeighborEdge(v, w) \in g.edge
             /\ NeighborEdge(v, w) \in {<<v, w>>, <<w, v>>}
    BY <1>1, <1>2 DEF NeighborEdge, Predecessors
<1>4. ASSUME NEW S \in Separate(g), NEW v \in S PROVE UndirectedNeighbors(v) \subseteq S
    <2>1. v \in Stage /\ S \subseteq Stage /\ \A e \in g.edge : e[1] \in S <=> e[2] \in S
        BY <1>1 DEF Separate
    <2>2. ASSUME NEW w \in UndirectedNeighbors(v) PROVE w \in S
        <3>1. CASE <<v, w>> \in g.edge
            <4>1. <<v, w>>[1] = v /\ <<v, w>>[2] = w
                OBVIOUS
            <4> QED
                BY <2>1, <3>1, <4>1
        <3>2. CASE <<w, v>> \in g.edge
            <4>1. <<w, v>>[1] = w /\ <<w, v>>[2] = v
                OBVIOUS
            <4> QED
                BY <2>1, <3>2, <4>1
        <3> QED
            BY <1>2, <2>1, <3>1, <3>2
    <2> QED
        BY <2>2
<1>5. ASSUME NEW S \in SUBSET Stage, \A v \in S : UndirectedNeighbors(v) \subseteq S
      PROVE  S \in Separate(g)
    <2>1. ASSUME NEW e \in g.edge PROVE e[1] \in S <=> e[2] \in S
        <3>1. e[1] \in Stage /\ e[2] \in Stage /\ e = <<e[1], e[2]>>
            BY <1>1
        <3>2. e[2] \in UndirectedNeighbors(e[1]) /\ e[1] \in UndirectedNeighbors(e[2])
            BY <1>2, <3>1
        <3> QED
            BY <1>5, <3>2
    <2> QED
        BY <1>1, <2>1 DEF Separate
<1> QED
    BY <1>2, <1>3, <1>4, <1>5

LEMMA OrderFacts ==
    ASSUME NEW S, IsFiniteSet(S), NEW order \in SetToSeqs(S)
    PROVE  /\ order \in Seq(S) /\ Len(order) = Cardinality(S) /\ ToSet(order) = S
           /\ Cardinality(S) \in Nat
           /\ \A i, j \in 1..Len(order) : order[i] = order[j] => i = j
<1>1. PICK n : n = Cardinality(S) /\ n \in Nat
    BY FS_CardinalityType
<1>2. order \in [1..n -> S] /\ \A i, j \in 1..n : i # j => order[i] # order[j]
    BY <1>1 DEF SetToSeqs
<1>3. order \in Seq(S) /\ Len(order) = n
    BY <1>1, <1>2
<1>4. order \in Injection(1..n, S)
    BY <1>2 DEF Injection, IsInjective
<1>5. Cardinality(1..n) = n
    BY <1>1, FS_Interval
<1>6. order \in Surjection(1..n, S)
    BY <1>1, <1>4, <1>5, FS_Injection
<1>7. ToSet(order) = S
    BY <1>2, <1>6 DEF Surjection, ToSet
<1> QED
    BY <1>1, <1>2, <1>3, <1>7

LEMMA AppendOrder ==
    ASSUME NEW S, NEW s \in Seq(S), NEW t \in Seq(S), NEW r, r = s \o t
    PROVE  /\ r \in Seq(S) /\ Len(r) = Len(s) + Len(t)
           /\ Len(s) \in Nat /\ Len(t) \in Nat
           /\ DOMAIN s = 1..Len(s) /\ DOMAIN t = 1..Len(t) /\ DOMAIN r = 1..(Len(s) + Len(t))
           /\ \A i \in 1..Len(s) : r[i] = s[i]
           /\ \A i \in 1..Len(t) : r[Len(s) + i] = t[i]
           /\ \A i \in 1..(Len(s) + Len(t)) : i > Len(s) => i - Len(s) \in 1..Len(t)
                                              /\ r[i] = t[i - Len(s)]
<1>1. PICK m, n : m = Len(s) /\ n = Len(t)
    OBVIOUS
<1>2. /\ m \in Nat /\ n \in Nat /\ r \in Seq(S) /\ Len(r) = m + n
      /\ \A i \in 1..(m + n) : r[i] = IF i <= m THEN s[i] ELSE t[i - m]
    BY <1>1, ConcatProperties
<1>3. DOMAIN s = 1..m /\ DOMAIN t = 1..n /\ DOMAIN r = 1..(m + n)
    BY <1>1, <1>2
<1>4. \A i \in 1..m : i \in 1..(m + n) /\ r[i] = s[i]
    BY <1>2
<1>5. ASSUME NEW i \in 1..n PROVE m + i \in 1..(m + n) /\ r[m + i] = t[i]
    <2>1. m + i \in 1..(m + n) /\ ~(m + i <= m) /\ (m + i) - m = i
        BY <1>2
    <2> QED
        BY <1>2, <2>1
<1>6. \A i \in 1..(m + n) : i > m => i - m \in 1..n /\ r[i] = t[i - m]
    BY <1>2
<1> QED
    BY <1>1, <1>2, <1>3, <1>4, <1>5, <1>6

LEMMA ToSetConcat ==
    ASSUME NEW S, NEW s \in Seq(S), NEW t \in Seq(S)
    PROVE  ToSet(s \o t) = ToSet(s) \cup ToSet(t)
<1>1. Len(s) \in Nat /\ Len(t) \in Nat
    OBVIOUS
<1>2. PICK m, n : m = Len(s) /\ n = Len(t) /\ m \in Nat /\ n \in Nat
    BY <1>1
<1>3. PICK r : r = s \o t
    OBVIOUS
<1>4. DOMAIN s = 1..m /\ DOMAIN t = 1..n /\ DOMAIN r = 1..(m + n)
    BY <1>2, <1>3, AppendOrder
<1>5. /\ \A i \in 1..m : i \in 1..(m + n) /\ r[i] = s[i]
      /\ \A i \in 1..n : m + i \in 1..(m + n) /\ r[m + i] = t[i]
      /\ \A i \in 1..(m + n) : i > m => i - m \in 1..n /\ r[i] = t[i - m]
    BY <1>2, <1>3, AppendOrder
<1>6. \A i \in 1..(m + n) : i \in 1..m \/ i > m
    BY <1>2
<1>7. ToSet(r) = ToSet(s) \cup ToSet(t)
    <2>1. ASSUME NEW e \in ToSet(r) PROVE e \in ToSet(s) \cup ToSet(t)
        <3>1. PICK i \in 1..(m + n) : e = r[i]
            BY <1>4 DEF ToSet
        <3> QED
            BY <1>4, <1>5, <1>6, <3>1 DEF ToSet
    <2>2. ASSUME NEW e \in ToSet(s) PROVE e \in ToSet(r)
        BY <1>4, <1>5 DEF ToSet
    <2>3. ASSUME NEW e \in ToSet(t) PROVE e \in ToSet(r)
        <3>1. PICK i \in 1..n : e = t[i]
            BY <1>4 DEF ToSet
        <3>2. PICK j : j = m + i /\ j \in 1..(m + n) /\ r[j] = e
            BY <1>5, <3>1
        <3> QED
            BY <1>4, <3>2, Zenon DEF ToSet
    <2> QED
        BY <2>1, <2>2, <2>3
<1> QED
    BY <1>3, <1>7

\* What is finished stays so while a part is walked.
LEMMA PiecesStay ==
    ASSUME PiecesMade, UNCHANGED g, Finished' = Finished, split'.pieces = split.pieces
    PROVE  PiecesMade'
<1>1. Separate(g)' = Separate(g) /\ \A v : PartOf(g, v)' = PartOf(g, v)
    BY DEF Separate, PartOf
<1>2. FinishedParts' = FinishedParts
    BY <1>1, Zenon DEF FinishedParts
<1>3. \A G, p : Spans(G, p)' = Spans(G, p)
    BY DEF Spans, PartOf, Separate
<1>4. \A v : Isolated(v)' = Isolated(v)
    BY DEF Isolated, UndirectedNeighbors, Successors, Predecessors
<1>5. {v \in Finished : Isolated(v)}' = {v \in Finished : Isolated(v)}
    BY <1>4, Zenon
<1> QED
    <2>1. PieceOfEach'
        BY <1>2, <1>3 DEF PiecesMade, PieceOfEach
    <2>2. {i \in DOMAIN split.pieces : split.pieces[i] = g}' =
              {i \in DOMAIN split.pieces : split.pieces[i] = g}
        OBVIOUS
    <2>3. CopyOfEach'
        BY <1>5, <2>2, Zenon DEF PiecesMade, CopyOfEach
    <2> QED
        BY <1>1, <1>2, <2>1, <2>3 DEF PiecesMade

LEMMA SplitStarts ==
    ASSUME BuildIInv, SplitIInv, Split
    PROVE  SplitIInv'
<1>1. /\ ~Building /\ split.keys = {} /\ split.stack = <<>> /\ split.pieces = <<>>
      /\ split' = [split EXCEPT !.keys = g.node] /\ UNCHANGED <<g, err>> /\ SplitTypes
      /\ g.node = Stage
    BY GraphStands DEF Split, SplitIInv
<1>2. /\ SplitTypes' /\ split'.keys = Stage /\ split'.stack = <<>> /\ split'.pieces = <<>>
      /\ ~Building'
    BY <1>1 DEF SplitTypes, Building
<1>3. DOMAIN split'.stack = {} /\ DOMAIN split'.pieces = {} /\ ToSet(split'.stack) = {}
    BY <1>2 DEF ToSet
<1>4. Stacked'
    BY <1>3 DEF Stacked
<1>5. Finished' = {}
    BY <1>2, <1>3 DEF Finished
<1>6. FinishedParts' = {} /\ {v \in Finished : Isolated(v)}' = {}
    BY <1>5 DEF FinishedParts
<1>7. {i \in DOMAIN split.pieces : split.pieces[i] = g}' = {}
    BY <1>3
<1>8. Finished' \in Separate(g)'
    BY <1>1, <1>5 DEF Separate
<1>9. Len(split'.pieces) = 0 /\ Cardinality({}) = 0
    BY <1>2, FS_EmptySet
<1>10. PiecesMade'
    <2>1. PieceOfEach'
        BY <1>6 DEF PieceOfEach
    <2>2. CopyOfEach'
        <3>1. /\ Cardinality({i \in DOMAIN split.pieces : split.pieces[i] = g})' = 0
              /\ Cardinality({v \in Finished : Isolated(v)})' = 0
            BY <1>6, <1>7, <1>9, Zenon
        <3> QED
            BY <3>1 DEF CopyOfEach
    <2> QED
        BY <1>3, <1>6, <1>8, <1>9, <2>1, <2>2 DEF PiecesMade
<1> QED
    BY <1>2, <1>4, <1>10 DEF SplitIInv

LEMMA NextKeyStep ==
    ASSUME BuildIInv, SplitIInv, NEW v \in Stage, NextKey(v)
    PROVE  SplitIInv'
<1>1. /\ v \in split.keys /\ split.stack = <<>> /\ UNCHANGED <<g, err>> /\ SplitTypes
      /\ split' = [split EXCEPT !.stack = <<v>>, !.at = 1, !.edges = {}]
      /\ ~Building /\ PiecesMade
    BY DEF NextKey, SplitIInv, NotSplit
<1>2. /\ SplitTypes' /\ split'.keys = split.keys /\ split'.stack = <<v>> /\ split'.at = 1
      /\ split'.edges = {} /\ split'.pieces = split.pieces /\ ~Building'
    <2>1. <<v>> \in Seq(Stage)
        OBVIOUS
    <2>2. {} \in SUBSET (Stage \X Stage) /\ 1 \in Nat \ {0}
        OBVIOUS
    <2> QED
        BY <1>1, <2>1, <2>2 DEF SplitTypes, Building
<1>3. /\ DOMAIN split'.stack = {1} /\ split'.stack[1] = v /\ Len(split'.stack) = 1
    BY <1>2
<1>4. ToSet(split'.stack) = {v} /\ ToSet(split.stack) = {}
    BY <1>1, <1>3 DEF ToSet
<1>5. Stacked'
    BY <1>1, <1>2, <1>3 DEF Stacked
<1>6. Finished' = Finished
    BY <1>1, <1>2, <1>4 DEF Finished
<1>7. PiecesMade'
    BY <1>1, <1>2, <1>6, PiecesStay
<1>8. Joins'
    <2>1. Cardinality(split'.edges) = Len(split'.stack) - 1
        BY <1>2, <1>3, FS_EmptySet
    <2> QED
        BY <1>2, <1>3, <1>4, <2>1 DEF Joins
<1> QED
    BY <1>2, <1>5, <1>7, <1>8 DEF SplitIInv

\* The neighbours of the vertex read that are new: none of them is finished.
LEMMA NewNeighbors ==
    ASSUME BuildIInv, SplitIInv, split.at <= Len(split.stack)
    PROVE  LET v == split.stack[split.at]
               new == UndirectedNeighbors(v) \ ToSet(split.stack)
           IN  /\ v \in split.keys /\ v \in ToSet(split.stack) /\ v \in Stage
               /\ new \subseteq split.keys /\ IsFiniteSet(new)
               /\ split.stack # <<>> /\ ~Building /\ split.at \in DOMAIN split.stack
<1> DEFINE v == split.stack[split.at]
           new == UndirectedNeighbors(v) \ ToSet(split.stack)
<1>1. split.stack \in Seq(Stage) /\ split.at \in Nat \ {0} /\ split.keys \subseteq Stage
    BY DEF SplitIInv, SplitTypes
<1>2. split.at \in DOMAIN split.stack /\ split.stack # <<>>
    BY <1>1
<1>3. ~Building /\ Stacked /\ PiecesMade
    BY <1>2 DEF SplitIInv, NotSplit
<1>4. v \in Stage /\ v \in ToSet(split.stack)
    BY <1>1, <1>2 DEF ToSet
<1>5. v \in split.keys
    BY <1>1, <1>2, <1>3 DEF Stacked
<1>6. new \subseteq Stage
    <2>1. UndirectedNeighbors(v) = {w \in Stage : <<v, w>> \in g.edge \/ <<w, v>> \in g.edge}
        BY <1>3, <1>4, Neighbors, Zenon
    <2> QED
        BY <2>1
<1>7. ASSUME NEW w \in new PROVE w \in split.keys
    <2> SUFFICES ASSUME w \in Finished PROVE FALSE
        BY <1>6 DEF Finished
    <2>1. v \in UndirectedNeighbors(w) /\ w \in Stage
        <3>1. PICK u : u = v /\ u \in Stage /\ w \in UndirectedNeighbors(u) /\ w \in Stage
            BY <1>4, <1>6
        <3>2. /\ UndirectedNeighbors(u) = {x \in Stage : <<u, x>> \in g.edge \/ <<x, u>> \in g.edge}
              /\ UndirectedNeighbors(w) = {x \in Stage : <<w, x>> \in g.edge \/ <<x, w>> \in g.edge}
            BY <1>3, <3>1, Neighbors, Zenon
        <3> QED
            BY <3>1, <3>2
    <2>2. v \in Finished
        BY <1>3, <2>1, Neighbors DEF PiecesMade
    <2> QED
        BY <1>4, <2>2 DEF Finished
<1>8. IsFiniteSet(new)
    BY <1>6, GraphBounds, FS_Subset
<1> QED
    BY <1>2, <1>3, <1>4, <1>5, <1>7, <1>8

LEMMA VisitVertexStep ==
    ASSUME BuildIInv, SplitIInv, VisitVertex
    PROVE  SplitIInv'
<1>1. PICK v, new : /\ v = split.stack[split.at]
                    /\ new = UndirectedNeighbors(v) \ ToSet(split.stack)
    OBVIOUS
<1>2. split.at <= Len(split.stack) /\ UNCHANGED <<g, err>>
    BY DEF VisitVertex
<1>3. /\ v \in split.keys /\ v \in ToSet(split.stack) /\ v \in Stage
      /\ new \subseteq split.keys /\ IsFiniteSet(new)
      /\ split.stack # <<>> /\ ~Building /\ split.at \in DOMAIN split.stack
    BY <1>1, <1>2, NewNeighbors
<1> DEFINE u == split.stack[split.at]
           fresh == (IF u \in split.keys THEN UndirectedNeighbors(u) ELSE {})
                      \ ToSet(split.stack)
<1>4. PICK order \in SetToSeqs(fresh) :
         split' = [split EXCEPT !.stack = @ \o order, !.at = @ + 1, !.keys = @ \ {u},
                                !.edges = @ \cup {NeighborEdge(u, n) : n \in fresh}]
    BY Zenon DEF VisitVertex
<1>5. u = v /\ fresh = new
    BY <1>1, <1>3
<1> HIDE DEF u, fresh
<1>6. order \in SetToSeqs(new)
    BY <1>5
<1>7. {NeighborEdge(u, n) : n \in fresh} = {NeighborEdge(v, n) : n \in new}
    BY <1>5
<1>8. PICK s, E : s = split.stack /\ E = {NeighborEdge(v, n) : n \in new}
    OBVIOUS
<1>9. split' = [split EXCEPT !.stack = @ \o order, !.at = @ + 1, !.keys = @ \ {v},
                             !.edges = @ \cup E]
    BY <1>8, <1>4, <1>5, <1>7
<1>10. /\ SplitTypes /\ Stacked /\ PiecesMade /\ Joins
       /\ s \in Seq(Stage) /\ split.keys \subseteq Stage /\ split.at \in Nat \ {0}
       /\ split.edges \subseteq Stage \X Stage
    BY <1>3, <1>8 DEF SplitIInv, NotSplit, SplitTypes
<1>11. /\ order \in Seq(Stage) /\ Len(order) = Cardinality(new) /\ ToSet(order) = new
       /\ \A i, j \in 1..Len(order) : order[i] = order[j] => i = j
       /\ Len(order) \in Nat
    <2>1. order \in Seq(new) /\ new \subseteq Stage
        BY <1>3, <1>10, <1>6, OrderFacts
    <2>2. order \in Seq(Stage)
        BY <2>1
    <2> QED
        BY <1>3, <1>6, <2>2, OrderFacts
<1>12. /\ E \subseteq g.edge /\ E \subseteq Stage \X Stage
       /\ \A e \in E : \E n \in new : e \in {<<v, n>>, <<n, v>>}
       /\ \A n \in new : NeighborEdge(v, n) \in E
    BY <1>1, <1>3, <1>8, Neighbors, GraphStands
<1>13. /\ split'.stack = s \o order /\ split'.at = split.at + 1
       /\ split'.keys = split.keys \ {v}
       /\ split'.edges = split.edges \cup E /\ split'.pieces = split.pieces
    BY <1>9, <1>8, <1>10 DEF SplitTypes
<1>14. PICK t : t = s \o order /\ t = split'.stack
    BY <1>13
<1>15. /\ t \in Seq(Stage) /\ Len(t) = Len(s) + Len(order)
       /\ Len(s) \in Nat /\ Len(order) \in Nat
       /\ DOMAIN s = 1..Len(s) /\ DOMAIN t = 1..(Len(s) + Len(order))
       /\ \A i \in 1..Len(s) : t[i] = s[i]
       /\ \A i \in 1..(Len(s) + Len(order)) : i > Len(s) => i - Len(s) \in 1..Len(order)
                                              /\ t[i] = order[i - Len(s)]
       /\ ToSet(t) = ToSet(s) \cup new
    <2>1. t = s \o order /\ s \in Seq(Stage) /\ order \in Seq(Stage) /\ ToSet(order) = new
        BY <1>10, <1>11, <1>14
    <2>2. ToSet(t) = ToSet(s) \cup ToSet(order)
        <3>1. s \in Seq(Stage) /\ order \in Seq(Stage)
            BY <2>1
        <3>2. ToSet(s \o order) = ToSet(s) \cup ToSet(order)
            BY <3>1, ToSetConcat, ZenonT(30)
        <3> QED
            BY <2>1, <3>2
    <2>3. Len(t) = Len(s) + Len(order) /\ DOMAIN t = 1..(Len(s) + Len(order))
        BY <2>1, AppendOrder
    <2>4. /\ \A i \in 1..Len(s) : t[i] = s[i]
          /\ \A i \in 1..(Len(s) + Len(order)) : i > Len(s) => i - Len(s) \in 1..Len(order)
                                              /\ t[i] = order[i - Len(s)]
        BY <2>1, AppendOrder
    <2> QED
        BY <2>1, <2>2, <2>3, <2>4
<1>16. SplitTypes' /\ ~Building'
    <2>1. /\ t \in Seq(Stage) /\ split.at + 1 \in Nat \ {0}
          /\ split.edges \cup E \subseteq Stage \X Stage
        BY <1>10, <1>12, <1>15
    <2>2. SplitTypes'
        BY <1>9, <1>8, <1>10, <1>14, <2>1 DEF SplitTypes
    <2> QED
        BY <1>2, <1>3, <2>2 DEF Building
<1>17. new \cap ToSet(s) = {}
    BY <1>1, <1>8
<1>18. Finished' = Finished
    BY <1>3, <1>8, <1>13, <1>14, <1>15 DEF Finished
<1>19. PiecesMade'
    BY <1>2, <1>10, <1>13, <1>18, PiecesStay
<1>20. \A i \in DOMAIN t : \/ i \in DOMAIN s /\ t[i] = s[i]
                           \/ /\ i \notin DOMAIN s /\ i > Len(s) /\ i - Len(s) \in 1..Len(order)
                              /\ t[i] = order[i - Len(s)] /\ t[i] \in new
    <2>1. \A i \in 1..Len(order) : order[i] \in new
        BY <1>11 DEF ToSet
    <2> QED
        BY <1>15, <2>1
<1>21. \A i \in DOMAIN s : s[i] \in ToSet(s)
    BY DEF ToSet
<1>22. Stacked'
    <2>1. ASSUME NEW i \in DOMAIN t, NEW j \in DOMAIN t, t[i] = t[j] PROVE i = j
        <3>1. CASE i \in DOMAIN s /\ j \in DOMAIN s
            BY <1>8, <1>10, <1>20, <2>1, <3>1 DEF Stacked
        <3>2. CASE i \notin DOMAIN s /\ j \notin DOMAIN s
            <4>1. i - Len(s) = j - Len(s)
                BY <1>11, <1>20, <2>1, <3>2
            <4> QED
                BY <1>15, <4>1
        <3>3. CASE i \in DOMAIN s /\ j \notin DOMAIN s
            BY <1>17, <1>20, <1>21, <2>1, <3>3
        <3>4. CASE i \notin DOMAIN s /\ j \in DOMAIN s
            BY <1>17, <1>20, <1>21, <2>1, <3>4
        <3> QED
            BY <3>1, <3>2, <3>3, <3>4
    <2>2. ASSUME NEW i \in DOMAIN t
          PROVE  IF i < split.at + 1
                 THEN t[i] \notin split.keys \ {v} /\ UndirectedNeighbors(t[i]) \subseteq ToSet(t)
                 ELSE t[i] \in split.keys \ {v}
        <3>1. CASE i \in DOMAIN s /\ i < split.at
            BY <1>8, <1>10, <1>15, <1>20, <3>1 DEF Stacked
        <3>2. CASE i = split.at
            <4>1. t[i] = v
                BY <1>1, <1>3, <1>8, <1>15, <3>2
            <4> QED
                BY <1>1, <1>8, <1>10, <1>15, <3>2, <4>1
        <3>3. CASE i \in DOMAIN s /\ i > split.at
            <4>1. s[i] # v
                BY <1>1, <1>3, <1>8, <1>10, <3>3 DEF Stacked
            <4>2. s[i] \in split.keys /\ ~(i < split.at + 1)
                BY <1>8, <1>10, <1>15, <3>3 DEF Stacked
            <4> QED
                BY <1>15, <3>3, <4>1, <4>2
        <3>4. CASE i \notin DOMAIN s
            <4>1. t[i] \in split.keys /\ t[i] # v
                BY <1>3, <1>8, <1>17, <1>20, <3>4
            <4>2. ~(i < split.at + 1)
                BY <1>2, <1>8, <1>10, <1>15, <1>20, <3>4
            <4> QED
                BY <4>1, <4>2
        <3> QED
            BY <1>10, <1>15, <1>20, <3>1, <3>2, <3>3, <3>4
    <2>3. \A w : UndirectedNeighbors(w)' = UndirectedNeighbors(w)
        BY <1>2 DEF UndirectedNeighbors, Successors, Predecessors
    <2> QED
        BY <1>13, <1>14, <2>1, <2>2, <2>3 DEF Stacked
<1>23. Joins'
    <2>1. split.edges \cup E \subseteq g.edge \cap (ToSet(t) \X ToSet(t))
        BY <1>3, <1>8, <1>10, <1>12, <1>15 DEF Joins
    <2>2. IsFiniteSet(E) /\ Cardinality(E) = Cardinality(new)
        <3> DEFINE f == [n \in new |-> NeighborEdge(v, n)]
        <3>1. f \in [new -> E] /\ \A e \in E : \E n \in new : f[n] = e
            BY <1>8
        <3>2. ASSUME NEW m \in new, NEW n \in new, f[m] = f[n] PROVE m = n
            <4>1. /\ NeighborEdge(v, m) \in {<<v, m>>, <<m, v>>}
                  /\ NeighborEdge(v, n) \in {<<v, n>>, <<n, v>>}
                BY <1>1, <1>3, Neighbors
            <4>2. NeighborEdge(v, m) = NeighborEdge(v, n)
                BY <3>2
            <4>3. m # v /\ n # v
                BY <1>3, <1>8, <1>17
            <4> QED
                BY <4>1, <4>2, <4>3
        <3>3. ExistsBijection(new, E)
            BY <3>1, <3>2 DEF ExistsBijection, Bijection, Injection, Surjection, IsInjective
        <3> QED
            BY <1>3, <3>3, FS_Bijection
    <2>3. split.edges \cap E = {}
        BY <1>3, <1>8, <1>10, <1>12, <1>17 DEF Joins
    <2>4. IsFiniteSet(split.edges)
        <3>1. IsFiniteSet(Stage \X Stage)
            BY GraphBounds, FS_Product
        <3> QED
            BY <1>10, <3>1, FS_Subset
    <2>5. Cardinality(split.edges \cup E) = Len(t) - 1
        <3>1. /\ Cardinality(split.edges \cup E) =
                   Cardinality(split.edges) + Cardinality(E) - Cardinality(split.edges \cap E)
              /\ Cardinality(split.edges \cap E) = 0
            BY <2>2, <2>3, <2>4, FS_Union, FS_EmptySet
        <3>2. Cardinality(split.edges) = Len(s) - 1
            BY <1>8, <1>10 DEF Joins
        <3>3. Len(t) = Len(s) + Len(order) /\ Cardinality(E) = Len(order)
            BY <1>11, <1>15, <2>2
        <3> QED
            BY <1>15, <3>1, <3>2, <3>3
    <2>6. ASSUME NEW S \in SUBSET Stage, t[1] \in S,
                 \A e \in split.edges \cup E : e[1] \in S <=> e[2] \in S
          PROVE  ToSet(t) \subseteq S
        <3>1. s[1] \in S
            BY <1>3, <1>8, <1>15, <2>6
        <3>2. ToSet(s) \subseteq S
            BY <1>8, <1>10, <2>6, <3>1 DEF Joins
        <3>3. ASSUME NEW n \in new PROVE n \in S
            <4>1. v \in S
                BY <1>3, <1>8, <3>2
            <4>2. PICK e \in E : e \in {<<v, n>>, <<n, v>>}
                BY <1>1, <1>3, <1>8, Neighbors
            <4>3. (e[1] = v /\ e[2] = n) \/ (e[1] = n /\ e[2] = v)
                BY <4>2
            <4> QED
                BY <2>6, <4>1, <4>2, <4>3
        <3> QED
            BY <1>15, <3>2, <3>3
    <2> QED
        BY <1>2, <1>13, <1>14, <2>1, <2>5, <2>6 DEF Joins
<1> QED
    BY <1>16, <1>19, <1>22, <1>23 DEF SplitIInv

\* When the stack is read to its end it is a part, and the piece spans it.
LEMMA PartWalked ==
    ASSUME BuildIInv, SplitIInv, split.stack # <<>>, split.at > Len(split.stack)
    PROVE  LET T == ToSet(split.stack)
           IN  /\ split.stack[1] \in T /\ T \subseteq Stage /\ ~Building /\ PiecesMade /\ Joins
               /\ T \in Separate(g) /\ \A v \in T : PartOf(g, v) = T
               /\ T \cap split.keys = {} /\ T \cap Finished = {}
               /\ IsFiniteSet(T) /\ Cardinality(T) = Len(split.stack)
               /\ Cardinality(T) \in Nat \ {0}
<1>1. PICK s, n, T, r : s = split.stack /\ n = Len(s) /\ T = ToSet(s) /\ r = s[1]
    OBVIOUS
<1>2. /\ s \in Seq(Stage) /\ s # <<>> /\ split.at \in Nat /\ split.at > n
      /\ ~Building /\ Stacked /\ PiecesMade /\ Joins
    BY <1>1 DEF SplitIInv, NotSplit, SplitTypes
<1>3. n \in Nat \ {0} /\ DOMAIN s = 1..n /\ 1 \in 1..n /\ \A i \in 1..n : i < split.at
    BY <1>1, <1>2
<1>4. T \subseteq Stage /\ r \in T
    BY <1>1, <1>2, <1>3 DEF ToSet
<1>5. /\ \A i, j \in 1..n : s[i] = s[j] => i = j
      /\ \A i \in 1..n : s[i] \notin split.keys /\ UndirectedNeighbors(s[i]) \subseteq T
    BY <1>1, <1>2, <1>3 DEF Stacked
<1>6. T \cap split.keys = {} /\ \A v \in T : UndirectedNeighbors(v) \subseteq T
    <2>1. ASSUME NEW v \in T PROVE v \notin split.keys /\ UndirectedNeighbors(v) \subseteq T
        <3>1. PICK i \in 1..n : v = s[i]
            BY <1>1, <1>3 DEF ToSet
        <3> QED
            BY <1>5, <3>1
    <2> QED
        BY <2>1
<1>7. T \in Separate(g)
    BY <1>2, <1>4, <1>6, Neighbors
<1>8. PartOf(g, r) = T
    <2>1. r \in Stage /\ PartOf(g, r) \subseteq Stage /\ r \in PartOf(g, r)
        BY <1>2, <1>4, StageParts
    <2>2. PartOf(g, r) \subseteq T
        BY <1>2, <1>4, <1>7, <2>1, StageParts, Zenon
    <2>3. PartOf(g, r) \in Separate(g)
        BY <1>2, <2>1, StageParts
    <2>4. \A e \in split.edges : e[1] \in PartOf(g, r) <=> e[2] \in PartOf(g, r)
        <3>1. split.edges \subseteq g.edge
            BY <1>2 DEF Joins
        <3> QED
            BY <2>3, <3>1 DEF Separate
    <2>5. T \subseteq PartOf(g, r)
        BY <1>1, <1>2, <2>1, <2>4 DEF Joins
    <2> QED
        BY <2>2, <2>5
<1>9. ASSUME NEW v \in T PROVE PartOf(g, v) = T
    <2>1. v \in PartOf(g, r) /\ r \in Stage
        BY <1>4, <1>8
    <2> QED
        BY <1>2, <1>8, <2>1, StageParts, Zenon
<1>10. IsFiniteSet(T) /\ Cardinality(T) = n
    <2>1. s \in [1..n -> T] /\ \A v \in T : \E i \in 1..n : s[i] = v
        BY <1>1, <1>2, <1>3 DEF ToSet
    <2>2. ExistsBijection(1..n, T)
        BY <1>5, <2>1 DEF ExistsBijection, Bijection, Injection, Surjection, IsInjective
    <2>3. IsFiniteSet(1..n) /\ Cardinality(1..n) = n
        BY <1>3, FS_Interval
    <2> QED
        BY <2>2, <2>3, FS_Bijection
<1>11. T \cap Finished = {}
    BY <1>1 DEF Finished
<1> QED
    BY <1>1, <1>2, <1>3, <1>4, <1>6, <1>7, <1>9, <1>10, <1>11

\* CloneFromEdge of the edges kept: the graph for a vertex on its own, else a tree.
LEMMA PieceFacts ==
    ASSUME BuildIInv, SplitIInv, split.stack # <<>>, split.at > Len(split.stack),
           NEW T, T = ToSet(split.stack), NEW piece, piece = CloneFromEdge(split.edges)
    PROVE  /\ piece \in [node : SUBSET Stage, edge : SUBSET (Stage \X Stage)]
           /\ piece.node \in {T, Stage}
           /\ Cardinality(T) = 1 => piece = g /\ T = {split.stack[1]}
           /\ Cardinality(T) > 1 => Spans(piece, T) /\ \A v \in T : ~Isolated(v)
<1>1. PICK s, r, E : s = split.stack /\ T = ToSet(s) /\ r = s[1] /\ E = split.edges
    OBVIOUS
<1>2. /\ r \in T /\ T \subseteq Stage /\ ~Building /\ Joins
      /\ \A v \in T : PartOf(g, v) = T
      /\ IsFiniteSet(T) /\ Cardinality(T) = Len(s) /\ Cardinality(T) \in Nat \ {0}
    BY <1>1, PartWalked
<1>3. /\ E \subseteq g.edge /\ E \subseteq T \X T /\ E \subseteq Stage \X Stage
      /\ Cardinality(E) = Cardinality(T) - 1
      /\ g.node = Stage /\ g.edge \subseteq Stage \X Stage
      /\ g \in [node : SUBSET Stage, edge : SUBSET (Stage \X Stage)]
    BY <1>1, <1>2, GraphStands DEF Joins, BuildIInv, Types
<1>4. ASSUME NEW S \in SUBSET Stage, r \in S, \A e \in E : e[1] \in S <=> e[2] \in S
      PROVE  T \subseteq S
    BY <1>1, <1>2, <1>4 DEF Joins
<1>5. IsFiniteSet(E)
    <2>1. IsFiniteSet(Stage \X Stage)
        BY GraphBounds, FS_Product
    <2> QED
        BY <1>3, <2>1, FS_Subset
<1>6. CASE Cardinality(T) = 1
    <2>1. Cardinality(E) = 0
        BY <1>3, <1>6
    <2>2. E = {}
        BY <1>5, <2>1, FS_EmptySet
    <2>3. CloneFromEdge(E) = g
        BY <2>2 DEF CloneFromEdge
    <2>4. PICK x : T = {x}
        BY <1>2, <1>6, FS_Singleton
    <2>5. T = {r}
        BY <1>2, <2>4
    <2> QED
        BY <1>1, <1>3, <1>6, <2>3, <2>5
<1>7. CASE Cardinality(T) > 1
    <2>1. E # {}
        <3> SUFFICES ASSUME E = {} PROVE FALSE
            OBVIOUS
        <3>1. Cardinality(E) = 0
            BY FS_EmptySet
        <3> QED
            BY <1>2, <1>3, <1>7, <3>1
    <2>2. PICK N : N = UNION {{e[1], e[2]} : e \in E}
        OBVIOUS
    <2>3. CloneFromEdge(E) = [node |-> N, edge |-> E]
        BY <2>1, <2>2 DEF CloneFromEdge
    <2>4. \A e \in E : e[1] \in T /\ e[2] \in T /\ e[1] \in N /\ e[2] \in N
        BY <1>3, <2>2
    <2>5. N \subseteq T
        BY <2>2, <2>4
    <2>6. N = T
        <3>1. CASE r \in N
            <4>1. N \in SUBSET Stage /\ \A e \in E : e[1] \in N <=> e[2] \in N
                BY <1>2, <2>4, <2>5
            <4>2. T \subseteq N
                BY <1>4, <3>1, <4>1
            <4> QED
                BY <2>5, <4>2
        <3>2. CASE r \notin N
            <4>1. {r} \in SUBSET Stage /\ \A e \in E : e[1] \in {r} <=> e[2] \in {r}
                BY <1>2, <2>4, <3>2
            <4>2. T \subseteq {r}
                BY <1>4, <4>1
            <4>3. T = {r}
                BY <1>2, <4>2
            <4>4. Cardinality(T) = 1
                BY <4>3, FS_Singleton
            <4> QED
                BY <1>7, <4>4
        <3> QED
            BY <3>1, <3>2
    <2>7. PICK G : G = [node |-> T, edge |-> E]
        OBVIOUS
    <2>8. G.node = T /\ G.edge = E
        BY <2>7
    <2>9. \A e \in G.edge : e[1] \in G.node /\ e[2] \in G.node
        BY <2>4, <2>7, <2>8
    <2>10. PartOf(G, r) = T
        <3>1. PartOf(G, r) \in Separate(G) /\ r \in PartOf(G, r)
            BY <1>2, <2>7, <2>8, <2>9, PartFacts
        <3>2. /\ PartOf(G, r) \in SUBSET T
              /\ \A e \in E : e[1] \in PartOf(G, r) <=> e[2] \in PartOf(G, r)
            BY <2>7, <2>8, <3>1 DEF Separate
        <3>3. T \subseteq PartOf(G, r)
            BY <1>2, <1>4, <3>1, <3>2
        <3> QED
            BY <3>2, <3>3
    <2>11. \A v \in T : PartOf(G, v) = T
        <3>1. r \in G.node /\ \A v \in T : v \in PartOf(G, r)
            BY <1>2, <2>7, <2>8, <2>10
        <3>2. ASSUME NEW v \in T PROVE PartOf(G, v) = PartOf(G, r)
            BY <2>9, <3>1, PartFacts, Zenon
        <3> QED
            BY <2>10, <3>2
    <2>12. Spans(G, T)
        BY <1>3, <2>7, <2>8, <2>11 DEF Spans
    <2>13. ASSUME NEW v \in T, Isolated(v) PROVE FALSE
        <3>1. {v} \in SUBSET Stage /\ \A w \in {v} : UndirectedNeighbors(w) \subseteq {v}
            BY <1>2, <2>13 DEF Isolated
        <3>2. {v} \in Separate(g) /\ v \in {v} /\ v \in Stage
            BY <1>2, <3>1, Neighbors
        <3>3. PartOf(g, v) \subseteq {v}
            BY <1>2, <3>2, StageParts, Zenon
        <3>4. T = {v}
            BY <1>2, <3>3
        <3>5. Cardinality(T) = 1
            BY <3>4, FS_Singleton
        <3> QED
            BY <1>7, <3>5
    <2>14. G \in [node : SUBSET Stage, edge : SUBSET (Stage \X Stage)]
        BY <1>2, <1>3, <2>7, <2>8
    <2>15. CloneFromEdge(E) = G
        BY <2>3, <2>6, <2>7, <2>8
    <2>16. Cardinality(T) # 1
        BY <1>7
    <2> QED
        BY <1>1, <2>12, <2>13, <2>14, <2>15, <2>8, <2>16
<1>8. Cardinality(T) = 1 \/ Cardinality(T) > 1
    BY <1>2
<1> QED
    BY <1>6, <1>7, <1>8

LEMMA PieceStep ==
    ASSUME BuildIInv, SplitIInv, Piece
    PROVE  SplitIInv'
<1>1. PICK s, T, r, P, n, piece :
          /\ s = split.stack /\ T = ToSet(s) /\ r = s[1]
          /\ P = split.pieces /\ n = Len(P) /\ piece = CloneFromEdge(split.edges)
    OBVIOUS
<1>2. /\ s # <<>> /\ split.at > Len(s) /\ UNCHANGED <<g, err>>
      /\ split' = [split EXCEPT !.stack = <<>>, !.pieces = Append(@, piece)]
    BY <1>1 DEF Piece
<1>3. /\ r \in T /\ T \subseteq Stage /\ ~Building /\ PiecesMade
      /\ T \in Separate(g) /\ \A v \in T : PartOf(g, v) = T
      /\ T \cap split.keys = {} /\ T \cap Finished = {}
      /\ IsFiniteSet(T) /\ Cardinality(T) \in Nat \ {0}
    BY <1>1, <1>2, PartWalked
<1>4. /\ piece \in [node : SUBSET Stage, edge : SUBSET (Stage \X Stage)]
      /\ piece.node \in {T, Stage}
      /\ Cardinality(T) = 1 => piece = g /\ T = {r}
      /\ Cardinality(T) > 1 => Spans(piece, T) /\ \A v \in T : ~Isolated(v)
    BY <1>1, <1>2, PieceFacts
<1>5. /\ SplitTypes /\ P \in Seq([node : SUBSET Stage, edge : SUBSET (Stage \X Stage)])
      /\ n \in Nat /\ DOMAIN P = 1..n
    BY <1>1 DEF SplitIInv, SplitTypes
<1>6. PICK Q : Q = Append(P, piece) /\ Q = split'.pieces
    BY <1>1, <1>2, <1>5 DEF SplitTypes
<1>7. /\ Q \in Seq([node : SUBSET Stage, edge : SUBSET (Stage \X Stage)])
      /\ Len(Q) = n + 1 /\ DOMAIN Q = 1..(n + 1) /\ Q[n + 1] = piece
      /\ \A i \in 1..n : Q[i] = P[i] /\ i \in 1..(n + 1) /\ i # n + 1
      /\ \A i \in 1..(n + 1) : i \in 1..n \/ i = n + 1
      /\ n + 1 \in 1..(n + 1)
    <2>1. PICK R : /\ R = [node : SUBSET Stage, edge : SUBSET (Stage \X Stage)]
                   /\ P \in Seq(R) /\ piece \in R
        BY <1>4, <1>5
    <2>2. /\ Q \in Seq(R) /\ Len(Q) = n + 1 /\ Q[n + 1] = piece
          /\ \A i \in 1..n : Q[i] = P[i]
        <3>1. /\ Append(P, piece) \in Seq(R) /\ Len(Append(P, piece)) = Len(P) + 1
              /\ Append(P, piece)[Len(P) + 1] = piece
              /\ \A i \in 1..Len(P) : Append(P, piece)[i] = P[i]
            <4>1. P \in Seq(R) /\ piece \in R
                BY <2>1
            <4> QED
                BY <4>1
        <3> QED
            BY <1>1, <1>6, <3>1, Zenon
    <2>3. DOMAIN Q = 1..(n + 1)
        BY <2>2
    <2>4. /\ \A i \in 1..n : i \in 1..(n + 1) /\ i # n + 1
          /\ \A i \in 1..(n + 1) : i \in 1..n \/ i = n + 1
          /\ n + 1 \in 1..(n + 1)
        BY <1>5
    <2> QED
        BY <2>1, <2>2, <2>3, <2>4
<1>8. /\ SplitTypes' /\ split'.keys = split.keys /\ split'.stack = <<>> /\ ~Building'
    <2>1. PICK R : R = Seq([node : SUBSET Stage, edge : SUBSET (Stage \X Stage)]) /\ Q \in R
        BY <1>7
    <2>2. split' = [split EXCEPT !.stack = <<>>, !.pieces = Q] /\ <<>> \in Seq(Stage)
        BY <1>1, <1>2, <1>6
    <2>3. split \in [keys : SUBSET Stage, stack : Seq(Stage), at : Nat \ {0},
                    edges : SUBSET (Stage \X Stage), pieces : R]
        BY <1>5, <2>1 DEF SplitTypes
    <2>4. /\ split' \in [keys : SUBSET Stage, stack : Seq(Stage), at : Nat \ {0},
                        edges : SUBSET (Stage \X Stage), pieces : R]
          /\ split'.keys = split.keys /\ split'.stack = <<>>
        BY <2>1, <2>2, <2>3
    <2>5. SplitTypes'
        BY <2>1, <2>4 DEF SplitTypes
    <2> QED
        BY <1>2, <1>3, <2>4, <2>5 DEF Building
<1>9. DOMAIN split'.stack = {} /\ ToSet(split'.stack) = {}
    BY <1>8 DEF ToSet
<1>10. Stacked'
    BY <1>9 DEF Stacked
<1>11. Finished' = Finished \cup T
    BY <1>1, <1>3, <1>8, <1>9 DEF Finished
<1>12. /\ Separate(g)' = Separate(g) /\ \A v : PartOf(g, v)' = PartOf(g, v)
       /\ \A v : Isolated(v)' = Isolated(v)
       /\ \A G, p : Spans(G, p)' = Spans(G, p)
    BY <1>2 DEF Separate, PartOf, Isolated, UndirectedNeighbors, Successors, Predecessors, Spans
<1>13. Finished' \in Separate(g)'
    <2>1. Finished \in Separate(g)
        BY <1>3 DEF PiecesMade
    <2> QED
        BY <1>3, <1>11, <1>12, <2>1 DEF Separate
<1>14. FinishedParts' = FinishedParts \cup {T}
    <2>1. FinishedParts' = {PartOf(g, v) : v \in Finished \cup T}
        BY <1>11, <1>12, Zenon DEF FinishedParts
    <2> QED
        BY <1>3, <2>1 DEF FinishedParts
<1>15. ASSUME NEW q \in FinishedParts PROVE q \subseteq Finished /\ r \notin q
    <2>1. PICK v \in Finished : q = PartOf(g, v)
        BY DEF FinishedParts
    <2>2. v \in Stage /\ Finished \in Separate(g)
        BY <1>3 DEF Finished, PiecesMade
    <2>3. PartOf(g, v) \subseteq Finished
        BY <1>3, <2>2, StageParts, Zenon
    <2> QED
        BY <1>3, <2>1, <2>3
<1>16. T \notin FinishedParts
    BY <1>3, <1>15
<1>17. Len(Q) = Cardinality(FinishedParts')
    <2>1. FinishedParts \subseteq SUBSET Stage
        BY <1>3, StageParts DEF FinishedParts
    <2>2. IsFiniteSet(FinishedParts)
        <3>1. IsFiniteSet(SUBSET Stage)
            BY GraphBounds, FS_SUBSET
        <3> QED
            BY <2>1, <3>1, FS_Subset
    <2>3. Cardinality(FinishedParts \cup {T}) = Cardinality(FinishedParts) + 1
        BY <1>16, <2>2, FS_AddElement
    <2>4. n = Cardinality(FinishedParts)
        BY <1>1, <1>3 DEF PiecesMade
    <2> QED
        BY <1>7, <1>14, <2>3, <2>4
<1>18. \A i \in 1..n : P[i].node \in FinishedParts \cup {Stage}
    BY <1>1, <1>3, <1>5 DEF PiecesMade
<1>19. \A i \in 1..(n + 1) : Q[i].node \in FinishedParts' \cup {Stage}
    BY <1>4, <1>7, <1>14, <1>18
<1>20. PieceOfEach'
    <2>1. ASSUME NEW q \in FinishedParts', Cardinality(q) > 1
          PROVE  \E i \in 1..(n + 1) :
                     Spans(Q[i], q) /\ \A j \in 1..(n + 1) : Q[j].node = q => j = i
        <3>1. CASE q \in FinishedParts
            <4>1. PICK i \in 1..n : Spans(P[i], q) /\ \A j \in 1..n : P[j].node = q => j = i
                BY <1>1, <1>3, <1>5, <2>1, <3>1 DEF PiecesMade, PieceOfEach
            <4>2. piece.node # q
                BY <1>3, <1>4, <1>15, <3>1
            <4> QED
                BY <1>7, <4>1, <4>2
        <3>2. CASE q = T
            <4>1. Spans(Q[n + 1], q)
                BY <1>4, <1>7, <2>1, <3>2
            <4>2. ASSUME NEW j \in 1..n, P[j].node = T PROVE FALSE
                <5>1. T = Stage
                    BY <1>16, <1>18, <4>2
                <5>2. Finished = {}
                    BY <1>3, <5>1 DEF Finished
                <5>3. FinishedParts = {}
                    BY <5>2 DEF FinishedParts
                <5>4. n = 0
                    BY <1>1, <1>3, <5>3, FS_EmptySet DEF PiecesMade
                <5> QED
                    BY <5>4
            <4> QED
                BY <1>7, <3>2, <4>1, <4>2
        <3> QED
            BY <1>14, <2>1, <3>1, <3>2
    <2> QED
        BY <1>6, <1>7, <1>12, <2>1 DEF PieceOfEach
<1>21. CopyOfEach'
    <2>1. PICK A, B, C, D :
              /\ A = {i \in 1..n : P[i] = g} /\ B = {v \in Finished : Isolated(v)}
              /\ C = {i \in 1..(n + 1) : Q[i] = g} /\ D = {v \in Finished \cup T : Isolated(v)}
        OBVIOUS
    <2>2. Cardinality(A) >= Cardinality(B)
        <3>1. {i \in DOMAIN split.pieces : split.pieces[i] = g} = A
            BY <1>1, <1>5, <2>1
        <3> QED
            BY <1>3, <2>1, <3>1 DEF PiecesMade, CopyOfEach
    <2>3. /\ IsFiniteSet(A) /\ Cardinality(A) \in Nat
          /\ IsFiniteSet(C) /\ Cardinality(C) \in Nat
          /\ IsFiniteSet(B) /\ Cardinality(B) \in Nat
        <3>1. IsFiniteSet(1..n) /\ IsFiniteSet(1..(n + 1))
            BY <1>5, FS_Interval
        <3>2. A \subseteq 1..n /\ C \subseteq 1..(n + 1) /\ B \subseteq Stage
            BY <2>1 DEF Finished
        <3>3. IsFiniteSet(A) /\ IsFiniteSet(C) /\ IsFiniteSet(B)
            BY <3>1, <3>2, GraphBounds, FS_Subset
        <3> QED
            BY <3>3, FS_CardinalityType
    <2>4. A \subseteq C /\ Cardinality(A) <= Cardinality(C)
        <3>1. A \subseteq C
            BY <1>7, <2>1
        <3> QED
            BY <2>3, <3>1, FS_Subset
    <2>5. Cardinality(C) >= Cardinality(D)
        <3>1. CASE Cardinality(T) = 1
            <4>1. C = A \cup {n + 1} /\ n + 1 \notin A
                BY <1>4, <1>7, <2>1, <3>1
            <4>2. Cardinality(C) = Cardinality(A) + 1
                BY <2>3, <4>1, FS_AddElement
            <4>3. D \subseteq B \cup {r}
                BY <1>4, <2>1, <3>1
            <4>4. /\ IsFiniteSet(B \cup {r}) /\ Cardinality(B \cup {r}) <= Cardinality(B) + 1
                  /\ Cardinality(B \cup {r}) \in Nat
                <5>1. /\ IsFiniteSet(B \cup {r})
                      /\ Cardinality(B \cup {r}) =
                            IF r \in B THEN Cardinality(B) ELSE Cardinality(B) + 1
                    BY <2>3, FS_AddElement
                <5> QED
                    BY <2>3, <5>1
            <4>5. Cardinality(D) <= Cardinality(B \cup {r}) /\ Cardinality(D) \in Nat
                BY <4>3, <4>4, FS_Subset, FS_CardinalityType
            <4> QED
                BY <2>2, <2>3, <4>2, <4>4, <4>5
        <3>2. CASE Cardinality(T) > 1
            <4>1. D = B
                BY <1>4, <2>1, <3>2
            <4> QED
                BY <2>2, <2>3, <2>4, <4>1
        <3> QED
            BY <1>3, <3>1, <3>2
    <2>6. {i \in DOMAIN split.pieces : split.pieces[i] = g}' = C
        BY <1>2, <1>6, <1>7, <2>1
    <2>7. {v \in Finished : Isolated(v)}' = D
        BY <1>11, <1>12, <2>1, Zenon
    <2>8. Cardinality({i \in DOMAIN split.pieces : split.pieces[i] = g})' = Cardinality(C)
        BY <2>6, Zenon
    <2>9. Cardinality({v \in Finished : Isolated(v)})' = Cardinality(D)
        BY <2>7, Zenon
    <2> QED
        BY <2>5, <2>8, <2>9 DEF CopyOfEach
<1>22. PiecesMade'
    BY <1>6, <1>7, <1>13, <1>17, <1>19, <1>20, <1>21 DEF PiecesMade
<1> QED
    BY <1>8, <1>10, <1>22 DEF SplitIInv

LEMMA SplitInit == BuildInit => SplitIInv
<1> SUFFICES ASSUME BuildInit PROVE SplitIInv
    OBVIOUS
<1>1. <<>> \in Seq(Stage) /\ <<>> \in Seq([node : SUBSET Stage, edge : SUBSET (Stage \X Stage)])
    OBVIOUS
<1>2. SplitTypes /\ NotSplit
    BY <1>1 DEF BuildInit, SplitTypes, NotSplit
<1> QED
    BY <1>2 DEF SplitIInv

LEMMA SplitNext == BuildIInv /\ SplitIInv /\ [BuildNext]_buildVars => SplitIInv'
<1> SUFFICES ASSUME BuildIInv, SplitIInv, [BuildNext]_buildVars PROVE SplitIInv'
    OBVIOUS
<1>1. ASSUME Building, UNCHANGED split PROVE SplitIInv'
    <2>1. SplitTypes' /\ NotSplit'
        BY <1>1 DEF SplitIInv, SplitTypes, NotSplit
    <2> QED
        BY <2>1 DEF SplitIInv
<1>2. CASE AddEdge \/ NextVertex \/ Built \/ \E v \in Stage : AddVertex(v)
    BY <1>1, <1>2 DEF AddEdge, NextVertex, Built, AddVertex
<1>3. ASSUME NEW v \in Stage, NextKey(v) PROVE SplitIInv'
    BY <1>3, NextKeyStep
<1>4. CASE Split \/ VisitVertex \/ Piece
    BY <1>4, SplitStarts, VisitVertexStep, PieceStep
<1>5. CASE UNCHANGED buildVars
    <2>1. UNCHANGED <<g, err, split>>
        BY <1>5 DEF buildVars
    <2>2. SplitTypes' /\ NotSplit' = NotSplit /\ Stacked' = Stacked /\ Joins' = Joins
        BY <2>1 DEF SplitIInv, SplitTypes, NotSplit, Stacked, Joins, UndirectedNeighbors,
                    Successors, Predecessors
    <2>3. Finished' = Finished /\ Building' = Building
        BY <2>1 DEF Finished, Building
    <2>4. PiecesMade => PiecesMade'
        BY <2>1, <2>3, PiecesStay
    <2> QED
        BY <2>1, <2>2, <2>3, <2>4 DEF SplitIInv
<1> QED
    BY <1>2, <1>3, <1>4, <1>5 DEF BuildNext

\* For any template, any graph that comes of it and every order of the maps: Split
\* makes as many graphs as there are connected parts, exactly one of them spans a
\* part of two or more vertices, and a vertex on its own has a copy of the whole
\* graph (SplitEdges, CloneFromEdge).
THEOREM SplitCoversCorrect == BuildSpec => []SplitCovers
<1>1. ASSUME BuildIInv, SplitIInv PROVE SplitCovers
    <2> SUFFICES ASSUME SplitDone PROVE SplitCovers
        BY DEF SplitCovers
    <2>1. split.keys = {} /\ split.stack = <<>> /\ PiecesMade
        BY <1>1 DEF SplitDone, SplitIInv, NotSplit
    <2>2. ToSet(split.stack) = {}
        BY <2>1 DEF ToSet
    <2>3. Finished = Stage
        BY <2>1, <2>2 DEF Finished
    <2>4. FinishedParts = {PartOf(g, v) : v \in Stage}
        BY <2>3, Zenon DEF FinishedParts
    <2>5. ASSUME NEW p \in FinishedParts, Cardinality(p) > 1
          PROVE  Cardinality({i \in DOMAIN split.pieces : Spans(split.pieces[i], p)}) = 1
        <3>1. PICK i \in DOMAIN split.pieces :
                  /\ Spans(split.pieces[i], p)
                  /\ \A j \in DOMAIN split.pieces : split.pieces[j].node = p => j = i
            BY <2>1, <2>5 DEF PiecesMade, PieceOfEach
        <3>2. {j \in DOMAIN split.pieces : Spans(split.pieces[j], p)} = {i}
            BY <3>1 DEF Spans
        <3> QED
            BY <3>2, FS_Singleton
    <2>6. Cardinality({i \in DOMAIN split.pieces : split.pieces[i] = g})
            >= Cardinality({v \in Stage : Isolated(v)})
        BY <2>1, <2>3 DEF PiecesMade, CopyOfEach
    <2>7. Len(split.pieces) = Cardinality(FinishedParts)
        BY <2>1 DEF PiecesMade
    <2> QED
        BY <2>4, <2>5, <2>6, <2>7 DEF SplitCovers
<1>2. BuildSpec => []SplitIInv
    <2>1. BuildIInv /\ SplitIInv /\ [BuildNext]_buildVars => SplitIInv'
        BY SplitNext
    <2> QED
        BY <2>1, SplitInit, BuildInvariance, PTL DEF BuildSpec
<1> QED
    BY <1>1, <1>2, BuildInvariance, PTL

-----------------------------------------------------------------------------
(***************************************************************************)
(* Piping and starting, over graphs in graphs.                             *)
(***************************************************************************)
LEMMA GraphFacts ==
    /\ Leaf \subseteq Vertex /\ Sub \subseteq Vertex /\ Leaf \cap Sub = {}
    /\ Sub \subseteq Graph /\ Root \in Graph /\ Root \notin Vertex /\ Root \notin Sub
    /\ Vertex = Leaf \cup Sub /\ Graph = Sub \cup {Root}
    /\ \A v \in Vertex : Home[v] \in Graph /\ Preds[v] \subseteq Members(Home[v])
    /\ \A v \in Vertex : \A gr : v \in Members(gr) <=> Home[v] = gr
    /\ \A gr : Members(gr) \subseteq Vertex
    /\ \A v \in Vertex : Preds[v] \subseteq Vertex
BY GraphsAreNested DEF Vertex, Graph, Members

\* The outputs a first call of Output makes, one nesting level at a time.
LEMMA ExitsLeast ==
    ASSUME NEW p \in Vertex
    PROVE  /\ Exits[p] \subseteq Vertex
           /\ \A u \in Exits[p] \cup {p} : Childless(u) \subseteq Exits[p]
           /\ \A S \in SUBSET Vertex :
                  (\A u \in S \cup {p} : Childless(u) \subseteq S) => Exits[p] \subseteq S
<1> DEFINE Closed == {S \in SUBSET Vertex : \A u \in S \cup {p} : Childless(u) \subseteq S}
<1>1. Exits[p] = {w \in Vertex : \A S \in Closed : w \in S}
    BY DEF Exits
<1>2. \A u : Childless(u) \subseteq Vertex
    BY DEF Childless, Members
<1> QED
    BY <1>1, <1>2

LEMMA ExitsLevels ==
    ASSUME NEW p \in Vertex
    PROVE  Exits[p] = {w \in Vertex : Children(w) = {} /\ Home[w] \in Exits[p] \cup {p}}
<1> DEFINE T == {w \in Vertex : Children(w) = {} /\ Home[w] \in Exits[p] \cup {p}}
<1>1. T \subseteq Exits[p]
    BY ExitsLeast DEF Childless, Members
<1>2. \A u \in T \cup {p} : Childless(u) \subseteq T
    BY <1>1 DEF Childless, Members
<1>3. T \in SUBSET Vertex
    OBVIOUS
<1>4. Exits[p] \subseteq T
    <2> HIDE DEF T
    <2> QED
        BY <1>2, <1>3, ExitsLeast
<1> QED
    BY <1>1, <1>4

-----------------------------------------------------------------------------
(***************************************************************************)
(* The inductive invariant: the state of the nested loops says which       *)
(* vertices were visited, and those are wired and run, no others.          *)
(***************************************************************************)
Initializing == {v \in Leaf : pc[v] = "init"}
Counted      == wg = Cardinality(Initializing)

NotRun(v) == IF v \in Leaf THEN pc[v] = "off" ELSE phase[v] = "idle"

ToRun(v) == \/ phase[Home[v]] \in {"idle", "piping"}
            \/ phase[Home[v]] = "start" /\ v \in left[Home[v]]

IsPiped(v) == \/ phase[Home[v]] \in {"start", "done"}
              \/ phase[Home[v]] = "piping" /\ v \notin left[Home[v]]

\* Run was called on the vertices the loops have visited.
Walked ==
    /\ phase[Root] # "idle"
    /\ \A v \in Vertex : NotRun(v) <=> ToRun(v)
    /\ \A s \in Sub : phase[Home[s]] = "done" => phase[s] = "done"

\* SetInput was called on the vertices the loops of piping have visited.
WiredSoFar ==
    /\ hasIn = {Root} \cup {s \in Sub : IsPiped(s)}
    /\ fed = {e \in Vertex \X Vertex : e[1] \in Preds[e[2]] /\ IsPiped(e[2])}
    /\ entries = {v \in Vertex : Preds[v] = {} /\ IsPiped(v)}
    /\ exits = {w \in Vertex : Home[w] \in Sub /\ Children(w) = {} /\ HasOut(Home[w])}

\* The barrier opens when RunTemplate's call of Run has returned.
Gate ==
    /\ open => phase[Root] = "done" /\ \A v \in Leaf : pc[v] # "init"
    /\ \A v \in Leaf : pc[v] = "go" => open

IInv == TypeOK /\ Counted /\ Walked /\ WiredSoFar /\ Gate

-----------------------------------------------------------------------------
LEMMA CountedFacts ==
    ASSUME TypeOK, Counted
    PROVE  /\ IsFiniteSet(Initializing) /\ Cardinality(Initializing) \in Nat
           /\ wg = 0 => \A v \in Leaf : pc[v] # "init"
           /\ \A v \in Leaf : pc[v] = "init" => wg - 1 \in Nat
<1>1. IsFiniteSet(Initializing) /\ Cardinality(Initializing) \in Nat
    BY GraphsAreNested, FS_Subset, FS_CardinalityType DEF Initializing
<1>2. wg = 0 => Initializing = {}
    BY <1>1, FS_EmptySet DEF Counted
<1> QED
    BY <1>1, <1>2 DEF Counted, Initializing

LEMMA NextType ==
    ASSUME IInv, [Next]_vars
    PROVE  TypeOK'
<1> USE GraphFacts DEF IInv, TypeOK, main, wire, sync, ends, vars
<1>1. ASSUME NEW gr \in Graph, Piped(gr) \/ Started(gr) PROVE TypeOK'
    BY <1>1 DEF Piped, Started
<1>2. ASSUME NEW v \in Vertex, Pipe(Home[v], v) PROVE TypeOK'
    <2>1. UNION {Exits[p] : p \in Preds[v]} \subseteq Vertex
        BY ExitsLeast
    <2>2. left' \in [Graph -> SUBSET Vertex]
        BY <1>2 DEF Pipe
    <2> QED
        BY <1>2, <2>1, <2>2 DEF Pipe, SetInput
<1>3. ASSUME NEW v \in Vertex, RunLeaf(Home[v], v) PROVE TypeOK'
    BY <1>3 DEF RunLeaf
<1>4. ASSUME NEW v \in Vertex, RunSub(Home[v], v) PROVE TypeOK'
    BY <1>4 DEF RunSub
<1>5. CASE Synchronize
    BY <1>5 DEF Synchronize
<1>6. ASSUME NEW v \in Leaf, Initialized(v) PROVE TypeOK'
    BY <1>6, CountedFacts DEF Initialized
<1>7. ASSUME NEW v \in Leaf, PassBarrier(v) PROVE TypeOK'
    BY <1>7 DEF PassBarrier
<1>8. ASSUME NEW v \in Vertex, EndOutput(v) PROVE TypeOK'
    BY <1>8 DEF EndOutput
<1>9. ASSUME NEW s \in Sub, EndInput(s) PROVE TypeOK'
    BY <1>9 DEF EndInput
<1>10. CASE UNCHANGED vars
    BY <1>10
<1> QED
    BY <1>1, <1>2, <1>3, <1>4, <1>5, <1>6, <1>7, <1>8, <1>9, <1>10
    DEF Next, RunTemplate, Thread, Done

LEMMA NextCounted ==
    ASSUME IInv, [Next]_vars
    PROVE  Counted'
<1> USE DEF main, wire, sync, ends, vars
<1>0. /\ IsFiniteSet(Initializing) /\ Cardinality(Initializing) \in Nat
      /\ wg = Cardinality(Initializing) /\ pc \in [Leaf -> {"off", "init", "barrier", "go"}]
    BY CountedFacts DEF IInv, TypeOK, Counted
<1>1. ASSUME wg' = wg, pc' = pc PROVE Counted'
    BY <1>0, <1>1 DEF Counted, Initializing
<1>2. ASSUME NEW v \in Vertex, RunLeaf(Home[v], v) PROVE Counted'
    <2>1. v \in Leaf /\ v \in left[Home[v]] /\ phase[Home[v]] = "start"
        BY <1>2 DEF RunLeaf, Visit
    <2>2. pc[v] = "off"
        BY <2>1 DEF IInv, Walked, NotRun, ToRun
    <2>3. v \notin Initializing /\ Initializing' = Initializing \cup {v}
        BY <1>0, <1>2, <2>1, <2>2 DEF RunLeaf, Initializing
    <2>4. Cardinality(Initializing \cup {v}) = Cardinality(Initializing) + 1
        BY <1>0, <2>3, FS_AddElement
    <2> QED
        BY <1>0, <1>2, <2>3, <2>4 DEF RunLeaf, Counted
<1>3. ASSUME NEW v \in Leaf, Initialized(v) PROVE Counted'
    <2>1. v \in Initializing /\ Initializing' = Initializing \ {v}
        BY <1>0, <1>3 DEF Initialized, Initializing
    <2>2. Cardinality(Initializing \ {v}) = Cardinality(Initializing) - 1
        BY <1>0, <2>1, FS_RemoveElement
    <2> QED
        BY <1>0, <1>3, <2>1, <2>2 DEF Initialized, Counted
<1>4. ASSUME NEW v \in Leaf, PassBarrier(v) PROVE Counted'
    <2>1. Initializing' = Initializing /\ wg' = wg
        BY <1>0, <1>4 DEF PassBarrier, Initializing
    <2> QED
        BY <1>0, <2>1 DEF Counted
<1> QED
    BY <1>1, <1>2, <1>3, <1>4
    DEF Next, RunTemplate, Thread, Done, Piped, Started, Pipe, RunSub, Synchronize,
        EndOutput, EndInput

-----------------------------------------------------------------------------
\* A vertex the loop of start visits was not run before.
LEMMA VisitFacts ==
    ASSUME IInv, NEW v \in Vertex, Visit(Home[v], v, "start")
    PROVE  /\ NotRun(v) /\ phase[Home[v]] = "start" /\ v \in left[Home[v]]
           /\ v \in Sub => phase[v] = "idle" /\ v # Home[v]
BY GraphFacts DEF IInv, Walked, NotRun, ToRun, Visit

LEMMA NextWalked ==
    ASSUME IInv, [Next]_vars
    PROVE  Walked'
<1> USE GraphFacts DEF main, wire, sync, ends, vars
<1>0. TypeOK /\ Walked
    BY DEF IInv
<1>1. ASSUME UNCHANGED main,
             \A v \in Leaf : pc[v] = "off" <=> pc'[v] = "off"
      PROVE  Walked'
    BY <1>0, <1>1 DEF Walked, NotRun, ToRun
<1>2. ASSUME NEW gr \in Graph, Piped(gr) PROVE Walked'
    <2>1. \A h \in Graph : phase'[h] = IF h = gr THEN "start" ELSE phase[h]
        BY <1>0, <1>2 DEF Piped, TypeOK
    <2>2. \A h \in Graph : left'[h] = IF h = gr THEN Members(gr) ELSE left[h]
        BY <1>0, <1>2 DEF Piped, TypeOK
    <2> QED
        BY <1>0, <1>2, <2>1, <2>2 DEF Piped, Walked, NotRun, ToRun
<1>3. ASSUME NEW gr \in Graph, Started(gr) PROVE Walked'
    <2>1. \A h \in Graph : phase'[h] = IF h = gr THEN "done" ELSE phase[h]
        BY <1>0, <1>3 DEF Started, TypeOK
    <2>2. \A v \in Vertex : NotRun(v)' <=> ToRun(v)'
        BY <1>0, <1>3, <2>1 DEF Started, Walked, NotRun, ToRun
    <2>3. ASSUME NEW s \in Sub, Home[s] = gr PROVE phase[s] = "done"
        <3>1. ~NotRun(s)
            BY <1>0, <1>3, <2>3 DEF Started, Walked, ToRun
        <3> QED
            BY <1>0, <1>3, <2>3, <3>1 DEF Started, InControl, NotRun, TypeOK
    <2> QED
        BY <1>0, <2>1, <2>2, <2>3 DEF Walked
<1>4. ASSUME NEW v \in Vertex, Pipe(Home[v], v) PROVE Walked'
    <2>1. \A h \in Graph : phase[h] # "piping" => left'[h] = left[h]
        BY <1>0, <1>4 DEF Pipe, Visit, TypeOK
    <2> QED
        BY <1>0, <1>4, <2>1 DEF Pipe, Walked, NotRun, ToRun
<1>5. ASSUME NEW v \in Vertex, RunLeaf(Home[v], v) PROVE Walked'
    <2>1. phase[Home[v]] = "start" /\ phase' = phase /\ v \in Leaf
        BY <1>5 DEF RunLeaf, Visit
    <2>2. \A h \in Graph : left'[h] = IF h = Home[v] THEN left[h] \ {v} ELSE left[h]
        BY <1>0, <1>5 DEF RunLeaf, TypeOK
    <2>3. \A u \in Leaf : pc'[u] = IF u = v THEN "init" ELSE pc[u]
        BY <1>0, <1>5 DEF RunLeaf, TypeOK
    <2>4. ASSUME NEW u \in Vertex PROVE NotRun(u)' <=> ToRun(u)'
        <3>1. CASE u = v
            <4>1. left'[Home[v]] = left[Home[v]] \ {v}
                BY <2>2
            <4> QED
                BY <2>1, <2>3, <3>1, <4>1 DEF NotRun, ToRun
        <3>2. CASE u # v
            <4>1. NotRun(u)' <=> NotRun(u)
                BY <2>1, <2>3, <3>2 DEF NotRun
            <4>2. left'[Home[u]] \in {left[Home[u]], left[Home[u]] \ {v}}
                BY <2>2
            <4>3. ToRun(u)' <=> ToRun(u)
                BY <2>1, <3>2, <4>2 DEF ToRun
            <4> QED
                BY <1>0, <4>1, <4>3 DEF Walked
        <3> QED
            BY <3>1, <3>2
    <2> QED
        BY <1>0, <2>1, <2>4 DEF Walked
<1>6. ASSUME NEW s \in Vertex, RunSub(Home[s], s) PROVE Walked'
    <2>1. /\ s \in Sub /\ phase[Home[s]] = "start" /\ pc' = pc
          /\ phase[s] = "idle" /\ s # Home[s]
        BY <1>6, VisitFacts DEF RunSub
    <2>2. \A h \in Graph : left'[h] = IF h = s THEN Members(s)
                              ELSE IF h = Home[s] THEN left[h] \ {s} ELSE left[h]
        BY <1>0, <1>6, <2>1 DEF RunSub, TypeOK
    <2>3. \A h \in Graph : phase'[h] = IF h = s THEN "piping" ELSE phase[h]
        BY <1>0, <1>6 DEF RunSub, TypeOK
    <2>4. ASSUME NEW v \in Vertex PROVE NotRun(v)' <=> ToRun(v)'
        <3>1. CASE v = s
            <4>1. left'[Home[s]] = left[Home[s]] \ {s} /\ phase'[Home[s]] = "start"
                <5>1. Home[s] \in Graph /\ Home[s] # s
                    BY <2>1
                <5> HIDE GraphFacts
                <5> QED
                    BY <2>1, <2>2, <2>3, <5>1
            <4>2. NotRun(s)' = FALSE
                BY <2>1, <2>3 DEF NotRun
            <4>3. ToRun(s)' = FALSE
                BY <4>1 DEF ToRun
            <4> QED
                BY <3>1, <4>2, <4>3
        <3>2. CASE v # s
            <4>1. NotRun(v)' <=> NotRun(v)
                BY <2>1, <2>3, <3>2 DEF NotRun
            <4>2. ASSUME Home[v] = s PROVE ToRun(v)' <=> ToRun(v)
                BY <2>1, <2>3, <4>2 DEF ToRun
            <4>3. ASSUME Home[v] # s PROVE ToRun(v)' <=> ToRun(v)
                <5>1. /\ phase'[Home[v]] = phase[Home[v]]
                      /\ left'[Home[v]] \in {left[Home[v]], left[Home[v]] \ {s}}
                    BY <2>2, <2>3, <4>3
                <5> QED
                    BY <3>2, <5>1 DEF ToRun
            <4> QED
                BY <1>0, <4>1, <4>2, <4>3 DEF Walked
        <3> QED
            BY <3>1, <3>2
    <2> QED
        BY <1>0, <2>1, <2>3, <2>4 DEF Walked
<1>7. ASSUME NEW v \in Leaf, Thread(v) PROVE Walked'
    <2>1. \A u \in Leaf : pc[u] = "off" <=> pc'[u] = "off"
        BY <1>0, <1>7 DEF Thread, Initialized, PassBarrier, TypeOK
    <2> QED
        BY <1>1, <1>7, <2>1 DEF Thread, Initialized, PassBarrier
<1> QED
    BY <1>1, <1>2, <1>3, <1>4, <1>5, <1>6, <1>7
    DEF Next, RunTemplate, Done, Synchronize, EndOutput, EndInput

-----------------------------------------------------------------------------
\* While a graph is piped, its own input is set.
LEMMA PipingFacts ==
    ASSUME IInv, NEW v \in Vertex, Visit(Home[v], v, "piping")
    PROVE  Home[v] \in hasIn
<1>1. CASE Home[v] = Root
    BY <1>1 DEF IInv, WiredSoFar
<1>2. CASE Home[v] \in Sub
    <2>1. ~ToRun(Home[v])
        BY <1>2, GraphFacts DEF IInv, Walked, NotRun, Visit
    <2>2. IsPiped(Home[v])
        BY <1>2, <2>1, GraphFacts DEF ToRun, IsPiped, IInv, TypeOK
    <2> QED
        BY <1>2, <2>2 DEF IInv, WiredSoFar
<1> QED
    BY <1>1, <1>2, GraphFacts

LEMMA PipeWires ==
    ASSUME IInv, NEW v \in Vertex, Pipe(Home[v], v)
    PROVE  WiredSoFar'
<1> USE GraphFacts
<1>0. TypeOK /\ WiredSoFar
    BY DEF IInv
<1>1. phase' = phase /\ phase[Home[v]] = "piping" /\ Home[v] \in hasIn
    BY PipingFacts DEF Pipe, Visit
<1>2. \A h \in Graph : left'[h] = IF h = Home[v] THEN left[h] \ {v} ELSE left[h]
    BY <1>0 DEF Pipe, TypeOK
<1>3. \A u \in Vertex : IsPiped(u)' <=> IsPiped(u) \/ u = v
    <2>1. ASSUME NEW u \in Vertex, u # v PROVE IsPiped(u)' <=> IsPiped(u)
        <3>1. left'[Home[u]] \in {left[Home[u]], left[Home[u]] \ {v}}
            BY <1>2
        <3> QED
            BY <1>1, <2>1, <3>1 DEF IsPiped
    <2>2. IsPiped(v)'
        <3>1. left'[Home[v]] = left[Home[v]] \ {v}
            BY <1>2
        <3> QED
            BY <1>1, <3>1 DEF IsPiped
    <2> QED
        BY <2>1, <2>2
<1>4. hasIn' = {Root} \cup {s \in Sub : IsPiped(s)'}
    BY <1>0, <1>3 DEF WiredSoFar, Pipe, SetInput
<1>5. /\ fed' = fed \cup (Preds[v] \X {v})
      /\ exits' = exits \cup UNION {Exits[p] : p \in Preds[v]}
    <2>1. CASE Preds[v] = {}
        BY <1>1, <2>1 DEF Pipe
    <2>2. CASE Preds[v] # {}
        BY <2>2 DEF Pipe
    <2> QED
        BY <2>1, <2>2
<1>6. fed' = {e \in Vertex \X Vertex : e[1] \in Preds[e[2]] /\ IsPiped(e[2])'}
    BY <1>0, <1>3, <1>5 DEF WiredSoFar
<1>7. entries' = {u \in Vertex : Preds[u] = {} /\ IsPiped(u)'}
    BY <1>0, <1>1, <1>3 DEF WiredSoFar, Pipe
<1>8. \A u : HasOut(u)' <=> HasOut(u) \/ \E p \in Preds[v] : u \in Exits[p] \cup {p}
    <2>1. \A u : u \in exits' <=> (u \in exits \/ \E p \in Preds[v] : u \in Exits[p])
        BY <1>5
    <2>2. \A u, x : <<u, x>> \in fed' <=> (<<u, x>> \in fed \/ (u \in Preds[v] /\ x = v))
        BY <1>5
    <2>3. ASSUME NEW u
          PROVE  (\E x \in Vertex : <<u, x>> \in fed')
                     <=> ((\E x \in Vertex : <<u, x>> \in fed) \/ u \in Preds[v])
        BY <2>2
    <2>4. ASSUME NEW u
          PROVE  (\E p \in Preds[v] : u \in Exits[p] \cup {p})
                     <=> ((\E p \in Preds[v] : u \in Exits[p]) \/ u \in Preds[v])
        OBVIOUS
    <2>5. ASSUME NEW u
          PROVE  HasOut(u)' <=> (HasOut(u) \/ \E p \in Preds[v] : u \in Exits[p] \cup {p})
        <3> HIDE GraphFacts
        <3> QED
            BY <2>1, <2>3, <2>4 DEF HasOut
    <2> QED
        BY <2>5
<1>9. exits' = {w \in Vertex : Home[w] \in Sub /\ Children(w) = {} /\ HasOut(Home[w])'}
    <2>1. \A p \in Preds[v], w \in Vertex :
              w \in Exits[p] <=> Children(w) = {} /\ Home[w] \in Exits[p] \cup {p}
        BY ExitsLevels
    <2>2. \A p \in Preds[v] : Exits[p] \cup {p} \subseteq Vertex
        BY ExitsLeast
    <2>3. \A w \in Vertex : Home[w] \in Vertex => Home[w] \in Sub
        OBVIOUS
    <2> QED
        BY <1>0, <1>5, <1>8, <2>1, <2>2, <2>3 DEF WiredSoFar
<1> QED
    BY <1>4, <1>6, <1>7, <1>9 DEF WiredSoFar

LEMMA NextWired ==
    ASSUME IInv, [Next]_vars
    PROVE  WiredSoFar'
<1> USE GraphFacts DEF main, wire, sync, ends, vars
<1>0. TypeOK /\ WiredSoFar
    BY DEF IInv
<1>1. ASSUME UNCHANGED wire, \A v \in Vertex : IsPiped(v)' <=> IsPiped(v)
      PROVE  WiredSoFar'
    <2>1. \A v : HasOut(v)' <=> HasOut(v)
        BY <1>1 DEF HasOut
    <2> QED
        BY <1>0, <1>1, <2>1 DEF WiredSoFar
<1>2. ASSUME UNCHANGED main, UNCHANGED wire PROVE WiredSoFar'
    BY <1>1, <1>2 DEF IsPiped
<1>3. ASSUME NEW gr \in Graph, Piped(gr) \/ Started(gr) PROVE WiredSoFar'
    BY <1>0, <1>1, <1>3 DEF Piped, Started, IsPiped, TypeOK
<1>4. ASSUME NEW v \in Vertex, RunLeaf(Home[v], v) PROVE WiredSoFar'
    BY <1>0, <1>1, <1>4 DEF RunLeaf, Visit, IsPiped, TypeOK
<1>5. ASSUME NEW s \in Vertex, RunSub(Home[s], s) PROVE WiredSoFar'
    <2>1. phase[Home[s]] = "start" /\ phase[s] = "idle" /\ s \in Sub
        BY <1>5, VisitFacts DEF RunSub
    <2>2. \A h \in Graph \ {s} :
              phase'[h] = phase[h] /\ (phase[h] = "piping" => left'[h] = left[h])
        BY <1>0, <1>5, <2>1 DEF RunSub, TypeOK
    <2>3. phase'[s] = "piping" /\ left'[s] = Members(s)
        BY <1>0, <1>5, <2>1 DEF RunSub, TypeOK
    <2>4. \A v \in Vertex : IsPiped(v)' <=> IsPiped(v)
        BY <2>1, <2>2, <2>3 DEF IsPiped
    <2> QED
        BY <1>1, <1>5, <2>4 DEF RunSub
<1> QED
    BY <1>2, <1>3, <1>4, <1>5, PipeWires
    DEF Next, RunTemplate, Thread, Done, Synchronize, Initialized, PassBarrier,
        EndOutput, EndInput

-----------------------------------------------------------------------------
\* When the call of Run that RunTemplate made returns, those it made have.
LEMMA RootDone ==
    ASSUME IInv, phase[Root] = "done"
    PROVE  /\ \A gr \in Graph : phase[gr] = "done"
           /\ \A v \in Leaf : pc[v] # "off"
<1> DEFINE S == {s \in Sub : phase[s] # "done"}
<1>1. \A s \in S : Home[s] \in S
    BY GraphFacts DEF IInv, Walked
<1>2. S = {}
    BY <1>1, GraphsAreNested
<1>3. \A gr \in Graph : phase[gr] = "done"
    BY <1>2, GraphFacts
<1> QED
    BY <1>3, GraphFacts DEF IInv, Walked, NotRun, ToRun

LEMMA NextGate ==
    ASSUME IInv, [Next]_vars
    PROVE  Gate'
<1> USE GraphFacts DEF main, wire, sync, ends, vars
<1>0. TypeOK /\ Gate
    BY DEF IInv
<1>1. ASSUME phase' = phase, pc' = pc, open' = open PROVE Gate'
    BY <1>0, <1>1 DEF Gate
<1>2. ASSUME NEW gr \in Graph, Piped(gr) \/ Started(gr) PROVE Gate'
    BY <1>0, <1>2 DEF Piped, Started, Gate, TypeOK
<1>3. ASSUME NEW v \in Vertex, RunLeaf(Home[v], v) PROVE Gate'
    <2>1. ~open
        BY <1>0, <1>3, RootDone DEF RunLeaf, Visit, Gate
    <2> QED
        BY <1>0, <1>3, <2>1 DEF RunLeaf, Gate, TypeOK
<1>4. ASSUME NEW s \in Vertex, RunSub(Home[s], s) PROVE Gate'
    <2>1. ~open
        BY <1>0, <1>4, RootDone DEF RunSub, Visit, Gate
    <2> QED
        BY <1>0, <1>4, <2>1 DEF RunSub, Gate
<1>5. CASE Synchronize
    BY <1>0, <1>5, CountedFacts DEF Synchronize, Gate, IInv
<1>6. ASSUME NEW v \in Leaf, Thread(v) PROVE Gate'
    BY <1>0, <1>6 DEF Thread, Initialized, PassBarrier, Gate, TypeOK
<1> QED
    BY <1>1, <1>2, <1>3, <1>4, <1>5, <1>6
    DEF Next, RunTemplate, Done, Pipe, EndOutput, EndInput

LEMMA InitInv == Init => IInv
<1> SUFFICES ASSUME Init PROVE IInv
    OBVIOUS
<1> USE GraphFacts DEF Init
<1>1. TypeOK
    BY DEF TypeOK
<1>2. Counted
    BY FS_EmptySet DEF Counted, Initializing
<1>3. Walked
    BY DEF Walked, NotRun, ToRun
<1>4. WiredSoFar
    BY DEF WiredSoFar, IsPiped, HasOut
<1>5. Gate
    BY DEF Gate
<1> QED
    BY <1>1, <1>2, <1>3, <1>4, <1>5 DEF IInv

-----------------------------------------------------------------------------
(***************************************************************************)
(* The theorems.                                                           *)
(***************************************************************************)
\* The invariant above holds in every state of start-up.
THEOREM Invariance == Spec => []IInv
<1>1. IInv /\ [Next]_vars => IInv'
    BY NextType, NextCounted, NextWalked, NextWired, NextGate DEF IInv
<1> QED
    BY InitInv, <1>1, PTL DEF Spec

\* Type correctness; the wait group never goes below zero.
THEOREM TypeCorrect == Spec => []TypeOK
<1>1. IInv => TypeOK
    BY DEF IInv
<1> QED
    BY Invariance, <1>1, PTL

\* No stage passes the barrier before every graph is wired as the template
\* declares and every stage was run, however deep the graphs are nested.
THEOREM StartsWiredCorrect == Spec => []StartsWired
<1>1. IInv => StartsWired
    <2> SUFFICES ASSUME IInv, NEW u \in Leaf, pc[u] = "go"
                 PROVE  Wired /\ \A v \in Leaf : pc[v] \in {"barrier", "go"}
        BY DEF StartsWired
    <2>1. phase[Root] = "done" /\ \A v \in Leaf : pc[v] # "init"
        BY DEF IInv, Gate
    <2>2. /\ \A gr \in Graph : phase[gr] = "done"
          /\ \A v \in Leaf : pc[v] # "off"
        BY <2>1, RootDone
    <2>3. \A v \in Vertex : IsPiped(v)
        BY <2>2, GraphFacts DEF IsPiped
    <2>4. Wired
        BY <2>3, GraphFacts DEF IInv, WiredSoFar, Wired
    <2> QED
        BY <2>1, <2>2, <2>4 DEF IInv, TypeOK
<1> QED
    BY Invariance, <1>1, PTL

\* The channel a stage writes to is made before the stage is run: neither its
\* goroutine nor Close can meet the write of outputC.
THEOREM OutputFirstCorrect == Spec => OutputFirst
<1> USE GraphFacts
<1>1. ASSUME IInv, [Next]_vars, NEW w \in Leaf, HasOut(w)', ~HasOut(w)
      PROVE  pc[w] = "off"
    <2>1. fed' # fed \/ exits' # exits
        BY <1>1 DEF HasOut
    <2>2. PICK v \in Vertex : Pipe(Home[v], v)
        BY <1>1, <2>1
        DEF Next, RunTemplate, Thread, Done, Piped, Started, RunLeaf, RunSub, Synchronize,
            Initialized, PassBarrier, EndOutput, EndInput, main, wire, sync, ends, vars
    <2>3. PICK p \in Preds[v] : w \in Exits[p] \cup {p}
        BY <1>1, <2>2 DEF Pipe, HasOut
    <2>4. phase[Home[p]] = "piping"
        BY <2>2 DEF Pipe, Visit, Members
    <2>5. CASE w = p
        BY <1>1, <2>4, <2>5 DEF IInv, Walked, NotRun, ToRun
    <2>6. CASE w \in Exits[p]
        <3> DEFINE S == {u \in Vertex : phase[Home[u]] = "idle"}
        <3>1. ASSUME NEW u \in S \cup {p} PROVE Childless(u) \subseteq S
            <4>1. u \in Sub => phase[u] = "idle"
                BY <1>1, <2>4, <3>1 DEF IInv, Walked, NotRun, ToRun
            <4> QED
                BY <4>1 DEF Childless, Members
        <3>2. w \in S
            <4> HIDE DEF S
            <4>1. S \in SUBSET Vertex
                BY DEF S
            <4> QED
                BY <2>6, <3>1, <4>1, ExitsLeast
        <3> QED
            BY <1>1, <3>2 DEF IInv, Walked, NotRun, ToRun
    <2> QED
        BY <2>3, <2>5, <2>6
<1>2. IInv /\ [Next]_vars
      => [\A v \in Leaf : HasOut(v)' /\ ~HasOut(v) => pc[v] = "off"]_vars
    BY <1>1
<1> QED
    BY Invariance, <1>2, PTL DEF Spec, OutputFirst

\* Before the barrier opens only consumers close their outputs, and an end goes no
\* further than from them: out of graphs that yield nothing, into graphs that get
\* nothing.
EndsSilent == closed \subseteq Consumer /\ outEnd \subseteq Silent /\ inEnd \subseteq Dry

\* What comes out of an included graph comes out of its childless vertices.
LEMMA ExitsBelow ==
    ASSUME NEW p \in Vertex
    PROVE  Exits[p] \subseteq UNION {Exits[w] \cup {w} : w \in Childless(p)}
<1> DEFINE S == UNION {Exits[w] \cup {w} : w \in Childless(p)}
<1>1. Childless(p) \subseteq Vertex
    BY DEF Childless, Members
<1>2. S \in SUBSET Vertex
    BY <1>1, ExitsLeast
<1>3. ASSUME NEW u \in S \cup {p} PROVE Childless(u) \subseteq S
    <2>1. CASE u = p
        BY <2>1
    <2>2. ASSUME NEW w \in Childless(p), u \in Exits[w] \cup {w}
          PROVE  Childless(u) \subseteq S
        <3>1. Childless(u) \subseteq Exits[w]
            BY <1>1, <2>2, ExitsLeast
        <3> QED
            BY <3>1
    <2> QED
        BY <1>3, <2>1, <2>2
<1> HIDE DEF S
<1>4. Exits[p] \subseteq S
    BY <1>2, <1>3, ExitsLeast
<1> QED
    BY <1>4 DEF S

LEMMA SilentFacts ==
    /\ Consumer \subseteq Silent
    /\ \A v \in Sub : Childless(v) \subseteq Silent => v \in Silent
<1> USE GraphFacts
<1>1. ASSUME NEW v \in Consumer PROVE v \in Silent
    <2>1. v \in Leaf /\ v \in Vertex
        BY GraphsAreNested
    <2>2. Childless(v) = {}
        BY <2>1 DEF Childless, Members
    <2>3. Exits[v] = {}
        BY <2>1, <2>2, ExitsBelow
    <2> QED
        BY <2>1, <2>3 DEF Silent
<1>2. ASSUME NEW v \in Sub, Childless(v) \subseteq Silent PROVE v \in Silent
    <2>1. v \in Vertex /\ v \notin Leaf
        OBVIOUS
    <2>2. ASSUME NEW w \in Exits[v], w \in Leaf PROVE w \in Consumer
        <3>1. PICK u \in Childless(v) : w \in Exits[u] \cup {u}
            BY <2>1, <2>2, ExitsBelow
        <3> QED
            BY <1>2, <2>2, <3>1 DEF Silent
    <2> QED
        BY <2>1, <2>2 DEF Silent
<1> QED
    BY <1>1, <1>2

LEMMA DryFacts ==
    ASSUME NEW gr \in Sub,
           IF Preds[gr] = {} THEN Home[gr] \in Dry ELSE Preds[gr] \subseteq Silent
    PROVE  gr \in Dry
BY GraphFacts DEF Dry

LEMMA EndsSilentStep == TypeOK /\ EndsSilent /\ [Next]_vars => EndsSilent'
<1> SUFFICES ASSUME TypeOK, EndsSilent, [Next]_vars PROVE EndsSilent'
    OBVIOUS
<1> USE GraphFacts DEF EndsSilent
<1>1. ASSUME NEW v \in Vertex, RunLeaf(Home[v], v) PROVE EndsSilent'
    BY <1>1 DEF RunLeaf, ends
<1>2. ASSUME NEW v \in Vertex, EndOutput(v) PROVE EndsSilent'
    <2>1. v \in Silent
        <3>1. CASE v \in Leaf
            BY <1>2, <3>1, SilentFacts DEF EndOutput
        <3>2. CASE v \in Sub
            BY <1>2, <3>2, SilentFacts DEF EndOutput
        <3> QED
            BY <3>1, <3>2
    <2> QED
        BY <1>2, <2>1 DEF EndOutput
<1>3. ASSUME NEW s \in Sub, EndInput(s) PROVE EndsSilent'
    <2>1. s \in Dry
        BY <1>3, DryFacts DEF EndInput
    <2> QED
        BY <1>3, <2>1 DEF EndInput
<1>4. ASSUME UNCHANGED <<closed, ends>> PROVE EndsSilent'
    BY <1>4 DEF ends
<1> QED
    BY <1>1, <1>2, <1>3, <1>4
    DEF Next, RunTemplate, Thread, Done, Piped, Started, Pipe, RunSub, Synchronize,
        Initialized, PassBarrier, vars

\* A subscription made during start-up comes too late only for an end: whatever
\* ended before it carries no value, however deep the graphs are nested.
THEOREM NothingMissedCorrect == Spec => NothingMissed
<1>1. Init => EndsSilent
    BY DEF Init, EndsSilent
<1>2. TypeOK /\ EndsSilent /\ [Next]_vars
      => [/\ \A v \in entries' \ entries : Home[v] \in inEnd => Home[v] \in Dry
          /\ \A e \in fed' \ fed : e[1] \in outEnd => e[1] \in Silent
          /\ \A w \in exits' \ exits : w \in outEnd => w \in Silent]_vars
    BY DEF EndsSilent
<1>3. Spec => []EndsSilent
    BY <1>1, TypeCorrect, EndsSilentStep, PTL DEF Spec
<1> QED
    BY <1>2, <1>3, TypeCorrect, PTL DEF Spec, NothingMissed
=============================================================================
