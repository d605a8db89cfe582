------------------------------ MODULE Startup ------------------------------
(***************************************************************************)
(* How a template is wired and started: IO.Run (core/graph/graphio.go) on  *)
(* a graph whose vertices may be included graphs.  RunTemplate's goroutine *)
(* pipes a graph, then runs its vertices one by one; the run of an         *)
(* included graph pipes and runs that graph in turn, while the stages      *)
(* already started stand at the barrier and the brokers and merges already *)
(* made are at work.  Module Pipeline begins where this one ends.          *)
(***************************************************************************)
EXTENDS Integers, FiniteSets

CONSTANTS
    Leaf,     \* vertices run by an adapter of vertex.go
    Consumer, \* those among them that are consumers
    Sub,      \* vertices that are included graphs
    Root,     \* the graph of RunTemplate
    Home,     \* Home[v]: the graph v is a vertex of
    Preds     \* Preds[v]: the parents of v, vertices of the same graph

Vertex == Leaf \cup Sub
Graph  == Sub \cup {Root}

ASSUME GraphsAreNested ==
    /\ IsFiniteSet(Leaf)
    /\ Consumer \subseteq Leaf
    /\ Leaf \cap Sub = {}
    /\ Root \notin Vertex
    /\ Home \in [Vertex -> Graph]
    /\ Preds \in [Vertex -> SUBSET Vertex]
    /\ \A v \in Vertex : \A p \in Preds[v] : Home[p] = Home[v]
    /\ \A S \in SUBSET Sub : (\A s \in S : Home[s] \in S) => S = {}

Members(g)   == {v \in Vertex : Home[v] = g}
Children(v)  == {u \in Vertex : v \in Preds[u]}
Childless(g) == {v \in Members(g) : Children(v) = {}}

VARIABLES
    phase,   \* phase[g]: "idle", "piping", "start", "done", of g.Run
    left,    \* left[g]: vertices the loop of that phase has still to visit
    hasIn,   \* graphs whose inputC is set
    fed,     \* <<p, v>>: v's input subscribed to the broker of p
    entries, \* vertices subscribed to the input broker of their graph
    exits,   \* vertices subscribed by the merge on the output of their graph
    pc,      \* leaves: "off", "init", "barrier", "go"
    wg,      \* WaitGroupContext.wg
    open,    \* barrierC is closed
    closed,  \* leaves whose output channel is closed
    outEnd,  \* vertices whose broker has ended its subscriptions
    inEnd    \* graphs whose input broker has ended its subscriptions

main == <<phase, left>>
wire == <<hasIn, fed, entries, exits>>
sync == <<wg, open>>
ends == <<outEnd, inEnd>>
vars == <<main, wire, pc, sync, closed, ends>>

Init ==
    /\ phase = [g \in Graph |-> IF g = Root THEN "piping" ELSE "idle"]
    /\ left = [g \in Graph |-> IF g = Root THEN Members(Root) ELSE {}]
    /\ hasIn = {Root}
    /\ fed = {} /\ entries = {} /\ exits = {}
    /\ pc = [v \in Leaf |-> "off"]
    /\ wg = 0
    /\ open = FALSE
    /\ closed = {} /\ outEnd = {} /\ inEnd = {}

-----------------------------------------------------------------------------
(***************************************************************************)
(* Output() on a vertex subscribes to its broker.  The first call on an    *)
(* included graph makes the merge of the outputs of its childless          *)
(* vertices, which are included graphs themselves at times: Exits[v] is    *)
(* the least set that has those of v and of each included graph in it.     *)
(***************************************************************************)
Exits ==
    [v \in Vertex |->
        LET Closed == {S \in SUBSET Vertex : \A u \in S \cup {v} : Childless(u) \subseteq S}
        IN  {w \in Vertex : \A S \in Closed : w \in S}]

HasOut(v) == v \in exits \/ \E u \in Vertex : <<v, u>> \in fed

\* A call of Run on an included graph has returned, or was not made yet.
InControl(g) ==
    \A s \in Sub : Home[s] = g => phase[s] \notin {"piping", "start"}

Visit(g, v, p) ==
    /\ phase[g] = p
    /\ InControl(g)
    /\ v \in left[g]

SetInput(v) == hasIn' = IF v \in Sub THEN hasIn \cup {v} ELSE hasIn

PipeShallow(g, v) == \* mutant: a nested included graph's output is not merged
    /\ Visit(g, v, "piping")
    /\ left' = [left EXCEPT ![g] = @ \ {v}]
    /\ IF Preds[v] = {} /\ g \in hasIn
          THEN /\ entries' = entries \cup {v}
               /\ UNCHANGED <<fed, exits>>
          ELSE /\ fed' = fed \cup (Preds[v] \X {v})
               /\ exits' = exits \cup UNION {Childless(p) : p \in Preds[v] \cap Sub}
               /\ UNCHANGED entries
    /\ SetInput(v)
    /\ UNCHANGED <<phase, pc, sync, closed, ends>>

\* One round of the loop of piping, for vertex v of graph g.
Pipe(g, v) ==
    /\ Visit(g, v, "piping")
    /\ left' = [left EXCEPT ![g] = @ \ {v}]
    /\ IF Preds[v] = {} /\ g \in hasIn
          THEN /\ entries' = entries \cup {v}
               /\ UNCHANGED <<fed, exits>>
          ELSE /\ fed' = fed \cup (Preds[v] \X {v})
               /\ exits' = exits \cup UNION {Exits[p] : p \in Preds[v]}
               /\ UNCHANGED entries
    /\ SetInput(v)
    /\ UNCHANGED <<phase, pc, sync, closed, ends>>

Piped(g) ==
    /\ phase[g] = "piping"
    /\ left[g] = {}
    /\ phase' = [phase EXCEPT ![g] = "start"]
    /\ left' = [left EXCEPT ![g] = Members(g)]
    /\ UNCHANGED <<wire, pc, sync, closed, ends>>

(***************************************************************************)
(* One round of the loop of start: an adapter counts itself in and spawns  *)
(* its goroutine, a consumer closes its output if it was asked for; an     *)
(* included graph begins its own piping.                                   *)
(***************************************************************************)
RunLeafClosing(g, v) == \* mutant: every adapter closes its output as a consumer does
    /\ v \in Leaf
    /\ Visit(g, v, "start")
    /\ left' = [left EXCEPT ![g] = @ \ {v}]
    /\ pc' = [pc EXCEPT ![v] = "init"]
    /\ wg' = wg + 1
    /\ closed' = IF HasOut(v) THEN closed \cup {v} ELSE closed
    /\ UNCHANGED <<phase, wire, open, ends>>

RunLeafAtOnce(g, v) == \* mutant: a vertex may be run while its graph is still piped
    /\ v \in Leaf
    /\ InControl(g)
    /\ phase[g] \in {"piping", "start"}
    /\ pc[v] = "off"
    /\ left' = IF phase[g] = "start" THEN [left EXCEPT ![g] = @ \ {v}] ELSE left
    /\ pc' = [pc EXCEPT ![v] = "init"]
    /\ wg' = wg + 1
    /\ closed' = IF v \in Consumer /\ HasOut(v) THEN closed \cup {v} ELSE closed
    /\ UNCHANGED <<phase, wire, open, ends>>

RunLeaf(g, v) ==
    /\ v \in Leaf
    /\ Visit(g, v, "start")
    /\ left' = [left EXCEPT ![g] = @ \ {v}]
    /\ pc' = [pc EXCEPT ![v] = "init"]
    /\ wg' = wg + 1
    /\ closed' = IF v \in Consumer /\ HasOut(v) THEN closed \cup {v} ELSE closed
    /\ UNCHANGED <<phase, wire, open, ends>>

RunSub(g, s) ==
    /\ s \in Sub
    /\ Visit(g, s, "start")
    /\ left' = [left EXCEPT ![g] = @ \ {s}, ![s] = Members(s)]
    /\ phase' = [phase EXCEPT ![s] = "piping"]
    /\ UNCHANGED <<wire, pc, sync, closed, ends>>

Started(g) ==
    /\ phase[g] = "start"
    /\ InControl(g)
    /\ left[g] = {}
    /\ phase' = [phase EXCEPT ![g] = "done"]
    /\ UNCHANGED <<left, wire, pc, sync, closed, ends>>

SynchronizeWithoutClose == \* mutant: waits, and does not close barrierC
    /\ phase[Root] = "done"
    /\ ~open
    /\ wg = 0
    /\ UNCHANGED vars

Synchronize ==
    /\ phase[Root] = "done"
    /\ ~open
    /\ wg = 0
    /\ open' = TRUE
    /\ UNCHANGED <<main, wire, pc, wg, closed, ends>>

-----------------------------------------------------------------------------
InitializedTwice(v) == \* mutant: a second wg.Done
    /\ pc[v] = "init"
    /\ pc' = [pc EXCEPT ![v] = "barrier"]
    /\ wg' = wg - 2
    /\ UNCHANGED <<main, wire, open, closed, ends>>

Initialized(v) ==
    /\ pc[v] = "init"
    /\ pc' = [pc EXCEPT ![v] = "barrier"]
    /\ wg' = wg - 1
    /\ UNCHANGED <<main, wire, open, closed, ends>>

PassBarrier(v) ==
    /\ pc[v] = "barrier"
    /\ open
    /\ pc' = [pc EXCEPT ![v] = "go"]
    /\ UNCHANGED <<main, wire, sync, closed, ends>>

(***************************************************************************)
(* No value moves before the barrier opens, but ends do: from a consumer   *)
(* that was run, through the merges, to the graphs that read it.           *)
(***************************************************************************)
EndOutput(v) ==
    /\ HasOut(v)
    /\ v \notin outEnd
    /\ IF v \in Leaf THEN v \in closed ELSE Childless(v) \subseteq outEnd
    /\ outEnd' = outEnd \cup {v}
    /\ UNCHANGED <<main, wire, pc, sync, closed, inEnd>>

EndInput(s) ==
    /\ s \in hasIn \ (inEnd \cup {Root})
    /\ IF Preds[s] = {} THEN Home[s] \in inEnd ELSE Preds[s] \subseteq outEnd
    /\ inEnd' = inEnd \cup {s}
    /\ UNCHANGED <<main, wire, pc, sync, closed, outEnd>>

-----------------------------------------------------------------------------
RunTemplate ==
    \/ \E g \in Graph : Piped(g) \/ Started(g)
    \/ \E v \in Vertex : Pipe(Home[v], v) \/ RunLeaf(Home[v], v) \/ RunSub(Home[v], v)
    \/ Synchronize

Thread(v) == Initialized(v) \/ PassBarrier(v)

Ready == \A v \in Leaf : pc[v] = "go"

\* Start-up is over; what follows is Pipeline.
Done == open /\ Ready /\ UNCHANGED vars

Next ==
    \/ RunTemplate
    \/ \E v \in Leaf : Thread(v)
    \/ \E v \in Vertex : EndOutput(v)
    \/ \E s \in Sub : EndInput(s)
    \/ Done

Fairness == WF_vars(RunTemplate) /\ \A v \in Leaf : WF_vars(Thread(v))

Spec == Init /\ [][Next]_vars /\ Fairness

-----------------------------------------------------------------------------
(***************************************************************************)
(* Properties.                                                             *)
(***************************************************************************)
TypeOK ==
    /\ phase \in [Graph -> {"idle", "piping", "start", "done"}]
    /\ left \in [Graph -> SUBSET Vertex]
    /\ hasIn \subseteq Graph
    /\ fed \subseteq Vertex \X Vertex
    /\ entries \subseteq Vertex
    /\ exits \subseteq Vertex
    /\ pc \in [Leaf -> {"off", "init", "barrier", "go"}]
    /\ wg \in Nat
    /\ open \in BOOLEAN
    /\ closed \subseteq Leaf
    /\ outEnd \subseteq Vertex
    /\ inEnd \subseteq Graph

\* The wiring the template declares: a vertex reads its parents, or the input of
\* its graph if it has none; an included graph that somebody reads hands out
\* what its childless vertices yield, and nothing else is subscribed, since a
\* broker waits for ever for a subscriber that does not read.
Wired ==
    /\ hasIn = Graph
    /\ fed = {e \in Vertex \X Vertex : e[1] \in Preds[e[2]]}
    /\ entries = {v \in Vertex : Preds[v] = {}}
    /\ exits = {w \in Vertex : Home[w] \in Sub /\ Children(w) = {} /\ HasOut(Home[w])}

\* When the first stage passes the barrier, every graph is wired, nested ones
\* too, and every stage was run (graphio.go: Run pipes before it starts).
StartsWired ==
    (\E v \in Leaf : pc[v] = "go") => Wired /\ \A v \in Leaf : pc[v] \in {"barrier", "go"}

\* Output is called on a stage for the first time before Run: SendOutput and
\* Close read outputC without a lock, and a consumer closes it in Run.
OutputFirst == [][\A v \in Leaf : HasOut(v)' /\ ~HasOut(v) => pc[v] = "off"]_vars

\* Stages that never yield, and included graphs nothing comes out of.
Silent == {v \in Vertex : \A w \in Exits[v] \cup {v} : w \in Leaf => w \in Consumer}

\* Included graphs that never get a value: their parents are silent, or they
\* read the input of one that is dry.
Dry ==
    LET Closed == {D \in SUBSET Graph :
                     \A g \in Sub :
                       (IF Preds[g] = {} THEN Home[g] \in D ELSE Preds[g] \subseteq Silent)
                         => g \in D}
    IN  {g \in Graph : \A D \in Closed : g \in D}

\* A subscription that comes after the end of what it subscribes to misses no
\* value: only streams that carry none may have ended during start-up.
NothingMissed ==
    [][/\ \A v \in entries' \ entries : Home[v] \in inEnd => Home[v] \in Dry
       /\ \A e \in fed' \ fed : e[1] \in outEnd => e[1] \in Silent
       /\ \A w \in exits' \ exits : w \in outEnd => w \in Silent]_vars

\* Start-up ends: every stage passes the barrier, in whatever order the loops
\* over the maps visit the vertices.
Opens == <>Ready
=============================================================================
