------------------------------- MODULE PlanCanvas -------------------------------
(***************************************************************************)
(* The graph of a plan as the editor draws it.  A node's id is the number  *)
(* in it: the counter is shared by all editors and set when one opens.  An *)
(* edge's id is made of its ends and the handle it was first drawn from,   *)
(* and stays when the edge is given another label.                         *)
(***************************************************************************)
EXTENDS Naturals, Sequences, FiniteSets, FiniteSetsExt, Filters

CONSTANTS FirstGraphs,  \* graphs that plans were stored with
          MaxNodes,     \* bound on the nodes of a graph
          MaxEdges,     \* bound on its edges
          MaxNumber     \* bound on the counter

Labels == {"", "yes", "no"}
Node == [id : Nat, type : {"action", "decision"}]
Edge == [source : Nat, target : Nat, drawnFrom : Labels, handle : Labels]

IdsOf(ns) == {ns[i].id : i \in DOMAIN ns}
OutOf(id, es) == {i \in DOMAIN es : es[i].source = id}
MaxOut(type) == IF type = "action" THEN 1 ELSE 2

\* Ids name one node each, edges join nodes that are there, and no node has more ways out
\* than a run follows.
Sound(ns, es) ==
    /\ \A i, j \in DOMAIN ns : ns[i].id = ns[j].id => i = j
    /\ \A i \in DOMAIN es : {es[i].source, es[i].target} \subseteq IdsOf(ns)
    /\ \A i \in DOMAIN ns : Cardinality(OutOf(ns[i].id, es)) <= MaxOut(ns[i].type)

ASSUME CanvasAssumption ==
    /\ MaxNodes \in Nat /\ MaxEdges \in Nat /\ MaxNumber \in Nat
    /\ \A g \in FirstGraphs : g.nodes \in Seq(Node) /\ g.edges \in Seq(Edge) /\ Sound(g.nodes, g.edges)

VARIABLES nodes, edges,     \* sequences
          picked,           \* whose properties are shown: a node, an edge, or nothing
          nodeIdCounter

canvasVars == <<nodes, edges, picked, nodeIdCounter>>

Unpicked == [what |-> "nothing"]

IdOf(e) == <<e.source, e.target, e.drawnFrom>>
TypeOfNode(id) == nodes[Nth({i \in DOMAIN nodes : nodes[i].id = id}, 1)].type
NodeIds == IdsOf(nodes)

\* Mutant: the counter is set to the number of nodes.
Highest_Count(ns) == Len(ns)

\* The greatest number in the ids of the nodes.
Highest(ns) == Max({0} \cup IdsOf(ns))

CanvasInit ==
    /\ \E g \in FirstGraphs : nodes = g.nodes /\ edges = g.edges
    /\ nodeIdCounter = Highest(nodes) /\ picked = Unpicked

addNode(type) ==
    /\ Len(nodes) < MaxNodes /\ nodeIdCounter < MaxNumber
    /\ nodeIdCounter' = nodeIdCounter + 1
    /\ nodes' = Append(nodes, [id |-> nodeIdCounter', type |-> type])
    /\ UNCHANGED <<edges, picked>>

\* React Flow: a connection that is there is not added again.
addEdge(e, es) ==
    IF \E i \in DOMAIN es : <<es[i].source, es[i].target, es[i].handle>> = <<e.source, e.target, e.handle>>
    THEN es ELSE Append(es, e)

onConnect(from, to, handle) ==
    /\ from \in NodeIds /\ to \in NodeIds /\ Len(edges) < MaxEdges
    /\ handle \in IF TypeOfNode(from) = "decision" THEN {"yes", "no"} ELSE {""}
    /\ Cardinality(OutOf(from, edges)) < MaxOut(TypeOfNode(from))
    /\ edges' = addEdge([source |-> from, target |-> to, drawnFrom |-> handle, handle |-> handle], edges)
    /\ UNCHANGED <<nodes, picked, nodeIdCounter>>

\* A click on a node, on an edge, on the pane between them.
Pick(what) == picked' = what /\ UNCHANGED <<nodes, edges, nodeIdCounter>>
onNodeClick(i) == Pick([what |-> "node", id |-> nodes[i].id])
onEdgeClick(i) == Pick([what |-> "edge", id |-> IdOf(edges[i])])
onPaneClick == Pick(Unpicked)

\* The text of a node, also of one that is gone.
updateSelectedNode == picked.what = "node" /\ onPaneClick

WithoutNode(id) ==
    /\ nodes' = Kept(nodes, {i \in DOMAIN nodes : nodes[i].id # id})
    /\ edges' = Kept(edges, {i \in DOMAIN edges : id \notin {edges[i].source, edges[i].target}})

WithoutEdge(id) == edges' = Kept(edges, {i \in DOMAIN edges : IdOf(edges[i]) # id})

deleteSelectedNode ==
    /\ picked.what = "node" /\ WithoutNode(picked.id) /\ picked' = Unpicked
    /\ UNCHANGED nodeIdCounter

updateSelectedEdge(label) ==
    /\ picked.what = "edge" /\ picked' = Unpicked
    /\ edges' = [i \in DOMAIN edges |-> IF IdOf(edges[i]) = picked.id
                                        THEN [edges[i] EXCEPT !.handle = label] ELSE edges[i]]
    /\ UNCHANGED <<nodes, nodeIdCounter>>

deleteSelectedEdge ==
    /\ picked.what = "edge" /\ picked' = Unpicked
    /\ WithoutEdge(picked.id)
    /\ UNCHANGED <<nodes, nodeIdCounter>>

\* React Flow: Backspace takes away what is selected on the canvas, a node with its edges;
\* the properties of it stay on screen.
DeleteKey ==
    /\ \/ \E id \in NodeIds : WithoutNode(id)
       \/ (\E i \in DOMAIN edges : WithoutEdge(IdOf(edges[i]))) /\ UNCHANGED nodes
    /\ UNCHANGED <<picked, nodeIdCounter>>

\* savePlan, and the plan is opened again: fromFlowNodes and toFlowNodes, and their like
\* for edges.  Opening an older version is this step, taken when that version was drawn.
SaveAndReopen == nodes' = nodes /\ edges' = edges /\ nodeIdCounter' = Highest(nodes) /\ picked' = Unpicked

CanvasNext ==
    \/ \E type \in {"action", "decision"} : addNode(type)
    \/ \E from, to \in NodeIds, handle \in Labels : onConnect(from, to, handle)
    \/ \E i \in DOMAIN nodes : onNodeClick(i)
    \/ \E i \in DOMAIN edges : onEdgeClick(i)
    \/ onPaneClick \/ updateSelectedNode \/ deleteSelectedNode
    \/ \E label \in Labels : updateSelectedEdge(label)
    \/ deleteSelectedEdge \/ DeleteKey \/ SaveAndReopen

CanvasSpec == CanvasInit /\ [][CanvasNext]_canvasVars

-----------------------------------------------------------------------------

\* However nodes and edges are added, renamed, deleted from the panel or by the keyboard,
\* saved and opened again, ids name one node each, edges join nodes that are there, and no
\* node has more ways out than the run follows (addNode, onConnect, deleteSelectedNode).
DrawnGraphIsSound == Sound(nodes, edges)
=============================================================================
