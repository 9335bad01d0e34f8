---------------------------- MODULE MCPlanRunner ----------------------------
(***************************************************************************)
(* Instances of PlanRunner for TLC.                                        *)
(***************************************************************************)
EXTENDS PlanRunner, TLC

CONSTANTS a, b, d, x     \* node ids; x is one no graph has a node for

Node(id, type, retries) == [id |-> id, type |-> type, retries |-> retries]
Edge(s, t, l) == [source |-> s, target |-> t, label |-> l]
Graph(nodes, edges) == [nodes |-> nodes, edges |-> edges]

\* Two actions in a row.
Line == Graph(<<Node(a, "action", 0), Node(b, "action", 0)>>, <<Edge(a, b, "")>>)

\* An action, then a decision that loops on itself on yes or ends in b on no.
Loop == Graph(<<Node(a, "action", 0), Node(d, "decision", 0), Node(b, "action", 0)>>,
              <<Edge(a, d, ""), Edge(d, d, "yes"), Edge(d, b, "no")>>)

\* A decision with one retry and two ends: the other branch is skipped.
Branch == Graph(<<Node(d, "decision", 1), Node(a, "action", -1), Node(b, "action", 0)>>,
                <<Edge(d, a, "yes"), Edge(d, b, "no")>>)

\* A decision with one labelled edge: the other answer falls back to it.
\* The edge leads nowhere.
Dangling == Graph(<<Node(d, "decision", 0)>>, <<Edge(d, x, "no")>>)

\* A ring has no start node; a node of an unknown type.
Ring == Graph(<<Node(a, "action", 0), Node(b, "action", 0)>>, <<Edge(a, b, ""), Edge(b, a, "")>>)
Unknown == Graph(<<Node(a, "other", 0), Node(b, "action", 0)>>, <<>>)

\* Refused by validateGraph.
Fork == Graph(<<Node(a, "action", 0), Node(b, "action", 0), Node(d, "action", 0)>>,
              <<Edge(a, b, ""), Edge(a, d, "")>>)

AllGraphs == {Loop, Branch, Dangling, Ring, Unknown, Fork}
ShortGraphs == {Line, Dangling}

CancellerSymmetry == Permutations(Cancellers)
=============================================================================
