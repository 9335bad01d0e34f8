------------------------------ MODULE PlanGraph ------------------------------
(***************************************************************************)
(* The pure functions on plan graphs and step lists that the plan runner   *)
(* is built from (apps/plans/runner.go).                                   *)
(*                                                                         *)
(* A graph is a record [nodes, edges] of two sequences: a node is          *)
(* [id, type, retries], an edge is [source, target, label].  Labels are    *)
(* the trimmed, lower-cased labels findEdgeTarget compares; prompts,       *)
(* positions and the graph's cosmetic labels are left out.                 *)
(* The steps of a run are a function from the node ids to a step status.   *)
(***************************************************************************)
EXTENDS Integers, FiniteSets, Sequences

CONSTANT NoNode      \* the Go zero value "" of a node id

NodeTypes == {"action", "decision", "other"}
StepStatus == {"pending", "running", "completed", "failed", "skipped"}

NodeIds(g) == {g.nodes[i].id : i \in DOMAIN g.nodes}

\* Two sequences, of nodes with distinct ids (the editor and the plan_create
\* tool generate them) and of edges.
GraphOK(g) ==
  /\ Len(g.nodes) \in Nat /\ DOMAIN g.nodes = 1 .. Len(g.nodes)
  /\ Len(g.edges) \in Nat /\ DOMAIN g.edges = 1 .. Len(g.edges)
  /\ \A i \in DOMAIN g.nodes : g.nodes[i].type \in NodeTypes /\ g.nodes[i].retries \in Int
  /\ \A i, j \in DOMAIN g.nodes : g.nodes[i].id = g.nodes[j].id => i = j

\* The first element of a non-empty set of positions in a sequence.
First(I) == CHOOSE i \in I : \A j \in I : i <= j

\* nodeMap[n] of Runner.execute: a node known to be in the graph.
NodeOf(g, n) == g.nodes[First({i \in DOMAIN g.nodes : g.nodes[i].id = n})]

\* executeWithRetry clamps a negative MaxRetries to 0.
MaxRetries(g, n) == IF NodeOf(g, n).retries < 0 THEN 0 ELSE NodeOf(g, n).retries

OutEdges(g, n) == {i \in DOMAIN g.edges : g.edges[i].source = n}

(***************************************************************************)
(* validateGraph: an action has at most one outgoing edge, a decision two. *)
(***************************************************************************)
ValidateGraph(g) ==
  \A i \in DOMAIN g.nodes :
    LET out == Cardinality(OutEdges(g, g.nodes[i].id)) IN
      /\ g.nodes[i].type = "action"   => out <= 1
      /\ g.nodes[i].type = "decision" => out <= 2

(***************************************************************************)
(* findStartNodes, as positions; execute uses the first one.               *)
(***************************************************************************)
FindStartNodes(g) ==
  {i \in DOMAIN g.nodes : \A e \in DOMAIN g.edges : g.edges[e].target # g.nodes[i].id}

\* Mutant of StartNode: any start node will do.
StartNode_Last(g) ==
  IF FindStartNodes(g) = {} THEN NoNode
  ELSE g.nodes[CHOOSE i \in FindStartNodes(g) : \A j \in FindStartNodes(g) : j <= i].id

StartNode(g) ==
  IF FindStartNodes(g) = {} THEN NoNode ELSE g.nodes[First(FindStartNodes(g))].id

FirstTarget(g, I) == IF I = {} THEN NoNode ELSE g.edges[First(I)].target

FindNextNode(g, n) == FirstTarget(g, OutEdges(g, n))

\* The first edge with the label; failing that, the first edge of any label.
FindEdgeTarget(g, n, label) ==
  LET labelled == {i \in OutEdges(g, n) : g.edges[i].label = label} IN
  IF labelled # {} THEN FirstTarget(g, labelled) ELSE FindNextNode(g, n)

(***************************************************************************)
(* parseDecision looks at the first word only: a reply is classed as empty *)
(* (no word), no (the word starts with "no"), or other.                    *)
(***************************************************************************)
Replies == {"empty", "no", "other"}
ParseDecision(reply) == IF reply = "no" THEN "no" ELSE "yes"

(***************************************************************************)
(* The helpers on the steps of a run.                                      *)
(***************************************************************************)
InitSteps(g) == [n \in NodeIds(g) |-> "pending"]

\* Mutant of SetStep: a step is added for a node that has none.
SetStep_Appends(steps, n, s) ==
  [m \in DOMAIN steps \cup {n} |-> IF m = n THEN s ELSE steps[m]]

\* Sets the step of node n; a node without a step changes nothing.
SetStep(steps, n, s) == [m \in DOMAIN steps |-> IF m = n THEN s ELSE steps[m]]

\* Mutant of SkipPending: the steps off the path are forgotten.
SkipPending_Forgets(steps) == steps

SkipPending(steps) ==
  [m \in DOMAIN steps |-> IF steps[m] = "pending" THEN "skipped" ELSE steps[m]]

\* Mutants of MarkStaleSteps: the step in progress is left running; the
\* steps never reached are failed too.
MarkStaleSteps_KeepsRunning(steps) == SkipPending(steps)
MarkStaleSteps_FailsAll(steps) ==
  [m \in DOMAIN steps |-> IF steps[m] \in {"running", "pending"} THEN "failed" ELSE steps[m]]

MarkStaleSteps(steps) ==
  [m \in DOMAIN steps |-> CASE steps[m] = "running" -> "failed"
                            [] steps[m] = "pending" -> "skipped"
                            [] OTHER -> steps[m]]
=============================================================================
