------------------------------ MODULE PlanSteps ------------------------------
(***************************************************************************)
(* The plan_create tool: stepsToGraph (core/agents/tools.go) turns the     *)
(* agent's list of steps into a graph, which the plan runner then walks    *)
(* with findStartNodes, findNextNode and findEdgeTarget.  The state is one *)
(* list and a walk of its graph, so that what the two pieces of code do    *)
(* together is compared with what the tool tells the agent they do.        *)
(*                                                                         *)
(* A step is [type, id, yes, no]; a reference is "" (left out), "next",    *)
(* "end", the id of a step, or a node name n1, n2, ...  Labels, prompts    *)
(* and positions are left out.                                             *)
(***************************************************************************)
EXTENDS PlanGraph, Filters

CONSTANTS
  Names,        \* <<"n1", "n2", ...>>, as long as the longest list
  UserIds,      \* ids the agent gives its steps, "" for none
  Refs          \* references used in the branches of decisions

\* A node is named after the position of its step, so no two alike.
ASSUME StepsAssumption ==
  /\ Len(Names) \in Nat /\ DOMAIN Names = 1..Len(Names)
  /\ \A i, j \in DOMAIN Names : Names[i] = Names[j] => i = j
  /\ \A i \in DOMAIN Names : Names[i] # NoNode

VARIABLES
  steps,        \* what the agent passed to plan_create
  graph,        \* the plan's stored graph
  at            \* the node a run is at
vars == <<steps, graph, at>>

\* A field that is left out.
Omitted == ""

\* byUserID: a later step overrides an earlier one of the same name.
Named(ss, ref) == {i \in DOMAIN ss : ref \in {ss[i].id, Names[i]}}

NextName(ss, i) == IF i < Len(ss) THEN Names[i + 1] ELSE NoNode

ResolveTarget(ss, ref, i) ==
  IF ref \in {Omitted, "next"} THEN NextName(ss, i)
  ELSE IF ref \in {"end", "stop"} \/ Named(ss, ref) = {} THEN NoNode
  ELSE Names[CHOOSE k \in Named(ss, ref) : \A j \in Named(ss, ref) : j <= k]

Edge(i, target, label) == [source |-> Names[i], target |-> target, label |-> label]

\* Mutant of EdgesOf: the labels of the branches are swapped.
EdgesOf_Swapped(ss, i) ==
  IF ss[i].type = "action" THEN <<Edge(i, NextName(ss, i), Omitted), Edge(i, NoNode, Omitted)>>
  ELSE <<Edge(i, ResolveTarget(ss, ss[i].yes, i), "no"), Edge(i, ResolveTarget(ss, ss[i].no, i), "yes")>>

\* The two edges a step may have; the ones to NoNode are not made.
EdgesOf(ss, i) ==
  IF ss[i].type = "action" THEN <<Edge(i, NextName(ss, i), Omitted), Edge(i, NoNode, Omitted)>>
  ELSE <<Edge(i, ResolveTarget(ss, ss[i].yes, i), "yes"), Edge(i, ResolveTarget(ss, ss[i].no, i), "no")>>

\* The edges of all steps, two for each.
AllEdges(ss) == [k \in 1 .. 2 * Len(ss) |-> EdgesOf(ss, (k + 1) \div 2)[2 - (k % 2)]]

StepsToGraph(ss) ==
  [nodes |-> [i \in DOMAIN ss |-> [id |-> Names[i], type |-> ss[i].type, retries |-> 0]],
   edges |-> Kept(AllEdges(ss), {k \in DOMAIN AllEdges(ss) : AllEdges(ss)[k].target # NoNode})]

\* The next node of Runner.execute, for an action and for a decision.
Route(g, n, answer) ==
  IF NodeOf(g, n).type = "action" THEN FindNextNode(g, n) ELSE FindEdgeTarget(g, n, answer)
-----------------------------------------------------------------------------
Step == [type : {"action"}, id : UserIds, yes : {Omitted}, no : {Omitted}]
        \cup [type : {"decision"}, id : UserIds, yes : Refs, no : Refs]

Lists == UNION {[1 .. k -> Step] : k \in 1 .. Len(Names)}

Answers == {ParseDecision(reply) : reply \in Replies}

Init == steps \in Lists /\ graph = StepsToGraph(steps) /\ at = StartNode(graph)

Walk ==
  /\ at # NoNode
  /\ at' \in {Route(graph, at, answer) : answer \in Answers}
  /\ UNCHANGED <<steps, graph>>

Next == Walk
Spec == Init /\ [][Next]_vars
-----------------------------------------------------------------------------
\* A walk is always at a node of the graph, or over: the edges of a plan
\* made by the tool never dangle.
TypeOK == at \in {Names[i] : i \in DOMAIN steps} \cup {NoNode}

BranchRef(i, answer) == IF answer = "yes" THEN steps[i].yes ELSE steps[i].no

\* The steps a reference of step i may mean, read off the list.
Meant(i, ref) ==
  IF ref = "next" THEN {Names[j] : j \in {i + 1} \cap DOMAIN steps}
  ELSE IF ref \in {Omitted, "end", "stop"} THEN {}
  ELSE {Names[j] : j \in {k \in DOMAIN steps : ref \in {steps[k].id, Names[k]}}}

\* When the branch of a decision names a step, the run follows that answer
\* to a step of that name, wherever the other branch leads.
BranchesToStepsAreFollowed ==
  \A i \in DOMAIN steps : \A answer \in Answers :
    steps[i].type = "decision" /\ Meant(i, BranchRef(i, answer)) # {} =>
      Route(graph, Names[i], answer) \in Meant(i, BranchRef(i, answer))

\* A run begins with the first step, unless a branch leads back to it.
BeginsWithFirstStep ==
  (\A e \in DOMAIN graph.edges : graph.edges[e].target # Names[1]) => StartNode(graph) = Names[1]

\* "Ordered list of plan steps", "step id": a plan that branches back to
\* its first step still has a step to begin with.
PlanCanStart == StartNode(graph) # NoNode

\* "where to go on YES / NO - 'next', step id, or 'end'": a branch to
\* 'end' ends the run.
EndBranchEnds ==
  \A i \in DOMAIN steps : \A answer \in Answers :
    steps[i].type = "decision" /\ BranchRef(i, answer) = "end" =>
      Route(graph, Names[i], answer) = NoNode

\* "where to go on NO - 'next', step id, or 'end' (default)": an omitted
\* NO branch of a decision between two steps ends the run.
OmittedNoEnds ==
  \A i \in DOMAIN steps :
    steps[i].type = "decision" /\ steps[i].no = Omitted => Route(graph, Names[i], "no") = NoNode
=============================================================================
