--------------------------- MODULE PlanStepsProofs ---------------------------
(***************************************************************************)
(* Proofs about PlanSteps: for any ids and references the agent may use    *)
(* and lists of any length, the runner walks the graph that plan_create    *)
(* stores the way the list reads.                                          *)
(***************************************************************************)
EXTENDS PlanSteps, FilterLemmas

-----------------------------------------------------------------------------
\* First picks the least element.
LEMMA FirstIsLeast ==
  ASSUME NEW I \in SUBSET Nat, I # {}
  PROVE  First(I) \in I
<1>1. PICK m \in I : \A j \in I : ~(<<j, m>> \in OpToRel(<, Nat))
  BY NatLessThanWellFounded, WFMin, Zenon
<1>2. \A j \in I : j \in Nat /\ m \in Nat /\ ~(j < m)
  BY <1>1 DEF OpToRel
<1>3. \A j \in I : m <= j
  BY <1>2
<1> QED
  BY <1>3 DEF First

-----------------------------------------------------------------------------
(* Lists and the edges that are made of them. *)

\* A list has at most as many steps as there are names.
LEMMA ListType ==
  ASSUME NEW ss \in Lists
  PROVE  /\ Len(ss) \in Nat \ {0} /\ DOMAIN ss = 1..Len(ss)
         /\ DOMAIN ss \subseteq DOMAIN Names
         /\ \A i \in DOMAIN ss : ss[i].type \in {"action", "decision"}
<1>1. PICK k \in 1..Len(Names) : ss \in [1..k -> Step]
  BY DEF Lists
<1>2. k \in Nat \ {0} /\ Len(ss) = k /\ DOMAIN ss = 1..k /\ k <= Len(Names)
  BY <1>1, StepsAssumption
<1>3. 1..k \subseteq DOMAIN Names
  BY <1>2, StepsAssumption
<1>4. \A s \in Step : s.type \in {"action", "decision"}
  BY DEF Step
<1> QED
  BY <1>1, <1>2, <1>3, <1>4

\* A reference resolves to a step of the list or to nothing.
LEMMA TargetIsStep ==
  ASSUME NEW ss \in Lists, NEW i \in DOMAIN ss
  PROVE  /\ NextName(ss, i) \in {Names[j] : j \in DOMAIN ss} \cup {NoNode}
         /\ \A ref : ResolveTarget(ss, ref, i) \in {Names[j] : j \in DOMAIN ss} \cup {NoNode}
<1>1. Len(ss) \in Nat /\ DOMAIN ss = 1..Len(ss)
  BY ListType
<1>2. NextName(ss, i) \in {Names[j] : j \in DOMAIN ss} \cup {NoNode}
  BY <1>1 DEF NextName
<1>3. ASSUME NEW ref
      PROVE  ResolveTarget(ss, ref, i) \in {Names[j] : j \in DOMAIN ss} \cup {NoNode}
  <2>1. Named(ss, ref) \in SUBSET (1..Len(ss))
    BY <1>1 DEF Named
  <2>2. CASE Named(ss, ref) # {}
    <3> DEFINE last == CHOOSE k \in Named(ss, ref) : \A j \in Named(ss, ref) : j <= k
    <3>1. last \in Named(ss, ref)
      BY <1>1, <2>1, <2>2, LastIsThere
    <3>2. last \in DOMAIN ss
      BY <1>1, <2>1, <3>1
    <3>3. \/ ResolveTarget(ss, ref, i) = Names[last]
          \/ ResolveTarget(ss, ref, i) = NoNode
          \/ ResolveTarget(ss, ref, i) = NextName(ss, i)
      BY Zenon DEF ResolveTarget
    <3> HIDE DEF last
    <3> QED
      BY <1>2, <3>2, <3>3
  <2>3. CASE Named(ss, ref) = {}
    BY <1>2, <2>3, Zenon DEF ResolveTarget
  <2> QED
    BY <2>2, <2>3
<1> QED
  BY <1>2, <1>3

Records == [source : {Names[i] : i \in DOMAIN Names},
            target : {Names[i] : i \in DOMAIN Names} \cup {NoNode},
            label : {Omitted, "yes", "no"}]

\* The two slots of step i.
LEMMA Slots ==
  ASSUME NEW ss \in Lists
  PROVE  /\ DOMAIN AllEdges(ss) = 1 .. 2 * Len(ss) /\ AllEdges(ss) \in Seq(Records)
         /\ \A i \in DOMAIN ss :
              /\ 2 * i - 1 \in DOMAIN AllEdges(ss) /\ 2 * i \in DOMAIN AllEdges(ss)
              /\ AllEdges(ss)[2 * i - 1] = EdgesOf(ss, i)[1]
              /\ AllEdges(ss)[2 * i] = EdgesOf(ss, i)[2]
         /\ \A k \in DOMAIN AllEdges(ss) : \E i \in DOMAIN ss : k \in {2 * i - 1, 2 * i}
<1>1. Len(ss) \in Nat /\ DOMAIN ss = 1..Len(ss) /\ DOMAIN ss \subseteq DOMAIN Names
  BY ListType
<1>2. DOMAIN AllEdges(ss) = 1 .. 2 * Len(ss)
  BY DEF AllEdges
<1>3. ASSUME NEW k \in 1 .. 2 * Len(ss)
      PROVE  \E i \in DOMAIN ss : k \in {2 * i - 1, 2 * i}
  <2>1. k \in Nat /\ (k + 1) \div 2 \in 1..Len(ss)
    BY <1>1
  <2>2. k \in {2 * ((k + 1) \div 2) - 1, 2 * ((k + 1) \div 2)}
    BY <2>1
  <2> QED
    BY <1>1, <2>1, <2>2
<1>4. ASSUME NEW i \in DOMAIN ss
      PROVE  /\ 2 * i - 1 \in 1 .. 2 * Len(ss) /\ 2 * i \in 1 .. 2 * Len(ss)
             /\ AllEdges(ss)[2 * i - 1] = EdgesOf(ss, i)[1]
             /\ AllEdges(ss)[2 * i] = EdgesOf(ss, i)[2]
  <2>1. i \in Nat /\ 2 * i - 1 \in 1 .. 2 * Len(ss) /\ 2 * i \in 1 .. 2 * Len(ss)
    BY <1>1
  <2>2. ((2 * i - 1) + 1) \div 2 = i /\ 2 - ((2 * i - 1) % 2) = 1
    BY <2>1
  <2>3. ((2 * i) + 1) \div 2 = i
    BY <2>1
  <2>4. (2 * i) % 2 = 0
    BY <2>1
  <2>5. 2 - ((2 * i) % 2) = 2
    BY <2>4
  <2> QED
    BY <2>1, <2>2, <2>3, <2>5, Zenon DEF AllEdges
<1>5. ASSUME NEW i \in DOMAIN ss
      PROVE  EdgesOf(ss, i)[1] \in Records /\ EdgesOf(ss, i)[2] \in Records
  <2>1. /\ NextName(ss, i) \in {Names[j] : j \in DOMAIN Names} \cup {NoNode}
        /\ \A ref : ResolveTarget(ss, ref, i) \in {Names[j] : j \in DOMAIN Names} \cup {NoNode}
    BY <1>1, TargetIsStep
  <2>2. \A target \in {Names[j] : j \in DOMAIN Names} \cup {NoNode} :
          \A label \in {Omitted, "yes", "no"} : Edge(i, target, label) \in Records
    BY <1>1 DEF Edge, Records
  <2>3. NoNode \in {Names[j] : j \in DOMAIN Names} \cup {NoNode}
    OBVIOUS
  <2> QED
    BY <2>1, <2>2, <2>3 DEF EdgesOf
<1>6. \A k \in 1 .. 2 * Len(ss) : AllEdges(ss)[k] \in Records
  BY <1>3, <1>4, <1>5
<1>7. AllEdges(ss) = [k \in 1 .. 2 * Len(ss) |-> AllEdges(ss)[k]]
  BY Zenon DEF AllEdges
<1>9. 2 * Len(ss) \in Nat
  BY <1>1
<1>8. AllEdges(ss) \in Seq(Records)
  BY <1>6, <1>7, <1>9
<1> QED
  BY <1>2, <1>3, <1>4, <1>8

\* The edges of the graph are those that have a target.
LEMMA GraphEdges ==
  ASSUME NEW ss \in Lists
  PROVE  /\ DOMAIN StepsToGraph(ss).edges \subseteq Nat
         /\ \A p \in DOMAIN StepsToGraph(ss).edges : \E k \in DOMAIN AllEdges(ss) :
              /\ StepsToGraph(ss).edges[p] = AllEdges(ss)[k] /\ AllEdges(ss)[k].target # NoNode
         /\ \A k \in DOMAIN AllEdges(ss) :
              AllEdges(ss)[k].target # NoNode =>
                \E p \in DOMAIN StepsToGraph(ss).edges : StepsToGraph(ss).edges[p] = AllEdges(ss)[k]
<1> DEFINE all == AllEdges(ss)
           made == {k \in DOMAIN all : all[k].target # NoNode}
           edges == StepsToGraph(ss).edges
<1>1. edges = Kept(all, made)
  BY DEF StepsToGraph
<1>2. all \in Seq(Records) /\ made \in SUBSET (DOMAIN all)
  BY Slots
<1>3. \A k \in made : k \in DOMAIN all /\ all[k].target # NoNode
  OBVIOUS
<1>4. \A k \in DOMAIN all : all[k].target # NoNode => k \in made
  OBVIOUS
<1> HIDE DEF all, made, edges
<1>5. {edges[p] : p \in DOMAIN edges} = {all[k] : k \in made}
  <2>1. {Kept(all, made)[p] : p \in DOMAIN Kept(all, made)} = {all[k] : k \in made}
    BY <1>2, KeptRange, Zenon
  <2> QED
    BY <1>1, <2>1, Zenon
<1>6. DOMAIN edges \subseteq Nat
  <2>1. DOMAIN edges = 1..Cardinality(made)
    BY <1>1, <1>2, KeptIsList
  <2> QED
    BY <2>1
<1>7. \A p \in DOMAIN edges : \E k \in made : edges[p] = all[k]
  BY <1>5, Zenon
<1>8. \A k \in made : \E p \in DOMAIN edges : edges[p] = all[k]
  BY <1>5, Zenon
<1> QED
  BY <1>3, <1>4, <1>6, <1>7, <1>8, Zenon DEF all, edges

\* The nodes of the graph are the steps, each at its position.
LEMMA GraphNodes ==
  ASSUME NEW ss \in Lists
  PROVE  /\ DOMAIN StepsToGraph(ss).nodes = DOMAIN ss
         /\ \A i \in DOMAIN ss : /\ StepsToGraph(ss).nodes[i].id = Names[i]
                                 /\ NodeOf(StepsToGraph(ss), Names[i]).type = ss[i].type
<1> DEFINE g == StepsToGraph(ss)
<1>1. DOMAIN g.nodes = DOMAIN ss
  BY DEF StepsToGraph
<1>2. \A i \in DOMAIN ss : g.nodes[i].id = Names[i] /\ g.nodes[i].type = ss[i].type
  BY DEF StepsToGraph
<1>3. DOMAIN ss \subseteq Nat /\ DOMAIN ss \subseteq DOMAIN Names
  BY ListType
<1> HIDE DEF g
<1>4. ASSUME NEW i \in DOMAIN ss
      PROVE  NodeOf(g, Names[i]) = g.nodes[i]
  <2> DEFINE I == {j \in DOMAIN g.nodes : g.nodes[j].id = Names[i]}
  <2>1. I = {i}
    BY <1>1, <1>2, <1>3, StepsAssumption
  <2>2. I \in SUBSET Nat
    BY <1>1, <1>3
  <2>3. NodeOf(g, Names[i]) = g.nodes[First(I)]
    BY DEF NodeOf
  <2> HIDE DEF I
  <2>4. First(I) = i
    BY <2>1, <2>2, FirstIsLeast
  <2> QED
    BY <2>3, <2>4
<1> QED
  BY <1>1, <1>2, <1>4, Zenon DEF g

\* What leaves a step are its own edges.
LEMMA OutOfStep ==
  ASSUME NEW ss \in Lists, NEW i \in DOMAIN ss,
         NEW p \in OutEdges(StepsToGraph(ss), Names[i])
  PROVE  StepsToGraph(ss).edges[p] \in {EdgesOf(ss, i)[1], EdgesOf(ss, i)[2]}
<1> DEFINE edges == StepsToGraph(ss).edges
<1>1. p \in DOMAIN edges /\ edges[p].source = Names[i]
  BY DEF OutEdges
<1>2. PICK k \in DOMAIN AllEdges(ss) : edges[p] = AllEdges(ss)[k]
  BY <1>1, GraphEdges
<1>3. PICK j \in DOMAIN ss : k \in {2 * j - 1, 2 * j}
  BY Slots
<1>4. edges[p] \in {EdgesOf(ss, j)[1], EdgesOf(ss, j)[2]}
  BY <1>2, <1>3, Slots
<1>5. EdgesOf(ss, j)[1].source = Names[j] /\ EdgesOf(ss, j)[2].source = Names[j]
  BY DEF EdgesOf, Edge
<1>6. Names[j] = Names[i] /\ i \in DOMAIN Names /\ j \in DOMAIN Names
  BY <1>1, <1>4, <1>5, ListType
<1>7. i = j
  BY <1>6, StepsAssumption
<1> QED
  BY <1>4, <1>7

-----------------------------------------------------------------------------
(* The runner on the graph of a list. *)

Ref(ss, i, answer) == IF answer = "yes" THEN ss[i].yes ELSE ss[i].no

\* The edge of a branch that has a target is the one its answer is followed along.
LEMMA BranchIsFollowed ==
  ASSUME NEW ss \in Lists, NEW i \in DOMAIN ss, ss[i].type = "decision",
         NEW answer \in {"yes", "no"}, ResolveTarget(ss, Ref(ss, i, answer), i) # NoNode
  PROVE  Route(StepsToGraph(ss), Names[i], answer) = ResolveTarget(ss, Ref(ss, i, answer), i)
<1> DEFINE g == StepsToGraph(ss)
           target == ResolveTarget(ss, Ref(ss, i, answer), i)
           labelled == {p \in OutEdges(g, Names[i]) : g.edges[p].label = answer}
<1>1. /\ EdgesOf(ss, i)[1] = Edge(i, ResolveTarget(ss, ss[i].yes, i), "yes")
      /\ EdgesOf(ss, i)[2] = Edge(i, ResolveTarget(ss, ss[i].no, i), "no")
  BY DEF EdgesOf
<1>2. \A e \in {EdgesOf(ss, i)[1], EdgesOf(ss, i)[2]} : e.label = answer => e.target = target
  BY <1>1 DEF Edge, Ref
<1>3. \E k \in DOMAIN AllEdges(ss) : AllEdges(ss)[k] = Edge(i, target, answer)
  BY <1>1, Slots DEF Ref
<1>4. /\ Edge(i, target, answer).source = Names[i] /\ Edge(i, target, answer).target = target
      /\ Edge(i, target, answer).label = answer
  BY DEF Edge
<1>5. target # NoNode
  OBVIOUS
<1> HIDE DEF target
<1>6. \E p \in DOMAIN g.edges : g.edges[p] = Edge(i, target, answer)
  BY <1>3, <1>4, <1>5, GraphEdges
<1> HIDE DEF g
<1>7. labelled # {}
  BY <1>4, <1>6 DEF OutEdges
<1>8. labelled \in SUBSET Nat
  BY GraphEdges DEF OutEdges, g
<1>9. First(labelled) \in labelled
  <2> HIDE DEF labelled
  <2> QED
    BY <1>7, <1>8, FirstIsLeast
<1>10. g.edges[First(labelled)].target = target
  BY <1>2, <1>9, OutOfStep DEF g
<1>11. FindEdgeTarget(g, Names[i], answer) = target
  BY <1>7, <1>10 DEF FindEdgeTarget, FirstTarget
<1>12. NodeOf(g, Names[i]).type = "decision"
  BY GraphNodes DEF g
<1> QED
  BY <1>11, <1>12 DEF Route, g, target

\* A run goes nowhere but to a step of the list.
LEMMA RouteStays ==
  ASSUME NEW ss \in Lists, NEW n, NEW answer
  PROVE  Route(StepsToGraph(ss), n, answer) \in {Names[i] : i \in DOMAIN ss} \cup {NoNode}
<1> DEFINE g == StepsToGraph(ss)
           Ends == {Names[i] : i \in DOMAIN ss} \cup {NoNode}
<1>1. ASSUME NEW p \in DOMAIN g.edges
      PROVE  g.edges[p].target \in Ends
  <2>1. PICK k \in DOMAIN AllEdges(ss) : g.edges[p] = AllEdges(ss)[k]
    BY GraphEdges
  <2>2. PICK i \in DOMAIN ss : k \in {2 * i - 1, 2 * i}
    BY Slots
  <2>3. g.edges[p] \in {EdgesOf(ss, i)[1], EdgesOf(ss, i)[2]}
    BY <2>1, <2>2, Slots
  <2>4. /\ NextName(ss, i) \in Ends
        /\ \A ref : ResolveTarget(ss, ref, i) \in Ends
    BY TargetIsStep
  <2>5. EdgesOf(ss, i)[1].target \in Ends /\ EdgesOf(ss, i)[2].target \in Ends
    BY <2>4 DEF EdgesOf, Edge
  <2> QED
    BY <2>3, <2>5
<1> HIDE DEF g
<1>2. ASSUME NEW I \in SUBSET (DOMAIN g.edges)
      PROVE  FirstTarget(g, I) \in Ends
  <2>1. I \in SUBSET Nat
    BY GraphEdges DEF g
  <2>2. I # {} => First(I) \in DOMAIN g.edges
    BY <2>1, FirstIsLeast
  <2> QED
    BY <1>1, <2>2 DEF FirstTarget
<1> DEFINE labelled == {p \in OutEdges(g, n) : g.edges[p].label = answer}
<1>3. OutEdges(g, n) \in SUBSET (DOMAIN g.edges) /\ labelled \in SUBSET (DOMAIN g.edges)
  BY DEF OutEdges
<1>4. \/ Route(g, n, answer) = FirstTarget(g, OutEdges(g, n))
      \/ Route(g, n, answer) = FirstTarget(g, labelled)
  BY DEF Route, FindNextNode, FindEdgeTarget
<1> HIDE DEF labelled, Ends
<1>5. Route(g, n, answer) \in Ends
  BY <1>2, <1>3, <1>4
<1> QED
  BY <1>5 DEF g, Ends

\* A run begins at a step of the list, or nowhere.
LEMMA StartStays ==
  ASSUME NEW ss \in Lists
  PROVE  StartNode(StepsToGraph(ss)) \in {Names[i] : i \in DOMAIN ss} \cup {NoNode}
<1> DEFINE g == StepsToGraph(ss)
<1>1. DOMAIN g.nodes = DOMAIN ss /\ DOMAIN ss \subseteq Nat
  BY GraphNodes, ListType
<1>2. \A i \in DOMAIN ss : g.nodes[i].id = Names[i]
  BY GraphNodes
<1>3. FindStartNodes(g) \in SUBSET (DOMAIN ss)
  BY <1>1 DEF FindStartNodes
<1> HIDE DEF g
<1>4. FindStartNodes(g) # {} => First(FindStartNodes(g)) \in DOMAIN ss
  BY <1>1, <1>3, FirstIsLeast
<1> QED
  BY <1>2, <1>4 DEF StartNode, g

-----------------------------------------------------------------------------
(* The theorems.  The graph a run walks is the one made of the list: neither changes. *)

GraphInv == steps \in Lists /\ graph = StepsToGraph(steps)

LEMMA GraphInit == Init => GraphInv
BY DEF Init, GraphInv

LEMMA GraphStep == GraphInv /\ [Next]_vars => GraphInv'
BY DEF GraphInv, Next, Walk, vars

LEMMA AnswersAre == Answers = {"yes", "no"}
BY DEF Answers, ParseDecision, Replies

\* A run that answers yes or no goes to the step that the list names for the
\* answer, whatever ids the steps share (resolveTarget, findEdgeTarget).
THEOREM BranchesAreFollowed == Spec => []BranchesToStepsAreFollowed
<1>1. ASSUME GraphInv
      PROVE  BranchesToStepsAreFollowed
  <2> SUFFICES ASSUME NEW i \in DOMAIN steps, NEW answer \in Answers, steps[i].type = "decision",
                      Meant(i, BranchRef(i, answer)) # {}
               PROVE  Route(graph, Names[i], answer) \in Meant(i, BranchRef(i, answer))
    BY DEF BranchesToStepsAreFollowed
  <2> DEFINE ref == BranchRef(i, answer)
             named == {k \in DOMAIN steps : ref \in {steps[k].id, Names[k]}}
  <2>1. steps \in Lists /\ graph = StepsToGraph(steps)
    BY <1>1 DEF GraphInv
  <2>2. Len(steps) \in Nat /\ DOMAIN steps = 1..Len(steps) /\ DOMAIN steps \subseteq DOMAIN Names
    BY <2>1, ListType
  <2>3. ref = Ref(steps, i, answer)
    BY DEF BranchRef, Ref
  <2> HIDE DEF ref
  <2>4. ASSUME ref = "next"
        PROVE  ResolveTarget(steps, ref, i) \in Meant(i, ref)
    <3>1. ref \in {Omitted, "next"}
      BY <2>4
    <3>2. Meant(i, ref) = {Names[j] : j \in {i + 1} \cap DOMAIN steps}
      BY <2>4 DEF Meant
    <3>3. i + 1 \in DOMAIN steps /\ Names[i + 1] \in Meant(i, ref)
      BY <3>2 DEF ref
    <3>4. ResolveTarget(steps, ref, i) = Names[i + 1]
      BY <2>2, <3>1, <3>3 DEF ResolveTarget, NextName
    <3> QED
      BY <3>3, <3>4
  <2>5. ASSUME ref # "next"
        PROVE  ResolveTarget(steps, ref, i) \in Meant(i, ref)
    <3>1. ref \notin {Omitted, "end", "stop"}
      BY <2>5 DEF Meant, ref
    <3>2. Meant(i, ref) = {Names[j] : j \in named}
      BY <2>5, <3>1 DEF Meant
    <3>3. named # {} /\ named = Named(steps, ref) /\ named \in SUBSET (1..Len(steps))
      BY <2>2, <3>2 DEF Named, ref
    <3> DEFINE last == CHOOSE k \in named : \A j \in named : j <= k
    <3>4. last \in named
      <4> HIDE DEF named
      <4> QED
        BY <2>2, <3>3, LastIsThere
    <3>5. ResolveTarget(steps, ref, i) = Names[last]
      BY <2>5, <3>1, <3>3 DEF ResolveTarget
    <3> HIDE DEF last
    <3> QED
      BY <3>2, <3>4, <3>5
  <2>6. ResolveTarget(steps, ref, i) \in Meant(i, ref)
    BY <2>4, <2>5
  <2>7. Meant(i, ref) \subseteq {Names[j] : j \in DOMAIN steps}
    BY DEF Meant
  <2>8. ResolveTarget(steps, ref, i) # NoNode
    BY <2>2, <2>6, <2>7, StepsAssumption
  <2>9. Route(graph, Names[i], answer) = ResolveTarget(steps, ref, i)
    BY <2>1, <2>3, <2>8, AnswersAre, BranchIsFollowed
  <2> QED
    BY <2>6, <2>9 DEF ref
<1> QED
  BY <1>1, GraphInit, GraphStep, PTL DEF Spec

\* A run whose plan has no branch back to its first step begins with that
\* step, whatever the order of the edges (findStartNodes).
THEOREM FirstStepIsFirst == Spec => []BeginsWithFirstStep
<1>1. ASSUME GraphInv
      PROVE  BeginsWithFirstStep
  <2> SUFFICES ASSUME \A e \in DOMAIN graph.edges : graph.edges[e].target # Names[1]
               PROVE  StartNode(graph) = Names[1]
    BY DEF BeginsWithFirstStep
  <2>1. steps \in Lists /\ graph = StepsToGraph(steps)
    BY <1>1 DEF GraphInv
  <2>2. 1 \in DOMAIN steps /\ DOMAIN steps \subseteq Nat \ {0}
    BY <2>1, ListType
  <2>3. DOMAIN graph.nodes = DOMAIN steps /\ graph.nodes[1].id = Names[1]
    BY <2>1, <2>2, GraphNodes
  <2>4. 1 \in FindStartNodes(graph) /\ FindStartNodes(graph) \subseteq Nat \ {0}
    BY <2>2, <2>3 DEF FindStartNodes
  <2>5. First(FindStartNodes(graph)) = 1
    BY <2>4 DEF First
  <2> QED
    BY <2>3, <2>4, <2>5 DEF StartNode
<1> QED
  BY <1>1, GraphInit, GraphStep, PTL DEF Spec

\* No edge of a plan made by the tool dangles: a walk is always at a step of
\* the list, or over (the nodeMap lookup of Runner.execute never fails).
THEOREM WalkStaysOnSteps == Spec => []TypeOK
<1> DEFINE Inv == GraphInv /\ TypeOK
<1>1. Init => TypeOK
  BY StartStays DEF Init, TypeOK
<1>2. Inv /\ [Next]_vars => TypeOK'
  <2> SUFFICES ASSUME Inv, [Next]_vars
               PROVE  TypeOK'
    OBVIOUS
  <2>1. CASE Walk
    BY <2>1, RouteStays DEF GraphInv, Walk, TypeOK
  <2>2. CASE UNCHANGED vars
    BY <2>2 DEF vars, TypeOK
  <2> QED
    BY <2>1, <2>2 DEF Next
<1> QED
  BY <1>1, <1>2, GraphInit, GraphStep, PTL DEF Spec
=============================================================================
