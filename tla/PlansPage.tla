------------------------------- MODULE PlansPage -------------------------------
(***************************************************************************)
(* The page of plans: the list, the editor it opens, from the list or from *)
(* the plan named in the URL, and the panel of runs under the editor.  A   *)
(* graph is a token: PlanCanvas models the drawing.  A request is answered *)
(* when it is sent and its answer comes later, in any order, also to a     *)
(* page or an editor that is gone.  One run stands for the runs of a plan. *)
(***************************************************************************)
EXTENDS Naturals, FiniteSets

CONSTANTS Plans,        \* ids of plans
          Graphs,       \* what can be drawn
          NoPlan,       \* null
          NewPlan,      \* the id of a plan that was never saved
          MaxInFlight   \* bound on the requests the user has under way

Editors == [id : Plans \cup {NewPlan}, on : BOOLEAN, graph : Graphs, named : BOOLEAN, metaOpen : BOOLEAN,
            listed : BOOLEAN, expanded : BOOLEAN, drawn : BOOLEAN]

ASSUME PlansAssumption ==
    /\ MaxInFlight \in Nat /\ Graphs # {}
    /\ NoPlan \notin Plans \cup Editors /\ NewPlan \notin Plans \cup {NoPlan}

VARIABLES saved,        \* server: plan -> [on, graph], or NoPlan
          ran,          \* server: the plans with a run
          away,         \* another page is shown
          deepPlanId,
          plans, loading, deletePlan,    \* state of the page
          editor,       \* the editor's state, or NoPlan
          inFlight,     \* requests and answers under way
          returnChat    \* sessionStorage: the editor was opened from a chat

pageVars == <<away, deepPlanId, plans, loading, deletePlan>>
plansVars == <<saved, ran, pageVars, editor, inFlight, returnChat>>

NothingListed == [p \in Plans |-> NoPlan]

\* The editor of a plan: its own copy of the plan, the dialog of settings, and the panel.
Editor(id, plan) ==
    [id |-> id, on |-> plan.on, graph |-> plan.graph, named |-> id # NewPlan,
     metaOpen |-> id = NewPlan, listed |-> FALSE, expanded |-> FALSE, drawn |-> FALSE]

\* A request of the page, or of the editor that is mounted.
Request(kind, own) == [kind |-> kind, own |-> own, ok |-> TRUE]

ListRequests ==
    {[kind |-> "list", own |-> FALSE, ok |-> TRUE, plans |-> saved],
     [kind |-> "list", own |-> FALSE, ok |-> FALSE, plans |-> NothingListed]}

RunsRequest(id, expanded, then) ==
    [kind |-> then, own |-> TRUE, ok |-> TRUE, expanded |-> expanded, has |-> id \in ran]

\* What is under way when the editor goes and still has an effect: its answers reload the
\* page, and a run that was started leads to its chat.
Orphaned(rs) ==
    {r \in rs : ~r.own} \cup
    {[r EXCEPT !.own = FALSE] : r \in {q \in rs : q.own /\ q.ok /\ q.kind \notin {"runs", "cancel"}}}
Abandoned(rs) == {r \in Orphaned(rs) : r.kind \in {"trigger", "triggered"}}

ListRows == ~away /\ editor = NoPlan /\ deletePlan = NoPlan /\ ~loading
Editing == ~away /\ editor # NoPlan /\ ~editor.metaOpen
HasRoom == Cardinality(inFlight) < MaxInFlight

PlansInit ==
    /\ saved \in [Plans -> {NoPlan} \cup [on : {FALSE}, graph : Graphs]] /\ ran = {}
    /\ away = TRUE /\ deepPlanId = NoPlan /\ plans = NothingListed
    /\ loading = FALSE /\ deletePlan = NoPlan /\ editor = NoPlan
    /\ inFlight = {} /\ returnChat = FALSE

-----------------------------------------------------------------------------
(* Coming and going.  The page is keyed by the plan of its URL. *)

Mounts(id) ==
    /\ away' = FALSE /\ deepPlanId' = id /\ plans' = NothingListed /\ loading' = TRUE
    /\ deletePlan' = NoPlan /\ editor' = NoPlan
    /\ \E r \in ListRequests : inFlight' = Abandoned(inFlight) \cup {r}

GoesAway(rs) ==
    /\ away' = TRUE /\ deepPlanId' = NoPlan /\ plans' = NothingListed /\ loading' = FALSE
    /\ deletePlan' = NoPlan /\ editor' = NoPlan /\ inFlight' = Abandoned(rs)

\* Reload and keep what is shown.
load(rs) == loading' = TRUE /\ \E r \in ListRequests : inFlight' = rs \cup {r}

\* From the navigation, or from a link in a chat, which is remembered.
Arrive(id, fromChat) ==
    /\ away \/ (deepPlanId # id /\ id = NoPlan)
    /\ fromChat => away /\ id # NoPlan
    /\ Mounts(id) /\ returnChat' = (returnChat \/ fromChat) /\ UNCHANGED <<saved, ran>>

Leave == ~away /\ GoesAway(inFlight) /\ UNCHANGED <<saved, ran, returnChat>>

onBack ==
    /\ returnChat' = FALSE
    /\ IF returnChat THEN GoesAway(inFlight)
       ELSE IF deepPlanId # NoPlan THEN Mounts(NoPlan)
       ELSE editor' = NoPlan /\ load(Orphaned(inFlight)) /\ UNCHANGED <<away, deepPlanId, plans, deletePlan>>

Back == Editing /\ onBack /\ UNCHANGED <<saved, ran>>

\* Mutant: the editor is mounted again with the plan as it was listed.
DeepLink_Remounts(listed, rs) ==
    IF deepPlanId # NoPlan /\ listed[deepPlanId] # NoPlan
    THEN /\ editor' = Editor(deepPlanId, listed[deepPlanId])
         /\ inFlight' = rs \cup {RunsRequest(deepPlanId, FALSE, "runs")}
    ELSE editor' = editor /\ inFlight' = rs

\* The effect on the list: the plan of the URL is opened.  An editor that is there keeps
\* its state, also that of another plan.
DeepLink(listed, rs) ==
    IF deepPlanId # NoPlan /\ listed[deepPlanId] # NoPlan /\ editor = NoPlan
    THEN /\ editor' = Editor(deepPlanId, listed[deepPlanId])
         /\ inFlight' = rs \cup {RunsRequest(deepPlanId, FALSE, "runs")}
    ELSE editor' = editor /\ inFlight' = rs

ListReply(r) ==
    /\ r.kind = "list" /\ loading' = FALSE
    /\ plans' = IF r.ok THEN r.plans ELSE plans
    /\ DeepLink(plans', inFlight \ {r})
    /\ UNCHANGED <<saved, ran, away, deepPlanId, deletePlan, returnChat>>

-----------------------------------------------------------------------------
(* The list. *)

Opens(id, plan) ==
    /\ HasRoom /\ editor' = Editor(id, plan)
    /\ inFlight' = inFlight \cup (IF id = NewPlan THEN {} ELSE {RunsRequest(id, FALSE, "runs")})
    /\ UNCHANGED <<saved, ran, pageVars, returnChat>>

OpenRow(p) == ListRows /\ plans[p] # NoPlan /\ Opens(p, plans[p])

\* The button is there while the list is loading.
OpenNew(g) ==
    ~away /\ editor = NoPlan /\ deletePlan = NoPlan /\ Opens(NewPlan, [on |-> FALSE, graph |-> g])

Posts(r) == HasRoom /\ inFlight' = inFlight \cup {r}

\* The whole plan, as it is listed, is written back.
toggleRow(p, ok) ==
    /\ ListRows /\ plans[p] # NoPlan /\ Posts([Request("row", FALSE) EXCEPT !.ok = ok])
    /\ saved' = IF ok THEN [saved EXCEPT ![p] = [plans[p] EXCEPT !.on = ~@]] ELSE saved
    /\ ok => saved[p] # NoPlan
    /\ UNCHANGED <<ran, pageVars, editor, returnChat>>

AskDelete(p) ==
    /\ ListRows /\ plans[p] # NoPlan /\ deletePlan' = p
    /\ UNCHANGED <<saved, ran, away, deepPlanId, plans, loading, editor, inFlight, returnChat>>

\* The dialog closes, confirmed or not.
AnswerDelete(yes, ok) ==
    /\ ~away /\ deletePlan # NoPlan /\ deletePlan' = NoPlan
    /\ IF yes THEN /\ Posts([Request("delete", FALSE) EXCEPT !.ok = ok])
                   /\ saved' = IF ok THEN [saved EXCEPT ![deletePlan] = NoPlan] ELSE saved
       ELSE UNCHANGED <<saved, inFlight>>
    /\ UNCHANGED <<ran, away, deepPlanId, plans, loading, editor, returnChat>>

\* The list is loaded again; a deletion closes the dialog, whichever plan it asks about.
RowReply(r) ==
    /\ r.kind \in {"row", "delete"}
    /\ deletePlan' = IF r.ok /\ r.kind = "delete" THEN NoPlan ELSE deletePlan
    /\ IF r.ok THEN load(inFlight \ {r}) ELSE inFlight' = inFlight \ {r} /\ loading' = loading
    /\ UNCHANGED <<saved, ran, away, deepPlanId, plans, editor, returnChat>>

-----------------------------------------------------------------------------
(* The editor. *)

Draw(g) ==
    /\ Editing /\ editor' = [editor EXCEPT !.graph = g]
    /\ UNCHANGED <<saved, ran, pageVars, inFlight, returnChat>>

OpenSettings ==
    /\ Editing /\ editor' = [editor EXCEPT !.metaOpen = TRUE]
    /\ UNCHANGED <<saved, ran, pageVars, inFlight, returnChat>>

\* The dialog is submitted, or only put away.
submitMeta(on) ==
    /\ editor # NoPlan /\ editor.metaOpen
    /\ editor' \in {[editor EXCEPT !.metaOpen = FALSE, !.named = TRUE, !.on = on],
                    [editor EXCEPT !.metaOpen = FALSE]}
    /\ UNCHANGED <<saved, ran, pageVars, inFlight, returnChat>>

\* Its button Cancel leaves an editor whose plan has neither an id nor a name.
closeMeta ==
    /\ editor # NoPlan /\ editor.metaOpen /\ editor.id = NewPlan /\ ~editor.named
    /\ onBack /\ UNCHANGED <<saved, ran>>

Drawn == [on |-> editor.on, graph |-> editor.graph]

\* The button stays enabled while a save is under way.
savePlan(ok) ==
    /\ Editing /\ editor.named
    /\ IF editor.id # NewPlan
       THEN /\ ok => saved[editor.id] # NoPlan
            /\ saved' = IF ok THEN [saved EXCEPT ![editor.id] = Drawn] ELSE saved
            /\ Posts([Request("save", TRUE) EXCEPT !.ok = ok])
       ELSE \E p \in {q \in Plans : saved[q] = NoPlan} :
            /\ saved' = IF ok THEN [saved EXCEPT ![p] = Drawn] ELSE saved
            /\ Posts([kind |-> "create", own |-> TRUE, ok |-> ok, id |-> p, on |-> editor.on])
    /\ UNCHANGED <<ran, pageVars, editor, returnChat>>

\* The flag is shown at once, and written when the plan has an id.
toggleEnabled(ok) ==
    /\ Editing /\ editor.named /\ editor' = [editor EXCEPT !.on = ~@]
    /\ IF editor.id = NewPlan THEN UNCHANGED <<saved, inFlight>>
       ELSE /\ ok => saved[editor.id] # NoPlan
            /\ saved' = IF ok THEN [saved EXCEPT ![editor.id] = [Drawn EXCEPT !.on = ~@]] ELSE saved
            /\ Posts([kind |-> "toggle", own |-> TRUE, ok |-> ok, next |-> ~editor.on])
    /\ UNCHANGED <<ran, pageVars, returnChat>>

\* What was created replaces the settings on screen, and the panel of runs appears.
Created(r, rs) ==
    IF r.kind = "create" /\ r.own
    THEN /\ editor' = [editor EXCEPT !.id = r.id, !.on = r.on, !.named = TRUE]
         /\ load(rs \cup {RunsRequest(r.id, FALSE, "runs")})
    ELSE editor' = editor /\ load(rs)

SaveReply(r) ==
    /\ r.kind \in {"save", "create", "toggle"}
    /\ IF r.ok THEN Created(r, inFlight \ {r})
       ELSE /\ editor' = IF r.kind = "toggle" /\ r.own THEN [editor EXCEPT !.on = ~r.next] ELSE editor
            /\ inFlight' = inFlight \ {r} /\ loading' = loading
    /\ UNCHANGED <<saved, ran, away, deepPlanId, plans, deletePlan, returnChat>>

-----------------------------------------------------------------------------
(* The panel of runs. *)

loadRuns(then) == RunsRequest(editor.id, editor.expanded, then)

PollRuns ==
    /\ ~away /\ editor # NoPlan /\ editor.id # NewPlan /\ Posts(loadRuns("runs"))
    /\ UNCHANGED <<saved, ran, pageVars, editor, returnChat>>

\* The steps are drawn on the graph when the run was expanded as the list was asked for.
RunsShown(r) ==
    IF ~r.own THEN editor
    ELSE [editor EXCEPT !.listed = r.has, !.drawn = @ \/ (r.expanded /\ r.has)]

RunsReply(r) ==
    /\ r.kind = "runs" /\ inFlight' = inFlight \ {r} /\ editor' = RunsShown(r)
    /\ UNCHANGED <<saved, ran, pageVars, returnChat>>

ToggleRun ==
    /\ Editing /\ editor.listed
    /\ editor' = [editor EXCEPT !.expanded = ~@, !.drawn = ~editor.expanded]
    /\ Posts(RunsRequest(editor.id, ~editor.expanded, "runs"))
    /\ UNCHANGED <<saved, ran, pageVars, returnChat>>

\* A run is started, with the parameters asked for, or the one listed is cancelled.
AskRun(kind, ok) ==
    /\ Editing /\ editor.id # NewPlan /\ (kind = "cancel" => editor.listed)
    /\ Posts([kind |-> kind, own |-> TRUE, ok |-> ok, id |-> editor.id])
    /\ ran' = IF ok /\ kind = "trigger" THEN ran \cup {editor.id} ELSE ran
    /\ UNCHANGED <<saved, pageVars, editor, returnChat>>

\* A new run is expanded and the runs are loaded, also by a panel that is gone.
AskRunReply(r) ==
    /\ r.kind \in {"trigger", "cancel"}
    /\ IF ~r.ok THEN inFlight' = inFlight \ {r} /\ editor' = editor
       ELSE LET wasExpanded == r.own /\ editor.expanded
                then == IF r.kind = "trigger" THEN "triggered" ELSE "runs"
            IN  /\ inFlight' = (inFlight \ {r}) \cup
                       (IF r.own \/ r.kind = "trigger"
                        THEN {[RunsRequest(r.id, wasExpanded, then) EXCEPT !.own = r.own]} ELSE {})
                /\ editor' = IF r.own /\ r.kind = "trigger"
                             THEN [editor EXCEPT !.expanded = TRUE, !.drawn = TRUE] ELSE editor
    /\ UNCHANGED <<saved, ran, pageVars, returnChat>>

\* Once the runs are loaded the chat of the new one is opened, wherever the user is.
TriggeredReply(r) ==
    /\ r.kind = "triggered" /\ GoesAway(inFlight \ {r}) /\ UNCHANGED <<saved, ran, returnChat>>

PlansNext ==
    \/ \E id \in Plans \cup {NoPlan}, chat \in BOOLEAN : Arrive(id, chat)
    \/ Leave \/ Back \/ OpenSettings \/ closeMeta \/ PollRuns \/ ToggleRun
    \/ \E g \in Graphs : OpenNew(g) \/ Draw(g)
    \/ \E on \in BOOLEAN : submitMeta(on)
    \/ \E p \in Plans : \/ OpenRow(p) \/ AskDelete(p)
                        \/ \E ok \in BOOLEAN : toggleRow(p, ok)
    \/ \E yes, ok \in BOOLEAN : AnswerDelete(yes, ok)
    \/ \E ok \in BOOLEAN : savePlan(ok) \/ toggleEnabled(ok)
    \/ \E ok \in BOOLEAN, kind \in {"trigger", "cancel"} : AskRun(kind, ok)
    \/ \E r \in inFlight : \/ ListReply(r) \/ RowReply(r) \/ SaveReply(r)
                           \/ RunsReply(r) \/ AskRunReply(r) \/ TriggeredReply(r)

PlansSpec == PlansInit /\ [][PlansNext]_plansVars

-----------------------------------------------------------------------------

\* No answer changes what is drawn in the editor: not the list that a save or a toggle
\* reloads and whose effect sets the plan of the URL again, not the plan that was created,
\* not the runs whose steps colour the graph (PlansPage, PlanEditor, PlanRuns).
DrawingIsTheUsers ==
    [][editor # NoPlan /\ editor' # NoPlan /\ inFlight' # inFlight
         => editor'.graph = editor.graph]_plansVars
=============================================================================
