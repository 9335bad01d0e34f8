------------------------------- MODULE MCScreens -------------------------------
(* Screens of the web client that do not share state, in one run: focus tells which *)
(* one the behaviour is about, and the others stay in one initial state.            *)
EXTENDS SetupWizard, TelegramStep, DesktopIcons, PlansPage, PlanCanvas

CONSTANTS t1, t2, u1, u2, p1

VARIABLE focus

Order == <<"bin", "i1", "i2">>

NoGraph == [nodes |-> <<>>, edges |-> <<>>]
TwoSteps ==
    [nodes |-> <<[id |-> 1, type |-> "action"], [id |-> 2, type |-> "decision"]>>,
     edges |-> <<[source |-> 1, target |-> 2, drawnFrom |-> "", handle |-> ""]>>]
StoredGraphs == {NoGraph, TwoSteps}

Init ==
    /\ focus \in {"steps", "link", "icons", "plans", "canvas"}
    /\ SetupInit /\ LinkInit /\ IconsInit /\ PlansInit /\ CanvasInit
    \* Bound: of the resumed wizards that skip steps, those that skip one of these two.
    /\ focus = "steps" /\ skips # {} => skips \cap {"provider", "openai"} # {}
    /\ focus # "steps" => skips = {} /\ inferenced /\ form = Blank
    /\ focus # "link" => shell = "web" /\ first = Nothing /\ linked = Nothing /\ ~skip
    /\ focus # "icons" => stored = positions
    /\ focus # "plans" => saved = NothingListed
    /\ focus # "canvas" => nodes = <<>>

Next ==
    \/ focus = "steps" /\ SetupNext /\ UNCHANGED <<focus, linkVars, iconVars, plansVars, canvasVars>>
    \/ focus = "link" /\ LinkNext /\ UNCHANGED <<focus, setupVars, iconVars, plansVars, canvasVars>>
    \/ focus = "icons" /\ IconsNext /\ UNCHANGED <<focus, setupVars, linkVars, plansVars, canvasVars>>
    \/ focus = "plans" /\ PlansNext /\ UNCHANGED <<focus, setupVars, linkVars, iconVars, canvasVars>>
    \/ focus = "canvas" /\ CanvasNext /\ UNCHANGED <<focus, setupVars, linkVars, iconVars, plansVars>>

Spec == Init /\ [][Next]_<<focus, setupVars, linkVars, iconVars, plansVars, canvasVars>>
=============================================================================
