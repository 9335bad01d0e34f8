----------------------------- MODULE MCPlanSteps -----------------------------
(***************************************************************************)
(* Every list of up to three steps, with user ids that may clash.         *)
(***************************************************************************)
EXTENDS PlanSteps

MCNames == <<"n1", "n2", "n3">>
MCUserIds == {"", "n2"}
MCRefs == {"", "next", "end", "n1", "n2"}
=============================================================================
