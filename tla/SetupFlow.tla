------------------------------- MODULE SetupFlow -------------------------------
(***************************************************************************)
(* What a setup wizard promises, whatever its steps are: it saves only a   *)
(* complete draft, one at a time, and reports that it is done only after a *)
(* save.  SetupWizard is shown to implement it.                            *)
(***************************************************************************)

VARIABLES stage,      \* "open", "saving", "done", "closed", or "left": closed while saving
          complete    \* the draft on screen has what a provider needs

FlowInit == stage = "open" /\ complete \in BOOLEAN

\* The user fills in the form, also while a save is under way.
Edit == stage' = stage /\ complete' \in BOOLEAN

Moves(from, to) == stage = from /\ stage' = to

Submit == complete /\ Moves("open", "saving") /\ complete' = complete

Refuse == (Moves("saving", "open") \/ Moves("left", "closed")) /\ complete' = complete

\* A save that was under way when the wizard was closed still ends.  The draft is gone
\* with the wizard.
Finish == (Moves("saving", "done") \/ Moves("left", "done")) /\ complete' \in BOOLEAN

Close == (Moves("open", "closed") \/ Moves("saving", "left")) /\ complete' \in BOOLEAN

FlowNext == Edit \/ Submit \/ Refuse \/ Finish \/ Close

FlowSpec == FlowInit /\ [][FlowNext]_<<stage, complete>>
=============================================================================
