---------------------------- MODULE MCAdminPages ----------------------------
(* Instances of GuardStudio and LlmPage for TLC.  The pages share no state: screen *)
(* tells which one a behaviour is about, and the other stays in an initial state.  *)
EXTENDS GuardStudio, LlmPage

CONSTANTS g1, g2, ls, psql, odd, w1, h1, H1, ip4, ip6, k1, k2, e1, e2, m1, m2, f1

VARIABLE screen

MCPrograms == {ls, psql, odd, "sudo", "nohup"}
MCWords == {w1, "other"}

MCNeeds == [p \in MCPrograms |-> IF p = ls THEN {"writeFs"} ELSE {}]

\* The argument "other" of ls holds a blank; the keyword "other" is w1 and a sign.
MCArgIn == [pw \in MCPrograms \X MCWords |-> IF pw = <<ls, "other">> THEN <<odd, "other">> ELSE pw]
MCSqlIn == [w \in MCWords |-> w1]

\* H1 is h1 with a capital letter.
MCMatched == [t \in {h1, ip4, ip6} |-> IF t = h1 THEN {h1, H1} ELSE {t}]
MCReported == [e \in {h1, H1, ip4, ip6} |-> IF e = H1 THEN h1 ELSE e]

Base == [EMPTY_FORM EXCEPT !.name = "a"]

\* A profile that was stored with rules of every kind, or none.
MCForms ==
    {[p \in {g1, g2} |-> IF p = g1
        THEN [Base EXCEPT !.caps = {"pipes", "background", "sudo", "codeExec", "writeFs"},
                     !.commands = <<[Plain(psql) EXCEPT !.allowedSql = {"other"}]>>] ELSE None],
     [p \in {g1, g2} |-> [Base EXCEPT !.mode = "closed", !.egress.mode = "closed"]]}

Gate(rule) == [rule |-> rule, program |-> None, word |-> None]
Calls(p, w) == [rule |-> "call", program |-> p, word |-> w]
Asks(p, w) == [rule |-> "query", program |-> p, word |-> w]

\* In turn: sudo ls w1, two queries of psql, sudo nohup ls, bash -c 'ls other | ls'.
MCLines == {[words |-> <<"sudo", ls>>, steps |-> <<Gate("sudo"), Calls(ls, w1)>>],
            [words |-> <<psql>>, steps |-> <<Asks(psql, w1), Asks(psql, "other")>>],
            [words |-> <<"sudo", "nohup">>,
             steps |-> <<Gate("sudo"), Gate("background"), Calls(ls, None)>>],
            [words |-> <<odd>>,
             steps |-> <<Gate("codeExec"), Gate("pipes"), Calls(ls, "other"), Calls(ls, None)>>]}

\* One endpoint has a model, the other has none.
MCEngines ==
    {[endpoints |-> {e1, e2}, models |-> [m \in {m1, m2} |-> IF m = m1 THEN e1 ELSE NoId],
      presets |-> {f1}, routing |-> [s \in Slots |-> NoId]]}

MCInit ==
    /\ screen \in {"guard", "engine"} /\ Init /\ LlmInit
    /\ screen = "engine" => focus = "form" /\ route = "list" /\ stored[g1].mode = "closed"
    /\ focus = "panels" => route = "list" /\ stored[g2] = None

MCNext ==
    \/ screen = "guard" /\ Next /\ UNCHANGED <<screen, llmVars>>
    \/ screen = "engine" /\ LlmNext /\ UNCHANGED <<screen, vars>>

MCSpec == MCInit /\ [][MCNext]_<<screen, vars, llmVars>>
============================================================================
