------------------------------ MODULE TelegramStep ------------------------------
(***************************************************************************)
(* The step of the setup wizard that links a Telegram account: a bot token *)
(* is verified, and the account that sends the bot its code is looked for  *)
(* by polling.  The web shell verifies the first token again whenever the  *)
(* wizard renders; the XP shell verifies it once and remembers the account *)
(* that a Re-link gave up.  Back and Next unmount the step and its bot and *)
(* memory with it, while the token, the account and the skip flag stay in  *)
(* the wizard.  A bot stands for the token it was verified with; status    *)
(* answers are as of the moment they are asked for.                        *)
(***************************************************************************)
EXTENDS Naturals, FiniteSets

CONSTANTS Tokens, Users, Nothing,
          MaxAsked     \* bound on the answers in flight

ASSUME LinkAssumption == Nothing \notin Tokens \cup Users /\ MaxAsked \in Nat

VARIABLES shell,       \* "web" or "xp"
          onStep,      \* the step is mounted
          first,       \* initialTokenRef
          token, linked, skip,     \* tgToken, tgLinkedUser, tgSkip
          linkedOf,    \* history: the token that the linked account was found with
          gaveUp,      \* history: the account that a Re-link gave up for this token, until
                       \* an account is linked again
          leftSince,   \* history: the step was left since that Re-link
          bot, verifying,
          ignored,     \* ignoredUserId
          asked,       \* requests in flight
          linkedAt     \* server: token -> the account that sent its code

historyVars == <<linkedOf, gaveUp, leftSince>>
uiVars == <<onStep, first, token, linked, skip, bot, verifying, ignored, historyVars>>
linkVars == <<shell, uiVars, asked, linkedAt>>

\* Mutant: the answers that the effect before asked for still count.
Cancel_Keeps(as) == as

\* The cleanup of the effect that polls.
Cancel(as) == {[a EXCEPT !.live = a.live /\ a.op # "status"] : a \in as}

Verify(t) == {[op |-> "verify", of |-> t, live |-> TRUE, user |-> Nothing, but |-> Nothing]}

\* The poll runs while there is a bot, a token and nobody is linked; it is asked at once
\* when its effect starts and then by its timer.
Status(t, but) == {[op |-> "status", of |-> t, live |-> TRUE, user |-> linkedAt[t], but |-> but]}

Polls == ~skip /\ bot # Nothing /\ token # Nothing /\ linked = Nothing

Room == Cardinality(asked) < MaxAsked

\* A render of the wizard: the web shell verifies the first token again.
Reverify(as) == IF shell = "web" /\ first # Nothing THEN as \cup Verify(first) ELSE as

\* The wizard starts from the saved configuration, which may hold an account beside a
\* token that is not shown.
LinkInit ==
    /\ shell \in {"web", "xp"} /\ first \in Tokens \cup {Nothing}
    /\ onStep = TRUE /\ token = first /\ linked \in Users \cup {Nothing} /\ skip \in BOOLEAN
    /\ linkedOf = first /\ gaveUp = Nothing /\ leftSince = FALSE
    /\ bot = Nothing /\ ignored = Nothing
    /\ verifying = (first # Nothing)
    /\ asked = IF first = Nothing THEN {} ELSE Verify(first)
    /\ linkedAt = [t \in Tokens |-> Nothing]

\* The effects of a render: no poll asked for before it counts, and a verification may begin.
LinkRerenders(as) ==
    /\ asked' = Reverify(Cancel(as))
    /\ verifying' = (verifying \/ asked' # Cancel(as))

\* The field: reset() drops the bot and the account.
TypeToken(t) ==
    /\ onStep /\ ~skip /\ t # token /\ Room
    /\ token' = t /\ linked' = Nothing /\ bot' = Nothing /\ ignored' = Nothing
    /\ linkedOf' = Nothing /\ gaveUp' = Nothing
    /\ LinkRerenders(asked)
    /\ UNCHANGED <<shell, onStep, first, skip, leftSince, linkedAt>>

\* The button, and leaving the field in the web shell.
ClickVerify ==
    /\ onStep /\ ~skip /\ token # Nothing /\ Room
    /\ ~verifying \/ (shell = "web" /\ bot = Nothing)
    /\ verifying' = TRUE /\ asked' = asked \cup Verify(token)
    /\ UNCHANGED <<shell, onStep, first, token, linked, skip, bot, ignored, historyVars, linkedAt>>

ToggleSkip ==
    /\ onStep /\ Room /\ skip' = ~skip
    /\ LinkRerenders(asked)
    /\ UNCHANGED <<shell, onStep, first, token, linked, bot, ignored, historyVars, linkedAt>>

Relink ==
    /\ onStep /\ bot # Nothing /\ linked # Nothing /\ ~skip /\ Room
    /\ linked' = Nothing
    /\ ignored' = IF shell = "xp" THEN linked ELSE Nothing
    /\ linkedOf' = Nothing /\ gaveUp' = linked /\ leftSince' = FALSE
    /\ LinkRerenders(asked)
    /\ UNCHANGED <<shell, onStep, first, token, skip, bot, linkedAt>>

\* Back, or Next: another step is rendered, the step's state is gone and no answer to what
\* it asked for finds it.
LeaveStep ==
    /\ onStep /\ onStep' = FALSE
    /\ bot' = Nothing /\ verifying' = FALSE /\ ignored' = Nothing
    /\ asked' = {[a EXCEPT !.live = FALSE] : a \in asked}
    /\ leftSince' = TRUE
    /\ UNCHANGED <<shell, first, token, linked, skip, linkedOf, gaveUp, linkedAt>>

\* The step is mounted anew and verifies the token that is in the field now.
EnterStep ==
    /\ ~onStep /\ onStep' = TRUE /\ Room
    /\ first' = token /\ verifying' = (token # Nothing)
    /\ asked' = IF token = Nothing THEN asked ELSE asked \cup Verify(token)
    /\ UNCHANGED <<shell, token, linked, skip, bot, ignored, historyVars, linkedAt>>

\* tick
Poll ==
    /\ Polls /\ Room /\ asked' = asked \cup Status(token, ignored)
    /\ UNCHANGED <<shell, uiVars, linkedAt>>

\* A new bot starts the poll over; whichever token it was verified with.
VerifyReply(a, ok) ==
    /\ a.op = "verify"
    /\ IF a.live
       THEN bot' = (IF ok THEN a.of ELSE Nothing) /\ verifying' = FALSE /\ asked' = Cancel(asked \ {a})
       ELSE asked' = asked \ {a} /\ UNCHANGED <<bot, verifying>>
    /\ UNCHANGED <<shell, onStep, first, token, linked, skip, ignored, historyVars, linkedAt>>

\* Mutant: the account that is given up counts like any other.
Counts_Any(a) == a.live /\ a.user # Nothing

\* The XP shell passes over the account that was given up.
Counts(a) == a.live /\ a.user # Nothing /\ (shell = "xp" => a.user # a.but)

StatusReply(a) ==
    /\ a.op = "status"
    /\ IF Counts(a)
       THEN /\ linked' = a.user /\ ignored' = Nothing
            /\ linkedOf' = a.of /\ gaveUp' = Nothing
            /\ LinkRerenders(asked \ {a})
       ELSE asked' = asked \ {a} /\ UNCHANGED <<linked, ignored, linkedOf, gaveUp, verifying>>
    /\ UNCHANGED <<shell, onStep, first, token, skip, bot, leftSince, linkedAt>>

StatusFails(a) ==
    /\ a.op = "status" /\ asked' = asked \ {a}
    /\ UNCHANGED <<shell, uiVars, linkedAt>>

\* An account sends the code; the server remembers the first one, whoever asks.
CodeSent(t, u) ==
    /\ linkedAt[t] = Nothing /\ linkedAt' = [linkedAt EXCEPT ![t] = u]
    /\ UNCHANGED <<shell, uiVars, asked>>

\* gcLocked: what was verified or polled for too long ago is forgotten.
Forgets(t) ==
    /\ linkedAt[t] # Nothing /\ linkedAt' = [linkedAt EXCEPT ![t] = Nothing]
    /\ UNCHANGED <<shell, uiVars, asked>>

LinkNext ==
    \/ \E t \in Tokens \cup {Nothing} : TypeToken(t)
    \/ ClickVerify \/ ToggleSkip \/ Relink \/ LeaveStep \/ EnterStep \/ Poll
    \/ \E a \in asked : (\E ok \in BOOLEAN : VerifyReply(a, ok)) \/ StatusReply(a) \/ StatusFails(a)
    \/ \E t \in Tokens : Forgets(t) \/ \E u \in Users : CodeSent(t, u)

-----------------------------------------------------------------------------

\* The linked account was found with the token in the field, however late the answers
\* of a former token come (the cancelled flag of the effect in both shells).
LinkedIsOfToken == linked # Nothing => linkedOf = token

\* In the XP shell the account that a Re-link gave up is not linked again by itself: "ignore
\* it until a DIFFERENT account sends the code" (TelegramStep of the XP wizard).  The
\* exception is a step that was left in between: ignoredUserId went with it.
GivenUpStaysGivenUp ==
    [][shell = "xp" /\ gaveUp # Nothing /\ ~leftSince => linked' # gaveUp]_linkVars
=============================================================================
