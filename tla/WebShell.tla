------------------------------ MODULE WebShell ------------------------------
(***************************************************************************)
(* The frame of the web client: App (who is signed in, whether the setup   *)
(* wizard is due, which chat is open, which route is shown), LoginPage,    *)
(* the router and ChatSidebar.  Every call of api.ts is a record in calls: *)
(* sent, then answered by the server (st), then delivered to the closure   *)
(* that awaits it; calls are delivered in any order.  A closure keeps the  *)
(* values it read when it was created (page, seen).                        *)
(***************************************************************************)
EXTENDS Naturals, Sequences, FiniteSets, Filters

CONSTANTS Sessions,        \* ids of chat sessions
          PlanSessions,    \* the ones whose source is "plan"
          None,            \* null, undefined and ''
          InitialLists,    \* the session lists the server may start with
          MaxActs,         \* bound on what users do and on requests that fail
          MaxPerOp         \* bound on concurrent calls a timer or a button starts

ASSUME ShellAssumption ==
    /\ PlanSessions \subseteq Sessions
    /\ None \notin Sessions
    /\ \A list \in InitialLists : list \in Seq([id : Sessions, title : {0, 1}])
    /\ MaxActs \in Nat /\ MaxPerOp \in Nat

VARIABLES cookie,       \* server: the auth cookie is valid
          configured,   \* server: deriveStatus(config).done
          sessions,     \* server: session rows, newest first
          used,         \* server: sessions that have messages
          born,         \* server: ids given so far
          user, authChecked, needsSetup, activeSessionId, route, winXp,
          past,         \* routes in the browser's history
          shown,        \* ChatSidebar: sessions
          deleteTarget, \* ChatSidebar: the session ConfirmDelete asks about
          editingId,    \* ChatSidebar: the session being renamed
          calls,        \* requests in flight
          acts,         \* how much of MaxActs is used
          fails         \* requests that failed

server == <<cookie, configured, sessions, used, born>>
sidebar == <<shown, deleteTarget, editingId>>
location == <<activeSessionId, route, past>>
vars == <<server, user, authChecked, needsSetup, location, winXp,
          sidebar, calls, acts, fails>>

Pages == {"chat", "plans", "channels", "hosts", "skills", "logs", "llm", "guard-profiles", "setup"}

Route == [page : Pages, sessionId : Sessions \cup {None}]

Ops == {"me", "login", "logout", "config", "boot", "newChat", "load", "delete", "rename"}

Row == [id : Sessions, title : {0, 1}]

Call == [op : Ops, n : Nat, pc : {"", "list", "messages", "create"}, arg : Sessions \cup {None},
         page : Pages, seen : Seq(Row), list : Seq(Row), flag : BOOLEAN, at : BOOLEAN,
         st : {"sent", "ok", "denied", "failed"}]

-----------------------------------------------------------------------------

\* ChatSidebar and the boot effect leave out the chats of plan runs.
Regular(list) == Kept(list, {i \in DOMAIN list : list[i].id \notin PlanSessions})

Without(list, id) == Kept(list, {i \in DOMAIN list : list[i].id # id})

Renamed(list, id) ==
    [i \in DOMAIN list |-> IF list[i].id = id THEN [list[i] EXCEPT !.title = 1] ELSE list[i]]

Ids(list) == {list[i].id : i \in DOMAIN list}

\* What App renders.
ScreenOf(checked, u, setup, xp) ==
    CASE ~checked                 -> "blank"
      [] checked /\ u = None      -> "login"
      [] checked /\ u # None /\ setup = "unknown" -> "blank"
      [] checked /\ u # None /\ setup = "yes" /\ ~xp -> "wizard"
      [] OTHER                    -> "main"

Screen == ScreenOf(authChecked, user, needsSetup, winXp)

InFlight(op) == {c \in calls : c.op = op}

\* Tells equal requests apart; polls that read the same list are one.
FreeNumber(op) ==
    IF op = "load" THEN 0
    ELSE CHOOSE n \in 1..Cardinality(InFlight(op)) + 1 : \A c \in InFlight(op) : c.n # n

\* A request as request() of api.ts sends it; page and seen are set for the
\* closures that use them after the await.
NewCall(op, pc, arg) ==
    [op |-> op, n |-> FreeNumber(op), pc |-> pc, arg |-> arg, page |-> "chat",
     seen |-> <<>>, list |-> <<>>, flag |-> FALSE, at |-> TRUE, st |-> "sent"]

\* A read is answered in the step that sends it: a later answer is the answer to
\* a later request.  Writes stay "sent" until Serve.
Read(op, pc, arg) ==
    [NewCall(op, pc, arg) EXCEPT
       !.st = IF cookie THEN "ok" ELSE "denied",
       !.flag = cookie /\ ((op = "config" /\ configured) \/ (pc = "messages" /\ arg \in used)),
       !.list = IF cookie /\ (op = "load" \/ pc = "list") THEN sessions ELSE <<>>]

\* The effects of App and of ChatSidebar that run after the render of a step:
\* [user] reads the configuration, [needsSetup, activeSessionId, route.page]
\* opens or creates a chat, mounting the sidebar loads its list.
ConfigEffect ==
    IF user' # None /\ user' # user THEN {Read("config", "", None)} ELSE {}

\* Mutant: the boot effect does not depend on needsSetup.
BootEffect_NoSetupDep ==
    IF /\ needsSetup' = "no" /\ activeSessionId' = None
       /\ <<activeSessionId', route'.page>> # <<activeSessionId, route.page>>
    THEN {[Read("boot", "list", None) EXCEPT !.page = route'.page]} ELSE {}

BootEffect ==
    IF /\ needsSetup' = "no"
       /\ activeSessionId' = None
       /\ <<needsSetup', activeSessionId', route'.page>> # <<needsSetup, activeSessionId, route.page>>
    THEN {[Read("boot", "list", None) EXCEPT !.page = route'.page]} ELSE {}

MountEffect ==
    IF Screen' = "main" /\ Screen # "main" THEN {Read("load", "", None)} ELSE {}

\* Closures of an unmounted sidebar set the state of nothing: a list that has
\* been read is dropped, and what is left is the 401 handler and onSelect.
Detach(cs) ==
    IF Screen' = "main" THEN cs
    ELSE {IF c.op \in {"load", "delete", "rename"} THEN [c EXCEPT !.at = FALSE] ELSE c :
            c \in {d \in cs : d.op # "load" \/ d.st = "denied"}}

\* bar: what a sidebar that stays mounted does.
Render(cs, bar) ==
    /\ IF Screen' = "main" THEN bar ELSE shown' = <<>> /\ deleteTarget' = None /\ editingId' = None
    /\ calls' = Detach(cs) \cup ConfigEffect \cup BootEffect \cup MountEffect

\* navigate and the popstate listener: the route is parsed again and the
\* effect [route] opens the chat it names.
Navigate(r, open) ==
    /\ route' = r
    /\ past' = past \cup {r}
    /\ activeSessionId' = IF r.page = "chat" /\ r.sessionId # None THEN r.sessionId ELSE open

Stay == UNCHANGED location

Account == <<user, authChecked, needsSetup>>

Act == /\ acts < MaxActs
       /\ acts' = acts + 1
       /\ UNCHANGED fails

Quiet == UNCHANGED <<acts, fails>>

\* Mutant: the 401 handler forgets the setup state only.
SignOut_KeepsUser == user' = user /\ needsSetup' = "unknown"

\* setUnauthorizedHandler: a 401 of any request signs the client out.
SignOut == user' = None /\ needsSetup' = "unknown"

-----------------------------------------------------------------------------

Init ==
    /\ cookie \in BOOLEAN
    /\ configured \in BOOLEAN
    /\ sessions \in InitialLists
    /\ used \in SUBSET Ids(sessions)
    /\ born = Ids(sessions)
    /\ user = None
    /\ authChecked = FALSE
    /\ needsSetup = "unknown"
    /\ activeSessionId = None
    /\ route = [page |-> "chat", sessionId |-> None]
    /\ past = {route}
    /\ winXp \in BOOLEAN
    /\ shown = <<>> /\ deleteTarget = None /\ editingId = None
    /\ calls = {[op |-> "me", n |-> 1, pc |-> "", arg |-> None, page |-> "chat", seen |-> <<>>,
                 list |-> <<>>, flag |-> FALSE, at |-> TRUE, st |-> IF cookie THEN "ok" ELSE "denied"]}
    /\ acts = 0 /\ fails = 0

\* The server answers a request: the handlers behind auth.Middleware answer
\* 401 without the cookie.
Answer(c, reply) == calls' = (calls \ {c}) \cup {reply}

Denied(c) ==
    /\ c.op # "logout"
    /\ IF c.op = "login" THEN ~c.flag ELSE ~cookie
    /\ Answer(c, [c EXCEPT !.st = "denied"])
    /\ UNCHANGED server

Granted(c) ==
    LET ok == [c EXCEPT !.st = "ok"]
    IN  \/ /\ c.op = "login" /\ c.flag
           /\ cookie' = TRUE
           /\ Answer(c, ok)
           /\ UNCHANGED <<configured, sessions, used, born>>
        \/ /\ c.op = "logout"
           /\ cookie' = FALSE
           /\ Answer(c, ok)
           /\ UNCHANGED <<configured, sessions, used, born>>
        \/ /\ c.pc = "create" /\ cookie
           /\ \E s \in Sessions \ (PlanSessions \cup born) :
                /\ born' = born \cup {s}
                /\ sessions' = <<[id |-> s, title |-> 0]>> \o sessions
                /\ Answer(c, [ok EXCEPT !.arg = s])
           /\ UNCHANGED <<cookie, configured, used>>
        \/ /\ c.op = "delete" /\ cookie
           /\ sessions' = Without(sessions, c.arg)
           /\ used' = used \ {c.arg}
           /\ Answer(c, ok)
           /\ UNCHANGED <<cookie, configured, born>>
        \/ /\ c.op = "rename" /\ cookie
           /\ sessions' = Renamed(sessions, c.arg)
           /\ Answer(c, ok)
           /\ UNCHANGED <<cookie, configured, used, born>>

Serve(c) ==
    /\ c.st = "sent"
    /\ Denied(c) \/ Granted(c)
    /\ UNCHANGED <<Account, location, winXp, sidebar, acts, fails>>

\* A request that never reaches the server, or whose answer is an error or lost.
RequestFails(c) ==
    /\ c.st \in {"sent", "ok"}
    /\ acts < MaxActs
    /\ acts' = acts + 1
    /\ fails' = fails + 1
    /\ Answer(c, [c EXCEPT !.st = "failed", !.list = <<>>, !.flag = FALSE, !.arg = None])
    /\ UNCHANGED <<server, Account, location, winXp, sidebar>>

-----------------------------------------------------------------------------
\* What each closure does with its answer.

MeReply(c) ==
    /\ c.op = "me" /\ c.st # "sent"
    /\ user' = IF c.st = "ok" THEN "user" ELSE None
    /\ authChecked' = TRUE
    /\ needsSetup' = IF c.st = "denied" THEN "unknown" ELSE needsSetup
    /\ Stay /\ Quiet
    /\ UNCHANGED <<server, winXp>>
    /\ Render(calls \ {c}, UNCHANGED sidebar)

LoginReply(c) ==
    /\ c.op = "login" /\ c.st # "sent"
    /\ CASE c.st = "ok"     -> user' = "user" /\ UNCHANGED needsSetup
         [] c.st = "denied" -> SignOut
         [] c.st = "failed" -> UNCHANGED <<user, needsSetup>>
    /\ Stay /\ Quiet
    /\ UNCHANGED <<server, winXp, authChecked>>
    /\ Render(calls \ {c}, UNCHANGED sidebar)

\* handleLogout signs out whatever the answer is.
LogoutReply(c) ==
    /\ c.op = "logout" /\ c.st # "sent"
    /\ SignOut
    /\ Stay /\ Quiet
    /\ UNCHANGED <<server, winXp, authChecked>>
    /\ Render(calls \ {c}, UNCHANGED sidebar)

\* A 401 of the configuration request signs out and is then caught like any
\* other error: needsSetup is false although nobody is signed in.
ConfigReply(c) ==
    /\ c.op = "config" /\ c.st # "sent"
    /\ user' = IF c.st = "denied" THEN None ELSE user
    /\ needsSetup' = IF c.st = "ok" /\ ~c.flag THEN "yes" ELSE "no"
    /\ Stay /\ Quiet
    /\ UNCHANGED <<server, winXp, authChecked>>
    /\ Render(calls \ {c}, UNCHANGED sidebar)

\* The answer of a request whose error is swallowed by an empty catch.
Swallowed(c) ==
    /\ c.op \in {"boot", "newChat", "load", "delete"}
    /\ c.st \in {"denied", "failed"}
    /\ IF c.st = "denied" THEN SignOut ELSE UNCHANGED <<user, needsSetup>>
    /\ Stay /\ Quiet
    /\ UNCHANGED <<server, winXp, authChecked>>
    /\ Render(calls \ {c}, UNCHANGED sidebar)

\* The refresh key of the sidebar is bumped and the chat is opened.
Opened(c, s, nav) ==
    /\ IF nav THEN Navigate([page |-> "chat", sessionId |-> s], s)
              ELSE activeSessionId' = s /\ UNCHANGED <<route, past>>
    /\ UNCHANGED <<server, Account, winXp, sidebar>> /\ Quiet
    /\ calls' = (calls \ {c}) \cup (IF Screen = "main" THEN {Read("load", "", None)} ELSE {})

\* The closure awaits its next request.
GoOn(c, next) ==
    /\ calls' = (calls \ {c}) \cup {[next EXCEPT !.n = c.n, !.page = c.page]}
    /\ UNCHANGED <<server, Account, location, winXp, sidebar>> /\ Quiet

\* The boot effect opens the newest regular chat, or creates one; the route is
\* changed if the page was the chat when the effect ran.
BootReply(c) ==
    /\ c.op = "boot" /\ c.st = "ok"
    /\ \/ /\ c.pc = "list"
          /\ IF Regular(c.list) = <<>> THEN GoOn(c, NewCall(c.op, "create", None))
             ELSE Opened(c, Head(Regular(c.list)).id, c.page = "chat")
       \/ /\ c.pc = "create"
          /\ Opened(c, c.arg, c.page = "chat")

\* handleNewChat reuses the newest regular chat if it has no messages.
NewChatReply(c) ==
    /\ c.op = "newChat" /\ c.st = "ok"
    /\ \/ /\ c.pc = "list"
          /\ IF Regular(c.list) = <<>> THEN GoOn(c, NewCall(c.op, "create", None))
             ELSE GoOn(c, Read("newChat", "messages", Head(Regular(c.list)).id))
       \/ /\ c.pc = "messages"
          /\ IF c.flag THEN GoOn(c, NewCall(c.op, "create", None)) ELSE Opened(c, c.arg, TRUE)
       \/ /\ c.pc = "create"
          /\ Opened(c, c.arg, TRUE)

\* Mutant: an empty list is taken for a failure.
LoadReply_KeepsLonger(c) ==
    /\ c.op = "load" /\ c.st = "ok"
    /\ calls' = calls \ {c}
    /\ shown' = IF c.at /\ Len(c.list) >= Len(shown) THEN c.list ELSE shown
    /\ Stay /\ Quiet
    /\ UNCHANGED <<server, Account, winXp, deleteTarget, editingId>>

\* ChatSidebar.loadSessions
LoadReply(c) ==
    /\ c.op = "load" /\ c.st = "ok"
    /\ calls' = calls \ {c}
    /\ shown' = IF c.at THEN c.list ELSE shown
    /\ Stay /\ Quiet
    /\ UNCHANGED <<server, Account, winXp, deleteTarget, editingId>>

\* ChatSidebar.handleDelete: the chat to open next comes from the list the
\* closure saw (flag: the deleted chat was the open one).
DeleteReply(c) ==
    LET left == Regular(Without(c.seen, c.arg))
        next == [page |-> "chat", sessionId |-> Head(left).id]
    IN  /\ c.op = "delete" /\ c.st = "ok"
        /\ shown' = IF c.at THEN Without(shown, c.arg) ELSE shown
        /\ deleteTarget' = IF c.at THEN None ELSE deleteTarget
        /\ IF c.flag /\ left # <<>> THEN Navigate(next, next.sessionId) ELSE Stay
        /\ calls' = (calls \ {c}) \cup
                      (IF c.flag /\ left = <<>> THEN {Read("newChat", "list", None)} ELSE {})
        /\ UNCHANGED <<server, Account, winXp, editingId>> /\ Quiet

\* ChatSidebar.confirmRename: the row of the answer replaces the shown one, and
\* the editor closes whatever the answer is.
RenameReply(c) ==
    /\ c.op = "rename" /\ c.st # "sent"
    /\ IF c.st = "denied" THEN SignOut ELSE UNCHANGED <<user, needsSetup>>
    /\ Stay /\ Quiet
    /\ UNCHANGED <<server, winXp, authChecked>>
    /\ Render(calls \ {c},
              /\ shown' = IF c.at /\ c.st = "ok" THEN Renamed(shown, c.arg) ELSE shown
              /\ editingId' = IF c.at THEN None ELSE editingId
              /\ UNCHANGED deleteTarget)

-----------------------------------------------------------------------------
\* What the user does.

\* LoginPage.submit; right says whether the token is the one the server wants.
SubmitLogin(right) ==
    /\ Screen = "login"
    /\ InFlight("login") = {}
    /\ Act
    /\ calls' = calls \cup {[NewCall("login", "", None) EXCEPT !.flag = right]}
    /\ UNCHANGED <<server, Account, location, winXp, sidebar>>

ClickLogout ==
    /\ Screen = "main"
    /\ Cardinality(InFlight("logout")) < MaxPerOp
    /\ Act
    /\ calls' = calls \cup {NewCall("logout", "", None)}
    /\ UNCHANGED <<server, Account, location, winXp, sidebar>>

\* SetupWizard's onDone, after it saved the configuration.
WizardDone ==
    /\ Screen = "wizard" \/ (Screen = "main" /\ needsSetup = "yes")
    /\ Act
    /\ configured' = TRUE
    /\ needsSetup' = "no"
    /\ Stay
    /\ UNCHANGED <<cookie, sessions, used, born, user, authChecked, winXp>>
    /\ Render(calls, UNCHANGED sidebar)

\* WinXpToggle, the wizard's onSwitchToXp and the desktop's onExit.
ToggleXp ==
    /\ Screen \in {"wizard", "main"}
    /\ Act
    /\ winXp' = ~winXp
    /\ Stay
    /\ UNCHANGED <<server, Account>>
    /\ Render(calls, UNCHANGED sidebar)

\* A link of the navigation, or the browser's back button.
GoTo(r) ==
    /\ Screen = "main"
    /\ r # route
    /\ Act
    /\ Navigate(r, activeSessionId)
    /\ UNCHANGED <<server, Account, winXp>>
    /\ Render(calls, UNCHANGED sidebar)

SelectSession(s) ==
    /\ Screen = "main"
    /\ editingId # s
    /\ s \in Ids(shown)
    /\ Act
    /\ Navigate([page |-> "chat", sessionId |-> s], s)
    /\ UNCHANGED <<server, Account, winXp, sidebar, calls>>

ClickNewChat ==
    /\ Screen = "main"
    /\ Cardinality(InFlight("newChat")) < MaxPerOp
    /\ Act
    /\ calls' = calls \cup {Read("newChat", "list", None)}
    /\ UNCHANGED <<server, Account, location, winXp, sidebar>>

AskDelete(s) ==
    /\ Screen = "main" /\ deleteTarget = None
    /\ s \in Ids(shown)
    /\ Act
    /\ deleteTarget' = s
    /\ UNCHANGED <<server, Account, location, winXp, shown, editingId, calls>>

\* ConfirmDelete: the dialog closes and handleDelete starts, or it is dismissed.
AnswerDialog(yes) ==
    /\ deleteTarget # None
    /\ yes => InFlight("delete") = {}
    /\ Quiet
    /\ deleteTarget' = None
    /\ calls' = calls \cup
         (IF yes THEN {[NewCall("delete", "", deleteTarget) EXCEPT
                         !.flag = activeSessionId = deleteTarget, !.seen = shown]}
          ELSE {})
    /\ UNCHANGED <<server, Account, location, winXp, shown, editingId>>

StartRename(s) ==
    /\ Screen = "main" /\ editingId = None
    /\ s \notin PlanSessions
    /\ [id |-> s, title |-> 0] \in {shown[i] : i \in DOMAIN shown}
    /\ Act
    /\ editingId' = s
    /\ UNCHANGED <<server, Account, location, winXp, shown, deleteTarget, calls>>

EndRename(confirm) ==
    /\ editingId # None
    /\ IF confirm THEN /\ InFlight("rename") = {}
                       /\ calls' = calls \cup {NewCall("rename", "", editingId)}
                       /\ UNCHANGED editingId
                  ELSE editingId' = None /\ UNCHANGED calls
    /\ Quiet
    /\ UNCHANGED <<server, Account, location, winXp, shown, deleteTarget>>

\* setInterval(loadSessions, 5000)
PollSessions ==
    /\ Screen = "main"
    /\ Cardinality(InFlight("load")) < MaxPerOp
    /\ calls' = calls \cup {Read("load", "", None)}
    /\ UNCHANGED <<server, Account, location, winXp, sidebar, acts, fails>>

\* Elsewhere: the cookie expires; another client writes the first message of a chat.
Elsewhere ==
    /\ Act
    /\ \/ cookie /\ cookie' = FALSE /\ UNCHANGED used
       \/ \E s \in Ids(sessions) \ used : used' = used \cup {s} /\ UNCHANGED cookie
    /\ UNCHANGED <<configured, sessions, born, Account, location, winXp, sidebar, calls>>

User ==
    \/ \E right \in BOOLEAN : SubmitLogin(right)
    \/ ClickLogout
    \/ WizardDone
    \/ ToggleXp
    \/ \E r \in past \cup {[page |-> "plans", sessionId |-> None]} : GoTo(r)
    \/ \E s \in Sessions : SelectSession(s) \/ AskDelete(s) \/ StartRename(s)
    \/ ClickNewChat
    \/ \E yes \in BOOLEAN : AnswerDialog(yes) \/ EndRename(yes)

Reply(c) ==
    \/ MeReply(c) \/ LoginReply(c) \/ LogoutReply(c) \/ ConfigReply(c) \/ Swallowed(c)
    \/ BootReply(c) \/ NewChatReply(c) \/ LoadReply(c) \/ DeleteReply(c) \/ RenameReply(c)

Next ==
    \/ User
    \/ PollSessions
    \/ Elsewhere
    \/ \E c \in calls : Serve(c) \/ Reply(c) \/ RequestFails(c)

Spec == Init /\ [][Next]_vars

\* The browser delivers what the server answers, the server answers, and the
\* timer of the sidebar fires; nothing is assumed of the user.
Fairness ==
    /\ \A op \in Ops : /\ WF_vars(\E c \in InFlight(op) : Serve(c))
                       /\ WF_vars(\E c \in InFlight(op) : Reply(c))
    /\ WF_vars(PollSessions)

LiveSpec == Spec /\ Fairness

-----------------------------------------------------------------------------
\* Properties.

\* Type correctness of the state of App and ChatSidebar and of the closures that
\* await a request.
TypeOK ==
    /\ cookie \in BOOLEAN /\ configured \in BOOLEAN
    /\ Ids(sessions) \subseteq born /\ used \subseteq Sessions /\ born \subseteq Sessions
    /\ user \in {None, "user"} /\ authChecked \in BOOLEAN
    /\ needsSetup \in {"unknown", "yes", "no"}
    /\ activeSessionId \in Sessions \cup {None}
    /\ route \in Route /\ past \subseteq Route
    /\ winXp \in BOOLEAN
    /\ Ids(shown) \subseteq born
    /\ deleteTarget \in Sessions \cup {None} /\ editingId \in Sessions \cup {None}
    /\ \A c \in calls : /\ c.op \in Ops /\ c.arg \in Sessions \cup {None} /\ c.page \in Pages
                        /\ c.st \in {"sent", "ok", "denied", "failed"}
    /\ acts \in 0..MaxActs /\ fails \in 0..acts

\* App renders nothing only while a request that will change that is in flight,
\* whatever sign-outs, 401s of older requests and late answers came before.
BlankIsWaiting ==
    Screen = "blank" =>
        IF authChecked THEN InFlight("config") # {} ELSE InFlight("me") # {}

\* Once the setup is known to be done, a client without an open chat is opening
\* one, unless a request failed: the boot effect has no retry.
NoChatMeansOpening ==
    needsSetup = "no" /\ activeSessionId = None => InFlight("boot") # {} \/ fails > 0

\* However many stale lists arrive, a sidebar that stays mounted catches up with
\* the server again and again.
SidebarCatchesUp == <>[](Screen = "main") => []<>(shown = sessions)

=============================================================================
