------------------------------- MODULE WinXpShell -------------------------------
(***************************************************************************)
(* The window manager of the XP desktop: chat windows, terminals, the      *)
(* notepad and the setup wizard, their order, and the list of sessions     *)
(* whose icons open them.  A window's geometry is the viewport it fills,   *)
(* or Placed.  The list is fetched again and again; an answer is the list  *)
(* as of the moment it is asked for, and answers come in any order, also   *)
(* while the wizard hides everything else.  A context menu is an input of  *)
(* the action picked in it.                                                *)
(***************************************************************************)
EXTENDS Naturals, Sequences, SequencesExt, FiniteSets, Filters

CONSTANTS Chats,     \* ids of chat sessions
          Terminals,    \* ids of terminals
          Viewports,    \* sizes of the browser's window
          Notepad, Wizard, Placed, Nobody,
          MaxLists,     \* bound on the lists in flight
          MaxRequests,     \* bound on the creations and deletions in flight
          MaxOpen       \* bound on the windows the user has open

ASSUME ShellAssumption ==
    /\ MaxLists \in Nat /\ MaxRequests \in Nat /\ MaxOpen \in Nat
    /\ Placed \notin Viewports /\ Viewports # {}
    /\ Nobody \notin Chats /\ Chats \cap Terminals = {}
    /\ Notepad \notin Chats \cup Terminals /\ Wizard \notin Chats \cup Terminals
    /\ Notepad # Wizard

VARIABLES zStack,       \* ids, the focused one last
          open, minimized, maximized,    \* sets of ids
          geo,          \* id -> Placed, or the viewport it fills
          prevs,        \* ids with a geometry to restore
          inSetupMode, gone,             \* the shell was left by onExit
          viewport,
          sessions,     \* the icons: ids listed last
          initial,      \* initialSessionId, until it was handled
          deleteTarget,
          lists,        \* lists in flight: each opens a chat when it comes, or nobody
          requests,     \* creations and deletions in flight
          server        \* sessions of the server

windowVars == <<open, minimized, maximized, geo, prevs>>
frameVars == <<inSetupMode, viewport>>
listVars == <<sessions, initial, deleteTarget, lists, requests, server>>
shellVars == <<zStack, windowVars, gone, frameVars, listVars>>

Windows == Chats \cup Terminals \cup {Notepad, Wizard}

ShellTypeOK ==
    /\ zStack \in Seq(Windows)
    /\ open \subseteq Windows /\ minimized \subseteq open /\ maximized \subseteq open
    /\ geo \in [Windows -> Viewports \cup {Placed}] /\ prevs \subseteq open
    /\ sessions \subseteq Chats /\ server \subseteq Chats

-----------------------------------------------------------------------------
(* The order of the windows. *)

Without(stack, id) == Kept(stack, {i \in DOMAIN stack : stack[i] # id})

\* The window becomes the last of the stack.
bringToFront(stack, id) == Append(Without(stack, id), id)

focused == IF zStack = <<>> THEN Nobody ELSE zStack[Len(zStack)]

WizardOpen == Wizard \in open

\* What is on screen: the wizard hides everything else.
Shown(id) == id \in open \ minimized /\ (WizardOpen => id = Wizard)

ShellInit ==
    /\ inSetupMode \in BOOLEAN /\ viewport \in Viewports
    /\ open = IF inSetupMode THEN {Wizard} ELSE {}
    /\ zStack = IF inSetupMode THEN <<Wizard>> ELSE <<>>
    /\ minimized = {} /\ maximized = {} /\ prevs = {}
    /\ geo = [id \in Windows |-> Placed] /\ gone = FALSE
    /\ server \in SUBSET Chats /\ initial \in Chats \cup {Nobody}
    /\ sessions = {} /\ deleteTarget = Nobody
    /\ lists = {[list |-> server, then |-> Nobody]} /\ requests = {}

\* A window is opened, or an open one is brought back, in front.
Opens(id) ==
    /\ open' = open \cup {id} /\ minimized' = minimized \ {id}
    /\ zStack' = bringToFront(zStack, id)
    /\ UNCHANGED <<maximized, geo, prevs>>

\* Mutant: the closed window keeps its place in the stack.
Closes_KeepsStack(id) ==
    /\ open' = open \ {id} /\ minimized' = minimized \ {id}
    /\ maximized' = maximized \ {id} /\ prevs' = prevs \ {id}
    /\ geo' = [geo EXCEPT ![id] = Placed]
    /\ zStack' = zStack

\* closeWindow, closeTerminal, closeNotepad, closeWizard
Closes(id) ==
    /\ open' = open \ {id} /\ minimized' = minimized \ {id}
    /\ maximized' = maximized \ {id} /\ prevs' = prevs \ {id}
    /\ geo' = [geo EXCEPT ![id] = Placed]
    /\ zStack' = Without(zStack, id)

\* The backdrop of the question whether to delete takes every click.
Here == ~gone /\ deleteTarget = Nobody
Space(id) == id \in open \/ Cardinality(open) < MaxOpen
Desk == UNCHANGED <<frameVars, gone, listVars>>

-----------------------------------------------------------------------------
(* Windows. *)

Activate(id) ==
    /\ Here /\ Shown(id) /\ zStack' = bringToFront(zStack, id)
    /\ UNCHANGED windowVars /\ Desk

CloseButton(id) ==
    /\ Here /\ Shown(id) /\ (id = Wizard => ~inSetupMode)
    /\ Closes(id) /\ Desk

\* The buttons of terminals and of the notepad that minimise do nothing.
minimizeWindow(id) ==
    /\ minimized' = minimized \cup {id} /\ zStack' = Without(zStack, id)
    /\ UNCHANGED <<open, maximized, geo, prevs>>

MinimizeButton(id) ==
    Here /\ id \in Chats /\ Shown(id) /\ minimizeWindow(id) /\ Desk

\* A button of the taskbar: a chat or the notepad.
TaskButton(id) ==
    /\ Here /\ ~WizardOpen /\ id \in (open \cap Chats) \cup (open \cap {Notepad})
    /\ IF id \in minimized THEN Opens(id)
       ELSE IF focused = id THEN minimizeWindow(id)
       ELSE zStack' = bringToFront(zStack, id) /\ UNCHANGED windowVars
    /\ Desk

toggleMaximize(id) ==
    /\ Here /\ Shown(id) /\ id # Wizard
    /\ IF id \in maximized /\ id \in prevs
       THEN /\ maximized' = maximized \ {id} /\ prevs' = prevs \ {id}
            /\ geo' = [geo EXCEPT ![id] = Placed]
       ELSE /\ maximized' = maximized \cup {id} /\ prevs' = prevs \cup {id}
            /\ geo' = [geo EXCEPT ![id] = viewport]
    /\ UNCHANGED <<zStack, open, minimized>> /\ Desk

\* moveWindow, sizeWindow and their like: a drag that began before the window was maximised
\* moves nothing any more.
Moved(id) == IF id \in maximized THEN geo ELSE [geo EXCEPT ![id] = Placed]

Drag(id) ==
    /\ Here /\ Shown(id) /\ geo' = Moved(id)
    /\ UNCHANGED <<zStack, open, minimized, maximized, prevs>> /\ Desk

\* Mutant: only the chat windows follow the viewport.
Refilled_Chats(v) == [id \in Windows |-> IF id \in maximized \cap Chats THEN v ELSE geo[id]]

\* onResize: whatever is maximised fills the new viewport.
Refilled(v) == [id \in Windows |-> IF id \in maximized THEN v ELSE geo[id]]

ResizeViewport(v) ==
    /\ ~gone /\ v # viewport /\ viewport' = v /\ geo' = Refilled(v)
    /\ UNCHANGED <<zStack, open, minimized, maximized, prevs, inSetupMode, gone, listVars>>

\* A chat window shows the steps of its answers.
openTerminal(t) ==
    /\ Here /\ t \notin open /\ Space(t) /\ (\E s \in Chats : Shown(s))
    /\ Opens(t) /\ Desk

\* Of either document: opening the other one replaces the text.
openNotepad == Here /\ ~WizardOpen /\ Space(Notepad) /\ Opens(Notepad) /\ Desk

openWizard == Here /\ ~WizardOpen /\ Space(Wizard) /\ Opens(Wizard) /\ Desk

openChat(s) == Here /\ ~WizardOpen /\ s \in sessions /\ Space(s) /\ Opens(s) /\ Desk

\* The shell is gone and its state with it; what it sent is still on its way.
onExit ==
    /\ gone' = TRUE
    /\ zStack' = <<>> /\ open' = {} /\ minimized' = {} /\ maximized' = {} /\ prevs' = {}
    /\ geo' = [id \in Windows |-> Placed]
    /\ sessions' = {} /\ initial' = Nobody /\ deleteTarget' = Nobody
    /\ UNCHANGED <<frameVars, lists, requests, server>>

\* The button Start and an icon; closing the wizard of the first run.
Exit == Here /\ (~WizardOpen \/ inSetupMode) /\ onExit

\* The wizard saved the configuration; the shell of the first run is then left by its host.
WizardDone == ~gone /\ WizardOpen /\ Closes(Wizard) /\ Desk

\* Escape also cancels the question whether to delete, and still closes the focused window.
Escape ==
    /\ ~gone /\ focused # Nobody
    /\ IF focused = Wizard /\ inSetupMode THEN onExit
       ELSE Closes(focused) /\ deleteTarget' = Nobody
            /\ UNCHANGED <<gone, frameVars, sessions, initial, lists, requests, server>>

-----------------------------------------------------------------------------
(* The list of sessions. *)

ListRoom == Cardinality(lists) < MaxLists

Fetch(then) == lists \cup {[list |-> server, then |-> then]}

\* refresh, by its timer
Refresh ==
    /\ ~gone /\ ListRoom /\ lists' = Fetch(Nobody)
    /\ UNCHANGED <<zStack, windowVars, gone, frameVars, sessions, initial, deleteTarget,
                   requests, server>>

\* The list came: the initial chat is opened when it is listed, and so is the chat that
\* was created.  A list that fails leaves the old one.
ListReply(a, ok) ==
    LET shows == IF ok THEN a.list ELSE sessions
        first == IF ok /\ initial \in shows THEN initial ELSE Nobody
        opened == {first, a.then} \ {Nobody}
        stack1 == IF first # Nobody THEN bringToFront(zStack, first) ELSE zStack
    IN  /\ lists' = lists \ {a}
        /\ IF gone THEN UNCHANGED <<sessions, initial, zStack, windowVars>>
           ELSE /\ sessions' = shows
                /\ initial' = IF first # Nobody THEN Nobody ELSE initial
                /\ open' = open \cup opened /\ minimized' = minimized \ opened
                /\ zStack' = IF a.then # Nobody THEN bringToFront(stack1, a.then) ELSE stack1
                /\ UNCHANGED <<maximized, geo, prevs>>
        /\ UNCHANGED <<gone, frameVars, deleteTarget, requests, server>>

NewChat ==
    /\ Here /\ "create" \notin requests /\ Cardinality(requests) < MaxRequests /\ requests' = requests \cup {"create"}
    /\ UNCHANGED <<zStack, windowVars, gone, frameVars, sessions, initial, deleteTarget,
                   lists, server>>

\* The session exists and the list is fetched again before it is opened, or nothing happens.
NewChatReply ==
    /\ "create" \in requests /\ requests' = requests \ {"create"}
    /\ \/ /\ ListRoom
          /\ \E s \in Chats \ server :
               /\ server' = server \cup {s}
               /\ lists' = lists \cup {[list |-> server \cup {s}, then |-> s]}
       \/ UNCHANGED <<server, lists>>
    /\ UNCHANGED <<zStack, windowVars, gone, frameVars, sessions, initial, deleteTarget>>

\* A session's icon is dropped on the bin.
RequestDelete(s) ==
    /\ Here /\ ~WizardOpen /\ s \in sessions /\ deleteTarget' = s
    /\ UNCHANGED <<zStack, windowVars, gone, frameVars, sessions, initial, lists, requests,
                   server>>

CancelDelete ==
    /\ ~gone /\ deleteTarget # Nobody /\ deleteTarget' = Nobody
    /\ UNCHANGED <<zStack, windowVars, gone, frameVars, sessions, initial, lists, requests,
                   server>>

\* The window is closed and the icon taken away before the server is asked.
ConfirmDelete ==
    /\ ~gone /\ deleteTarget # Nobody /\ deleteTarget \notin requests /\ Cardinality(requests) < MaxRequests
    /\ Closes(deleteTarget)
    /\ sessions' = sessions \ {deleteTarget} /\ requests' = requests \cup {deleteTarget}
    /\ deleteTarget' = Nobody
    /\ UNCHANGED <<gone, frameVars, initial, lists, server>>

\* Deleted or not, the list is fetched again.
DeleteReply(s, ok) ==
    /\ s \in requests /\ ListRoom /\ requests' = requests \ {s}
    /\ server' = IF ok THEN server \ {s} ELSE server
    /\ lists' = lists \cup {[list |-> server', then |-> Nobody]}
    /\ UNCHANGED <<zStack, windowVars, gone, frameVars, sessions, initial, deleteTarget>>

ShellNext ==
    \/ \E id \in Windows : \/ Activate(id) \/ CloseButton(id) \/ MinimizeButton(id)
                           \/ TaskButton(id) \/ toggleMaximize(id) \/ Drag(id)
    \/ \E v \in Viewports : ResizeViewport(v)
    \/ \E t \in Terminals : openTerminal(t)
    \/ openNotepad \/ openWizard \/ Exit \/ WizardDone \/ Escape
    \/ Refresh \/ NewChat \/ NewChatReply \/ CancelDelete \/ ConfirmDelete
    \/ \E a \in lists, ok \in BOOLEAN : ListReply(a, ok)
    \/ \E s \in Chats : openChat(s) \/ RequestDelete(s) \/ \E ok \in BOOLEAN : DeleteReply(s, ok)

-----------------------------------------------------------------------------

\* The stack holds every window that is open and not minimised, once, so each has its own
\* depth and Escape finds the one in front, whichever answer opened or closed a window
\* behind the user's back (zStack of WinXpExperiment).
StackIsShown ==
    /\ ToSet(zStack) = open \ minimized
    /\ Len(zStack) = Cardinality(open \ minimized)

\* A maximised window, minimised or hidden by the wizard or not, fills the viewport as it
\* is now and can be restored; no other window fills it (toggleMaximize, onResize).
MaximizedFills ==
    \A id \in Windows : /\ id \in maximized <=> geo[id] = viewport
                        /\ id \in maximized <=> id \in prevs
                        /\ id \notin maximized => geo[id] = Placed
=============================================================================
