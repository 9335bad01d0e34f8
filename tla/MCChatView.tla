----------------------------- MODULE MCChatView -----------------------------
(* The messages of a chat, in the page or in a window of the XP desktop, and the      *)
(* desktop that holds such windows.  The two do not share state: focus tells which    *)
(* one the behaviour is about, and the other stays in one initial state.              *)
EXTENDS ChatView, WinXpShell, TLC

CONSTANTS s1, s2, w1, w2, c1, v1, v2

VARIABLE focus

\* Two polls of the window overtake each other.
MCMaxPolls == [page |-> 1, window |-> 2]

\* Chats and viewports of the desktop are interchangeable.
Sym == Permutations(Chats) \cup Permutations(Viewports)

MCInit ==
    /\ focus \in {"messages", "desktop"} /\ Init /\ ShellInit
    /\ focus = "desktop" => kind = "window" /\ nextId = 1
    /\ focus = "messages" => inSetupMode /\ server = {} /\ initial = Nobody
    /\ kind = "page" => nextId > 1

MCNext ==
    \/ focus = "messages" /\ Next /\ UNCHANGED <<focus, shellVars>>
    \/ focus = "desktop" /\ ShellNext /\ UNCHANGED <<focus, vars>>

MCSpec == MCInit /\ [][MCNext]_<<focus, vars, shellVars>>
=============================================================================
