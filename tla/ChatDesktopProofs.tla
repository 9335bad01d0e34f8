-------------------------- MODULE ChatDesktopProofs --------------------------
(***************************************************************************)
(* Proofs about the chat view and the XP desktop: for any chats, replies,  *)
(* terminals and sizes of the viewport.                                    *)
(***************************************************************************)
EXTENDS ChatView, WinXpShell, FilterLemmas

-----------------------------------------------------------------------------
(* WinXpShell. *)

ShellSpec == ShellInit /\ [][ShellNext]_shellVars

ShellInv ==
    /\ viewport \in Viewports /\ geo \in [Windows -> Viewports \cup {Placed}]
    /\ MaximizedFills

\* A window that closes, open or not, is no longer maximised and keeps no geometry.
LEMMA ClosesKeeps ==
  ASSUME ShellInv, NEW id, Closes(id), viewport' = viewport
  PROVE  ShellInv'
<1>1. /\ maximized' = maximized \ {id} /\ prevs' = prevs \ {id}
      /\ geo' = [geo EXCEPT ![id] = Placed]
  BY DEF Closes
<1> QED
  BY <1>1, ShellAssumption DEF ShellInv, MaximizedFills

\* So is everything when the shell is left.
LEMMA ExitKeeps ==
  ASSUME ShellInv, onExit
  PROVE  ShellInv'
<1>1. /\ maximized' = {} /\ prevs' = {} /\ geo' = [id \in Windows |-> Placed] /\ viewport' = viewport
  BY DEF onExit, frameVars
<1> QED
  BY <1>1, ShellAssumption DEF ShellInv, MaximizedFills

LEMMA ToggleKeeps ==
  ASSUME ShellInv, NEW id \in Windows, toggleMaximize(id)
  PROVE  ShellInv'
<1>1. viewport' = viewport
  BY DEF toggleMaximize, Desk, frameVars
<1>2. \/ /\ maximized' = maximized \ {id} /\ prevs' = prevs \ {id}
         /\ geo' = [geo EXCEPT ![id] = Placed]
      \/ /\ maximized' = maximized \cup {id} /\ prevs' = prevs \cup {id}
         /\ geo' = [geo EXCEPT ![id] = viewport]
  BY DEF toggleMaximize
<1> QED
  BY <1>1, <1>2, ShellAssumption DEF ShellInv, MaximizedFills

LEMMA DragKeeps ==
  ASSUME ShellInv, NEW id \in Windows, Drag(id)
  PROVE  ShellInv'
<1>1. /\ UNCHANGED <<maximized, prevs, viewport>>
      /\ geo' = IF id \in maximized THEN geo ELSE [geo EXCEPT ![id] = Placed]
  BY DEF Drag, Moved, Desk, frameVars
<1> QED
  BY <1>1, ShellAssumption DEF ShellInv, MaximizedFills

LEMMA ResizeKeeps ==
  ASSUME ShellInv, NEW v \in Viewports, ResizeViewport(v)
  PROVE  ShellInv'
<1>1. /\ UNCHANGED <<maximized, prevs>> /\ viewport' = v
      /\ geo' = [id \in Windows |-> IF id \in maximized THEN v ELSE geo[id]]
  BY DEF ResizeViewport, Refilled
<1> QED
  BY <1>1, ShellAssumption DEF ShellInv, MaximizedFills

\* Every other step leaves the geometry alone.
LEMMA StillKeeps ==
  ASSUME ShellInv, UNCHANGED <<maximized, prevs, geo, viewport>>
  PROVE  ShellInv'
  BY DEF ShellInv, MaximizedFills

LEMMA ShellInductive == ShellSpec => []ShellInv
<1>1. ShellInit => ShellInv
  BY ShellAssumption DEF ShellInit, ShellInv, MaximizedFills
<1>2. ShellInv /\ [ShellNext]_shellVars => ShellInv'
  <2> SUFFICES ASSUME ShellInv, [ShellNext]_shellVars PROVE ShellInv'
    OBVIOUS
  <2> USE DEF Desk, frameVars, windowVars
  <2>1. ASSUME NEW id \in Windows,
               Activate(id) \/ CloseButton(id) \/ MinimizeButton(id) \/ TaskButton(id)
                 \/ toggleMaximize(id) \/ Drag(id)
        PROVE  ShellInv'
    <3>1. CASE CloseButton(id)
      BY <3>1, ClosesKeeps DEF CloseButton
    <3>2. CASE Activate(id) \/ MinimizeButton(id)
      BY <3>2, StillKeeps DEF Activate, MinimizeButton, minimizeWindow
    <3>3. CASE TaskButton(id)
      BY <3>3, StillKeeps DEF TaskButton, Opens, minimizeWindow
    <3> QED
      BY <2>1, <3>1, <3>2, <3>3, ToggleKeeps, DragKeeps
  <2>2. CASE \E v \in Viewports : ResizeViewport(v)
    BY <2>2, ResizeKeeps
  <2>3. CASE (\E t \in Terminals : openTerminal(t)) \/ openNotepad \/ openWizard
    BY <2>3, StillKeeps DEF openTerminal, openNotepad, openWizard, Opens
  <2>4. CASE Exit \/ WizardDone
    BY <2>4, ExitKeeps, ClosesKeeps DEF Exit, WizardDone
  <2>5. CASE Escape
    <3>1. CASE focused = Wizard /\ inSetupMode
      BY <2>5, <3>1, ExitKeeps DEF Escape
    <3>2. CASE ~(focused = Wizard /\ inSetupMode)
      BY <2>5, <3>2, ClosesKeeps DEF Escape
    <3> QED
      BY <3>1, <3>2
  <2>6. CASE Refresh \/ NewChat \/ NewChatReply \/ CancelDelete
    BY <2>6, StillKeeps DEF Refresh, NewChat, NewChatReply, CancelDelete
  <2>7. CASE ConfirmDelete
    BY <2>7, ClosesKeeps DEF ConfirmDelete
  <2>8. ASSUME NEW a \in lists, NEW ok \in BOOLEAN, ListReply(a, ok) PROVE ShellInv'
    <3>1. UNCHANGED <<maximized, prevs, geo, viewport>>
      BY <2>8 DEF ListReply
    <3> QED
      BY <3>1, StillKeeps
  <2>9. ASSUME NEW s \in Chats, openChat(s) \/ RequestDelete(s) \/ \E ok \in BOOLEAN : DeleteReply(s, ok)
        PROVE  ShellInv'
    BY <2>9, StillKeeps DEF openChat, Opens, RequestDelete, DeleteReply
  <2>10. CASE UNCHANGED shellVars
    BY <2>10, StillKeeps DEF shellVars
  <2> QED
    BY <2>1, <2>2, <2>3, <2>4, <2>5, <2>6, <2>7, <2>8, <2>9, <2>10 DEF ShellNext
<1> QED
  BY <1>1, <1>2, PTL DEF ShellSpec

\* However windows are opened, closed, minimised, dragged and maximised, by the user or by
\* late answers, and however often the viewport changes: what is maximised fills the viewport
\* as it is, can be restored, and nothing else fills it.
THEOREM MaximizedAlwaysFills == ShellSpec => []MaximizedFills
<1>1. ShellInv => MaximizedFills
  BY DEF ShellInv
<1> QED
  BY <1>1, ShellInductive, PTL

-----------------------------------------------------------------------------
(* The stack of windows. *)

\* The stack is a list of the windows of set, each once.
Stacks(stack, set) == stack \in Seq(set) /\ Once(stack) /\ ToSet(stack) = set

StackInv == Stacks(zStack, open \ minimized)

\* A list is a list of whatever has its elements.
LEMMA ListOf ==
  ASSUME NEW S, NEW list \in Seq(S), NEW T, \A i \in DOMAIN list : list[i] \in T
  PROVE  list \in Seq(T)
<1>1. Len(list) \in Nat /\ DOMAIN list = 1..Len(list) /\ list = [i \in 1..Len(list) |-> list[i]]
  OBVIOUS
<1>2. [i \in 1..Len(list) |-> list[i]] \in Seq(T)
  BY <1>1
<1> QED
  BY <1>1, <1>2

LEMMA WithoutStacks ==
  ASSUME NEW stack, NEW set, NEW id, Stacks(stack, set)
  PROVE  Stacks(Without(stack, id), set \ {id})
<1> DEFINE at == {i \in DOMAIN stack : stack[i] # id}
           rest == Kept(stack, at)
<1>1. stack \in Seq(set) /\ Once(stack) /\ {stack[i] : i \in DOMAIN stack} = set
  BY DEF Stacks, ToSet
<1>2. at \in SUBSET (DOMAIN stack)
  OBVIOUS
<1>3. rest \in Seq(set) /\ Once(rest) /\ {rest[k] : k \in DOMAIN rest} = {stack[i] : i \in at}
  BY <1>1, <1>2, KeptIsList, KeptOnce, KeptRange
<1>4. {stack[i] : i \in at} = set \ {id}
  BY <1>1
<1>5. rest = Without(stack, id)
  BY DEF Without
<1> HIDE DEF rest, at
<1>6. \A k \in DOMAIN rest : rest[k] \in set \ {id}
  BY <1>3, <1>4
<1>7. rest \in Seq(set \ {id})
  BY <1>3, <1>6, ListOf
<1> QED
  BY <1>3, <1>4, <1>5, <1>7 DEF Stacks, ToSet

LEMMA FrontStacks ==
  ASSUME NEW stack, NEW set, NEW id, Stacks(stack, set)
  PROVE  Stacks(bringToFront(stack, id), set \cup {id})
<1> DEFINE rest == Without(stack, id)
           next == Append(rest, id)
           all == set \cup {id}
<1>1. Stacks(rest, set \ {id})
  BY WithoutStacks
<1>2. next = bringToFront(stack, id)
  BY DEF bringToFront
<1> HIDE DEF rest
<1>3. rest \in Seq(set \ {id}) /\ Once(rest) /\ {rest[k] : k \in DOMAIN rest} = set \ {id}
  BY <1>1 DEF Stacks, ToSet
<1>4. \A k \in DOMAIN rest : rest[k] \in all /\ rest[k] # id
  BY <1>3
<1>5. rest \in Seq(all) /\ id \in all
  BY <1>3, <1>4, ListOf
<1>6. /\ next \in Seq(all) /\ Len(next) = Len(rest) + 1 /\ Len(rest) \in Nat
      /\ DOMAIN next = 1..Len(rest) + 1 /\ DOMAIN rest = 1..Len(rest)
      /\ \A i \in 1..Len(rest) : next[i] = rest[i]
      /\ next[Len(rest) + 1] = id
  BY <1>5
<1> HIDE DEF next
<1>7. Once(next)
  BY <1>3, <1>4, <1>6 DEF Once
<1>8. \A i \in DOMAIN next : next[i] \in all
  BY <1>6
<1>9. \A x \in all : \E i \in DOMAIN next : next[i] = x
  <2> SUFFICES ASSUME NEW x \in all
               PROVE  \E i \in DOMAIN next : next[i] = x
    OBVIOUS
  <2>1. CASE x = id
    BY <1>6, <2>1
  <2>2. CASE x # id
    <3>1. x \in {rest[k] : k \in DOMAIN rest}
      BY <1>3, <2>2
    <3>2. PICK k \in DOMAIN rest : rest[k] = x
      BY <3>1
    <3> QED
      BY <1>6, <3>2
  <2> QED
    BY <2>1, <2>2
<1>10. {next[i] : i \in DOMAIN next} = all
  BY <1>8, <1>9
<1> QED
  BY <1>2, <1>6, <1>7, <1>10 DEF Stacks, ToSet

LEMMA OpensStacks ==
  ASSUME StackInv, NEW id, Opens(id)
  PROVE  StackInv'
<1>1. (open \ minimized) \cup {id} = open' \ minimized' /\ zStack' = bringToFront(zStack, id)
  BY DEF Opens
<1>2. Stacks(bringToFront(zStack, id), (open \ minimized) \cup {id})
  BY FrontStacks DEF StackInv
<1> QED
  BY <1>1, <1>2 DEF StackInv

LEMMA ClosesStacks ==
  ASSUME StackInv, NEW id, Closes(id)
  PROVE  StackInv'
<1>1. (open \ minimized) \ {id} = open' \ minimized' /\ zStack' = Without(zStack, id)
  BY DEF Closes
<1>2. Stacks(Without(zStack, id), (open \ minimized) \ {id})
  BY WithoutStacks DEF StackInv
<1> QED
  BY <1>1, <1>2 DEF StackInv

LEMMA MinimizeStacks ==
  ASSUME StackInv, NEW id, minimizeWindow(id)
  PROVE  StackInv'
<1>1. (open \ minimized) \ {id} = open' \ minimized' /\ zStack' = Without(zStack, id)
  BY DEF minimizeWindow
<1>2. Stacks(Without(zStack, id), (open \ minimized) \ {id})
  BY WithoutStacks DEF StackInv
<1> QED
  BY <1>1, <1>2 DEF StackInv

\* A window that is on screen comes to the front.
LEMMA RaiseStacks ==
  ASSUME StackInv, NEW id \in open \ minimized, zStack' = bringToFront(zStack, id),
         UNCHANGED <<open, minimized>>
  PROVE  StackInv'
<1>1. (open \ minimized) \cup {id} = open \ minimized
  OBVIOUS
<1>2. Stacks(bringToFront(zStack, id), (open \ minimized) \cup {id})
  BY FrontStacks DEF StackInv
<1> QED
  BY <1>1, <1>2 DEF StackInv

LEMMA EmptyStacks == Stacks(<<>>, {})
BY DEF Stacks, Once, ToSet

LEMMA ExitStacks ==
  ASSUME onExit
  PROVE  StackInv'
<1>1. zStack' = <<>> /\ open' \ minimized' = {}
  BY DEF onExit
<1> QED
  BY <1>1, EmptyStacks DEF StackInv

LEMMA StillStacks ==
  ASSUME StackInv, UNCHANGED <<zStack, open, minimized>>
  PROVE  StackInv'
BY DEF StackInv

\* A list opens the initial chat, the chat that was created, both or none.
LEMMA ListStacks ==
  ASSUME StackInv, NEW a, NEW ok, ListReply(a, ok)
  PROVE  StackInv'
<1> DEFINE shows == IF ok THEN a.list ELSE sessions
           front == IF ok /\ initial \in shows THEN initial ELSE Nobody
           opened == {front, a.then} \ {Nobody}
           stack1 == IF front # Nobody THEN bringToFront(zStack, front) ELSE zStack
           set == open \ minimized
           set1 == IF front # Nobody THEN set \cup {front} ELSE set
<1>1. \/ UNCHANGED <<zStack, open, minimized>>
      \/ /\ open' = open \cup opened /\ minimized' = minimized \ opened
         /\ zStack' = IF a.then # Nobody THEN bringToFront(stack1, a.then) ELSE stack1
  BY DEF ListReply, windowVars
<1>2. opened = {front, a.then} \ {Nobody}
  OBVIOUS
<1>3. Stacks(stack1, set1)
  BY FrontStacks DEF StackInv
<1> HIDE DEF opened, front, stack1
<1>4. CASE UNCHANGED <<zStack, open, minimized>>
  BY <1>4, StillStacks
<1>5. CASE /\ open' = open \cup opened /\ minimized' = minimized \ opened
           /\ zStack' = IF a.then # Nobody THEN bringToFront(stack1, a.then) ELSE stack1
  <2>1. CASE a.then # Nobody
    <3>1. set1 \cup {a.then} = open' \ minimized' /\ zStack' = bringToFront(stack1, a.then)
      BY <1>2, <1>5, <2>1
    <3>2. Stacks(bringToFront(stack1, a.then), set1 \cup {a.then})
      BY <1>3, FrontStacks
    <3> QED
      BY <3>1, <3>2 DEF StackInv
  <2>2. CASE a.then = Nobody
    <3>1. set1 = open' \ minimized' /\ zStack' = stack1
      BY <1>2, <1>5, <2>2
    <3> QED
      BY <1>3, <3>1 DEF StackInv
  <2> QED
    BY <2>1, <2>2
<1> QED
  BY <1>1, <1>4, <1>5

LEMMA StackInductive == ShellSpec => []StackInv
<1>1. ShellInit => StackInv
  <2> SUFFICES ASSUME ShellInit
               PROVE  StackInv
    OBVIOUS
  <2>1. CASE inSetupMode
    <3>1. zStack = <<Wizard>> /\ open \ minimized = {Wizard}
      BY <2>1 DEF ShellInit
    <3>2. Stacks(<<Wizard>>, {Wizard})
      BY DEF Stacks, Once, ToSet
    <3> QED
      BY <3>1, <3>2 DEF StackInv
  <2>2. CASE ~inSetupMode
    <3>1. zStack = <<>> /\ open \ minimized = {}
      BY <2>2 DEF ShellInit
    <3> QED
      BY <3>1, EmptyStacks DEF StackInv
  <2> QED
    BY <2>1, <2>2
<1>2. StackInv /\ [ShellNext]_shellVars => StackInv'
  <2> SUFFICES ASSUME StackInv, [ShellNext]_shellVars PROVE StackInv'
    OBVIOUS
  <2> USE DEF windowVars
  <2>1. ASSUME NEW id \in Windows,
               Activate(id) \/ CloseButton(id) \/ MinimizeButton(id) \/ TaskButton(id)
                 \/ toggleMaximize(id) \/ Drag(id)
        PROVE  StackInv'
    <3>1. CASE Activate(id)
      BY <3>1, RaiseStacks DEF Activate, Shown
    <3>2. CASE CloseButton(id)
      BY <3>2, ClosesStacks DEF CloseButton
    <3>3. CASE MinimizeButton(id)
      BY <3>3, MinimizeStacks DEF MinimizeButton
    <3>4. CASE TaskButton(id)
      <4>1. CASE id \in minimized
        BY <3>4, <4>1, OpensStacks DEF TaskButton
      <4>2. CASE id \notin minimized /\ focused = id
        BY <3>4, <4>2, MinimizeStacks DEF TaskButton
      <4>3. CASE id \notin minimized /\ focused # id
        BY <3>4, <4>3, RaiseStacks DEF TaskButton
      <4> QED
        BY <4>1, <4>2, <4>3
    <3>5. CASE toggleMaximize(id) \/ Drag(id)
      BY <3>5, StillStacks DEF toggleMaximize, Drag
    <3> QED
      BY <2>1, <3>1, <3>2, <3>3, <3>4, <3>5
  <2>2. CASE \E v \in Viewports : ResizeViewport(v)
    BY <2>2, StillStacks DEF ResizeViewport
  <2>3. CASE (\E t \in Terminals : openTerminal(t)) \/ openNotepad \/ openWizard
    BY <2>3, OpensStacks DEF openTerminal, openNotepad, openWizard
  <2>4. CASE Exit \/ WizardDone
    BY <2>4, ExitStacks, ClosesStacks DEF Exit, WizardDone
  <2>5. CASE Escape
    <3>1. CASE focused = Wizard /\ inSetupMode
      BY <2>5, <3>1, ExitStacks DEF Escape
    <3>2. CASE ~(focused = Wizard /\ inSetupMode)
      BY <2>5, <3>2, ClosesStacks DEF Escape
    <3> QED
      BY <3>1, <3>2
  <2>6. CASE Refresh \/ NewChat \/ NewChatReply \/ CancelDelete
    BY <2>6, StillStacks DEF Refresh, NewChat, NewChatReply, CancelDelete
  <2>7. CASE ConfirmDelete
    BY <2>7, ClosesStacks DEF ConfirmDelete
  <2>8. CASE \E a \in lists, ok \in BOOLEAN : ListReply(a, ok)
    BY <2>8, ListStacks
  <2>9. ASSUME NEW s \in Chats, openChat(s) \/ RequestDelete(s) \/ \E ok \in BOOLEAN : DeleteReply(s, ok)
        PROVE  StackInv'
    BY <2>9, OpensStacks, StillStacks DEF openChat, RequestDelete, DeleteReply
  <2>10. CASE UNCHANGED shellVars
    BY <2>10, StillStacks DEF shellVars
  <2> QED
    BY <2>1, <2>2, <2>3, <2>4, <2>5, <2>6, <2>7, <2>8, <2>9, <2>10 DEF ShellNext
<1> QED
  BY <1>1, <1>2, PTL DEF ShellSpec

\* The stack holds every window that is open and not minimised exactly once, whichever of the
\* user's clicks and late answers opened, closed, raised or minimised it (zStack of
\* WinXpExperiment): no window without a depth, and Escape always finds the one in front.
THEOREM StackAlwaysShown == ShellSpec => []StackIsShown
<1>1. StackInv => StackIsShown
  <2> SUFFICES ASSUME StackInv
               PROVE  StackIsShown
    OBVIOUS
  <2>1. zStack \in Seq(open \ minimized) /\ Once(zStack) /\ ToSet(zStack) = open \ minimized
    BY DEF StackInv, Stacks
  <2>2. Cardinality({zStack[i] : i \in DOMAIN zStack}) = Len(zStack)
    BY <2>1, OnceCounts
  <2> QED
    BY <2>1, <2>2 DEF StackIsShown, ToSet
<1> QED
  BY <1>1, StackInductive, PTL

-----------------------------------------------------------------------------
(* ChatView: The button a request keeps busy. *)

Buttons == {"send", "regenerate", "more", "stop"}

Holds(k, c) == IF k = "stop" THEN c.op = "stop" \/ c.then ELSE c.op = k
Held(k, cs) == \E c \in cs : Holds(k, c)

\* No button is held by two requests.
HeldOnce(cs) == \A k \in Buttons : \A c, d \in cs : Holds(k, c) /\ Holds(k, d) => c = d

CallShape(c) ==
  /\ c = [op |-> c.op, of |-> c.of, list |-> c.list, at |-> c.at, live |-> c.live, then |-> c.then,
          st |-> c.st]
  /\ c.then => c.op = "poll"

BusyInv ==
  /\ kind \in {"page", "window"}
  /\ \A c \in calls : CallShape(c)
  /\ HeldOnce(calls)
  /\ BusyMeansInFlight

LEMMA Busy ==
  BusyMeansInFlight <=> /\ sending <=> Held("send", calls)
                        /\ regenerating <=> Held("regenerate", calls)
                        /\ loadingMore <=> Held("more", calls)
                        /\ stopping <=> Held("stop", calls)
BY DEF BusyMeansInFlight, Held, Holds, InFlight

LEMMA BusyThen ==
  BusyMeansInFlight' <=> /\ sending' <=> Held("send", calls')
                         /\ regenerating' <=> Held("regenerate", calls')
                         /\ loadingMore' <=> Held("more", calls')
                         /\ stopping' <=> Held("stop", calls')
BY DEF BusyMeansInFlight, Held, Holds, InFlight

LEMMA AskedFor ==
  ASSUME NEW op, NEW s, NEW list
  PROVE  /\ CallShape(Request(op, s, list)) /\ Request(op, s, list).op = op /\ ~Request(op, s, list).then
<1> DEFINE no == FALSE
           yes == TRUE
           st == IF op \in {"full", "poll", "more"} THEN "ok" ELSE "sent"
           c == [op |-> op, of |-> s, list |-> list, at |-> None, live |-> yes, then |-> no, st |-> st]
<1>1. Request(op, s, list) = c /\ ~no
  BY DEF Request
<1> HIDE DEF no, yes, st
<1>2. c.op = op /\ c.then = no /\ CallShape(c)
  BY <1>1 DEF CallShape
<1> QED
  BY <1>1, <1>2

\* A request is added, for a button that is free or for none.
LEMMA Adds ==
  ASSUME NEW cs, NEW c, HeldOnce(cs), \A k \in Buttons : Holds(k, c) => ~Held(k, cs)
  PROVE  /\ HeldOnce(cs \cup {c})
         /\ \A k \in Buttons : Held(k, cs \cup {c}) <=> Held(k, cs) \/ Holds(k, c)
BY DEF HeldOnce, Held

\* A request is gone.
LEMMA Drops ==
  ASSUME NEW cs, NEW c \in cs, HeldOnce(cs)
  PROVE  /\ HeldOnce(cs \ {c})
         /\ \A k \in Buttons : Held(k, cs \ {c}) <=> Held(k, cs) /\ ~Holds(k, c)
BY DEF HeldOnce, Held

\* Polls are cancelled: they keep whom they hold.
LEMMA Cleans ==
  ASSUME NEW list, NEW cs, \A c \in cs : CallShape(c), HeldOnce(cs)
  PROVE  /\ \A c \in Cleanup(list, cs) : CallShape(c)
         /\ HeldOnce(Cleanup(list, cs))
         /\ \A k \in Buttons : Held(k, Cleanup(list, cs)) <=> Held(k, cs)
<1> DEFINE live(c) == c.live /\ c.op # "poll"
           d(c) == [c EXCEPT !.live = live(c)]
<1>1. ASSUME NEW c \in cs
      PROVE  CallShape(d(c)) /\ d(c).op = c.op /\ d(c).then = c.then
  <2> HIDE DEF live
  <2> QED
    BY DEF CallShape
<1>2. Cleanup(list, cs) = cs \/ Cleanup(list, cs) = {d(c) : c \in cs}
  BY DEF Cleanup
<1> HIDE DEF d
<1>3. ASSUME NEW c \in cs, NEW k \in Buttons PROVE Holds(k, d(c)) <=> Holds(k, c)
  BY <1>1 DEF Holds
<1>4. CASE Cleanup(list, cs) = {d(c) : c \in cs}
  <2>1. HeldOnce({d(c) : c \in cs})
    BY <1>3 DEF HeldOnce
  <2>2. \A k \in Buttons : Held(k, {d(c) : c \in cs}) <=> Held(k, cs)
    BY <1>3 DEF Held
  <2> QED
    BY <1>1, <1>4, <2>1, <2>2
<1> QED
  BY <1>2, <1>4

-----------------------------------------------------------------------------
(* The steps. *)

LEMMA BusyInit == Init => BusyInv
<1> SUFFICES ASSUME Init PROVE BusyInv
  OBVIOUS
<1> DEFINE c == Request("full", session, Listed(session, PageSize, 0))
<1>1. CallShape(c) /\ c.op = "full" /\ ~c.then
  BY AskedFor
<1> HIDE DEF c
<1>2. calls = {c} /\ kind \in {"page", "window"} /\ ~sending /\ ~stopping /\ ~regenerating /\ ~loadingMore
  BY DEF Init, c
<1>3. \A k \in Buttons : ~Holds(k, c)
  BY <1>1 DEF Buttons, Holds
<1> QED
  BY <1>1, <1>2, <1>3, Busy DEF BusyInv, HeldOnce, Held, Buttons

\* A request that holds no button.
LEMMA ListRequestKeeps ==
  ASSUME BusyInv, NEW c, CallShape(c), c.op \in {"full", "poll"}, ~c.then,
         calls' = calls \cup {c}, UNCHANGED <<kind, flags>>
  PROVE  BusyInv'
<1>1. \A k \in Buttons : ~Holds(k, c)
  BY DEF Buttons, Holds
<1>2. HeldOnce(calls') /\ \A k \in Buttons : Held(k, calls') <=> Held(k, calls)
  BY <1>1, Adds DEF BusyInv
<1>3. BusyMeansInFlight'
  BY <1>2, Busy, BusyThen DEF BusyInv, flags, Buttons
<1> QED
  BY <1>2, <1>3 DEF BusyInv

\* A request that takes a button.
LEMMA PressKeeps ==
  ASSUME BusyInv, NEW k \in Buttons, NEW c, CallShape(c), c.op = k, ~c.then, ~Held(k, calls),
         calls' = calls \cup {c}, kind' = kind,
         sending' <=> sending \/ k = "send", stopping' <=> stopping \/ k = "stop",
         regenerating' <=> regenerating \/ k = "regenerate", loadingMore' <=> loadingMore \/ k = "more"
  PROVE  BusyInv'
<1>1. \A b \in Buttons : Holds(b, c) <=> b = k
  BY DEF Buttons, Holds
<1>2. HeldOnce(calls') /\ \A b \in Buttons : Held(b, calls') <=> Held(b, calls) \/ b = k
  BY <1>1, Adds DEF BusyInv
<1>3. BusyMeansInFlight'
  BY <1>2, Busy, BusyThen DEF BusyInv, Buttons
<1> QED
  BY <1>2, <1>3 DEF BusyInv

LEMMA AsksKeep ==
  ASSUME BusyInv, loadMoreMessages \/ send \/ stop \/ regenerate
  PROVE  BusyInv'
<1>0. /\ sending <=> Held("send", calls)
      /\ regenerating <=> Held("regenerate", calls)
      /\ loadingMore <=> Held("more", calls)
      /\ stopping <=> Held("stop", calls)
  BY Busy DEF BusyInv
<1>1. CASE loadMoreMessages
  <2> DEFINE c == Request("more", session, Listed(session, PageSize, Len(messages)))
  <2>1. CallShape(c) /\ c.op = "more" /\ ~c.then
    BY AskedFor
  <2> HIDE DEF c
  <2>2. /\ calls' = calls \cup {c} /\ ~loadingMore /\ loadingMore'
        /\ UNCHANGED <<kind, sending, stopping, regenerating>>
    BY <1>1 DEF loadMoreMessages, c
  <2> QED
    BY <1>0, <2>1, <2>2, PressKeeps DEF Buttons
<1>2. CASE send
  <2> DEFINE c == Request("send", session, <<>>)
  <2>1. CallShape(c) /\ c.op = "send" /\ ~c.then
    BY AskedFor
  <2> HIDE DEF c
  <2>2. /\ calls' = calls \cup {c} /\ ~sending /\ sending'
        /\ UNCHANGED <<kind, loadingMore, stopping, regenerating>>
    BY <1>2 DEF send, ComposerOpen, c
  <2> QED
    BY <1>0, <2>1, <2>2, PressKeeps DEF Buttons
<1>3. CASE stop
  <2> DEFINE c == Request("stop", session, <<>>)
  <2>1. CallShape(c) /\ c.op = "stop" /\ ~c.then
    BY AskedFor
  <2> HIDE DEF c
  <2>2. /\ calls' = calls \cup {c} /\ ~stopping /\ stopping'
        /\ UNCHANGED <<kind, loadingMore, sending, regenerating>>
    BY <1>3 DEF stop, c
  <2> QED
    BY <1>0, <2>1, <2>2, PressKeeps DEF Buttons
<1>4. CASE regenerate
  <2> DEFINE r == Request("regenerate", session, <<>>)
             c == [r EXCEPT !.at = lastAssistantId]
  <2>1. CallShape(r) /\ r.op = "regenerate" /\ ~r.then
    BY AskedFor
  <2>2. /\ calls' = calls \cup {c} /\ ~regenerating /\ regenerating'
        /\ UNCHANGED <<kind, loadingMore, sending, stopping>>
    BY <1>4 DEF regenerate, CanRegenerate
  <2> HIDE DEF r
  <2>4. CallShape(c) /\ c.op = "regenerate" /\ c.then = r.then
    BY <2>1 DEF CallShape
  <2> HIDE DEF c
  <2> QED
    BY <1>0, <2>1, <2>2, <2>4, PressKeeps DEF Buttons
<1> QED
  BY <1>1, <1>2, <1>3, <1>4

LEMMA ServeKeeps ==
  ASSUME BusyInv, NEW c \in calls, Serve(c)
  PROVE  BusyInv'
<1>1. PICK list : calls' = (calls \ {c}) \cup {[c EXCEPT !.st = "ok", !.list = list]}
  BY DEF Serve
<1> DEFINE e == [c EXCEPT !.st = "ok"]
           d == [e EXCEPT !.list = list]
<1>2. calls' = (calls \ {c}) \cup {d} /\ UNCHANGED <<kind, flags>>
  BY <1>1 DEF Serve
<1>3. CallShape(e) /\ e.op = c.op /\ e.then = c.then
  BY DEF CallShape, BusyInv
<1> HIDE DEF e
<1>4. CallShape(d) /\ d.op = c.op /\ d.then = c.then
  BY <1>3 DEF CallShape
<1> HIDE DEF d
<1>5. \A k \in Buttons : Holds(k, d) <=> Holds(k, c)
  BY <1>4 DEF Holds
<1>6. HeldOnce(calls \ {c}) /\ \A k \in Buttons : Held(k, calls \ {c}) <=> Held(k, calls) /\ ~Holds(k, c)
  BY Drops DEF BusyInv
<1>7. HeldOnce(calls') /\ \A k \in Buttons : Held(k, calls') <=> Held(k, calls \ {c}) \/ Holds(k, d)
  BY <1>2, <1>5, <1>6, Adds
<1>8. \A k \in Buttons : Holds(k, c) => Held(k, calls)
  BY DEF Held
<1>9. \A k \in Buttons : Held(k, calls') <=> Held(k, calls)
  BY <1>5, <1>6, <1>7, <1>8
<1>10. BusyMeansInFlight'
  BY <1>2, <1>9, Busy, BusyThen DEF BusyInv, flags, Buttons
<1> QED
  BY <1>2, <1>4, <1>7, <1>10 DEF BusyInv

\* A request is over and lets go of its button; the list may be shown.
LEMMA OverKeeps ==
  ASSUME BusyInv, NEW c \in calls, kind' = kind,
         calls' = calls \ {c} \/ \E list : calls' = Cleanup(list, calls \ {c}),
         sending' <=> sending /\ ~Holds("send", c),
         stopping' <=> stopping /\ ~Holds("stop", c),
         regenerating' <=> regenerating /\ ~Holds("regenerate", c),
         loadingMore' <=> loadingMore /\ ~Holds("more", c)
  PROVE  BusyInv'
<1> DEFINE cs == calls \ {c}
<1>1. HeldOnce(cs) /\ \A k \in Buttons : Held(k, cs) <=> Held(k, calls) /\ ~Holds(k, c)
  BY Drops DEF BusyInv
<1>2. \A d \in cs : CallShape(d)
  BY DEF BusyInv
<1> HIDE DEF cs
<1>3. /\ \A d \in calls' : CallShape(d)
      /\ HeldOnce(calls')
      /\ \A k \in Buttons : Held(k, calls') <=> Held(k, cs)
  <2>1. CASE calls' = cs
    BY <1>1, <1>2, <2>1
  <2>2. CASE \E list : calls' = Cleanup(list, cs)
    BY <1>1, <1>2, <2>2, Cleans
  <2> QED
    BY <2>1, <2>2 DEF cs
<1>4. BusyMeansInFlight'
  BY <1>1, <1>3, Busy, BusyThen DEF BusyInv, Buttons
<1> QED
  BY <1>3, <1>4 DEF BusyInv

LEMMA StopReplyKeeps ==
  ASSUME BusyInv, NEW c \in calls, StopReply(c)
  PROVE  BusyInv'
<1>0. c.op = "stop" /\ UNCHANGED <<kind, sending, regenerating, loadingMore>>
  BY DEF StopReply
<1>1. ~c.then /\ \A k \in Buttons : Holds(k, c) <=> k = "stop"
  BY <1>0 DEF BusyInv, CallShape, Holds, Buttons
<1>2. CASE kind = "window"
  <2>1. calls' = calls \ {c} /\ ~stopping'
    BY <1>2 DEF StopReply
  <2> QED
    BY <1>0, <1>1, <2>1, OverKeeps DEF Buttons
<1>3. CASE kind = "page"
  <2> DEFINE yes == TRUE
             r == Request("poll", c.of, Listed(c.of, PollSize, 0))
             d == [r EXCEPT !.then = yes]
  <2>1. calls' = (calls \ {c}) \cup {d} /\ stopping'
    BY <1>3 DEF StopReply
  <2>2. CallShape(r) /\ r.op = "poll" /\ yes
    BY AskedFor
  <2> HIDE DEF yes, r
  <2>3. CallShape(d) /\ d.op = "poll" /\ d.then = yes
    <3>1. /\ d = [op |-> d.op, of |-> d.of, list |-> d.list, at |-> d.at, live |-> d.live, then |-> d.then,
                  st |-> d.st]
          /\ d.op = r.op
          /\ d.then = yes
      <4>1. r = [op |-> r.op, of |-> r.of, list |-> r.list, at |-> r.at, live |-> r.live, then |-> r.then,
                  st |-> r.st]
        BY <2>2 DEF CallShape
      <4> QED
        BY <4>1
    <3> HIDE DEF d
    <3> QED
      BY <2>2, <3>1 DEF CallShape
  <2> HIDE DEF d
  <2>4. \A k \in Buttons : Holds(k, d) <=> k = "stop"
    BY <2>2, <2>3 DEF Holds, Buttons
  <2>5. HeldOnce(calls \ {c}) /\ \A k \in Buttons : Held(k, calls \ {c}) <=> Held(k, calls) /\ ~Holds(k, c)
    BY Drops DEF BusyInv
  <2>6. HeldOnce(calls') /\ \A k \in Buttons : Held(k, calls') <=> Held(k, calls \ {c}) \/ Holds(k, d)
    BY <1>1, <2>1, <2>4, <2>5, Adds
  <2>7. BusyMeansInFlight'
    BY <1>0, <1>1, <2>1, <2>4, <2>5, <2>6, Busy, BusyThen DEF BusyInv, Buttons
  <2> QED
    BY <1>0, <2>1, <2>3, <2>6, <2>7 DEF BusyInv
<1> QED
  BY <1>2, <1>3 DEF BusyInv

LEMMA ReplyKeeps ==
  ASSUME BusyInv, NEW c \in calls, Reply(c)
  PROVE  BusyInv'
<1>0. /\ Holds("send", c) <=> c.op = "send"
      /\ Holds("regenerate", c) <=> c.op = "regenerate"
      /\ Holds("more", c) <=> c.op = "more"
      /\ Holds("stop", c) <=> c.op = "stop" \/ c.then
      /\ c.then => c.op = "poll"
  BY DEF Holds, BusyInv, CallShape
<1>1. CASE FullReply(c)
  BY <1>0, <1>1, OverKeeps DEF FullReply, Show, flags
<1>2. CASE PollReply(c)
  <2>1. calls' = calls \ {c} \/ \E list : calls' = Cleanup(list, calls \ {c})
    BY <1>2 DEF PollReply, Show
  <2> QED
    BY <1>0, <1>2, <2>1, OverKeeps DEF PollReply
<1>3. CASE MoreReply(c)
  <2>1. calls' = calls \ {c} \/ \E list : calls' = Cleanup(list, calls \ {c})
    BY <1>3 DEF MoreReply, Show
  <2> QED
    BY <1>0, <1>3, <2>1, OverKeeps DEF MoreReply
<1>4. CASE SendReply(c)
  BY <1>0, <1>4, OverKeeps DEF SendReply, Show
<1>5. CASE RegenerateReply(c)
  BY <1>0, <1>5, OverKeeps DEF RegenerateReply, Show
<1> QED
  BY <1>1, <1>2, <1>3, <1>4, <1>5, StopReplyKeeps DEF Reply

LEMMA FailsKeeps ==
  ASSUME BusyInv, NEW c \in calls, Fails(c)
  PROVE  BusyInv'
<1>0. /\ Holds("send", c) <=> c.op = "send"
      /\ Holds("regenerate", c) <=> c.op = "regenerate"
      /\ Holds("more", c) <=> c.op = "more"
      /\ Holds("stop", c) <=> c.op = "stop" \/ c.then
  BY DEF Holds
<1> QED
  BY <1>0, OverKeeps DEF Fails, Released

LEMMA BusyStep == BusyInv /\ [Next]_vars => BusyInv'
<1> SUFFICES ASSUME BusyInv, [Next]_vars PROVE BusyInv'
  OBVIOUS
<1>1. CASE UNCHANGED <<kind, calls, flags>>
  BY <1>1 DEF BusyInv, BusyMeansInFlight, InFlight, flags
<1>2. ASSUME NEW s, SwitchSession(s) PROVE BusyInv'
  <2> DEFINE c == Request("full", s, Listed(s, PageSize, 0))
  <2>1. CallShape(c) /\ c.op = "full" /\ ~c.then
    BY AskedFor
  <2>2. calls' = calls \cup {c} /\ UNCHANGED <<kind, flags>>
    BY <1>2 DEF SwitchSession
  <2> HIDE DEF c
  <2> QED
    BY <2>1, <2>2, ListRequestKeeps
<1>3. CASE Poll
  <2> DEFINE c == Request("poll", session, Listed(session, PollSize, 0))
  <2>1. CallShape(c) /\ c.op = "poll" /\ ~c.then
    BY AskedFor
  <2>2. calls' = calls \cup {c} /\ UNCHANGED <<kind, flags>>
    BY <1>3 DEF Poll
  <2> HIDE DEF c
  <2> QED
    BY <2>1, <2>2, ListRequestKeeps
<1>4. ASSUME NEW i, Settle(i) PROVE BusyInv'
  BY <1>1, <1>4 DEF Settle
<1>5. CASE UNCHANGED vars
  BY <1>1, <1>5 DEF vars
<1> QED
  BY <1>2, <1>3, <1>4, <1>5, AsksKeep, ServeKeeps, ReplyKeeps, FailsKeeps DEF Next

\* No button of a chat stays busy for a request that is over, and none is released while its
\* request is under way: for any number of sessions, messages, polls and failures, in whatever
\* order they are answered (sending, regenerating, loadingMore and stopping of both views).
THEOREM BusyIsInFlight == Spec => []BusyMeansInFlight
<1>1. BusyInv => BusyMeansInFlight
  BY DEF BusyInv
<1> QED
  BY <1>1, BusyInit, BusyStep, PTL DEF Spec

-----------------------------------------------------------------------------
(* ChatView: what lists contain. *)

LEMMA IdsAreKnown ==
  ASSUME NEW list \in Seq(Message)
  PROVE  /\ Len(list) \in Nat /\ DOMAIN list = 1..Len(list)
         /\ \A i \in DOMAIN list : list[i] \in Message /\ list[i].id \in 1..MaxId
         /\ Ids(list) \in SUBSET (1..MaxId)
<1>1. Len(list) \in Nat /\ DOMAIN list = 1..Len(list) /\ \A i \in DOMAIN list : list[i] \in Message
  OBVIOUS
<1>2. \A m \in Message : m.id \in 1..MaxId
  BY DEF Message
<1> QED
  BY <1>1, <1>2 DEF Ids

\* A sorted set is a list of its messages, one for each id.
LEMMA SortedIsList ==
  ASSUME NEW set \in SUBSET Message
  PROVE  /\ ById(set) \in Seq(Message)
         /\ {m.id : m \in set} \in SUBSET (1..MaxId)
         /\ Len(ById(set)) = Cardinality({m.id : m \in set}) /\ Len(ById(set)) \in Nat
         /\ \A k \in 1..Len(ById(set)) :
              ById(set)[k] \in set /\ ById(set)[k].id = Nth({m.id : m \in set}, k)
<1> DEFINE ids == {m.id : m \in set}
           n == Cardinality(ids)
           at(k) == CHOOSE m \in set : m.id = Nth(ids, k)
<1>1. ids \in SUBSET (1..MaxId)
  BY DEF Message
<1>2. MaxId \in Nat
  BY ViewAssumption
<1>3. ById(set) = [k \in 1..n |-> at(k)]
  BY DEF ById
<1>4. \A i \in ids : \E m \in set : m.id = i
  OBVIOUS
<1> HIDE DEF ids
<1>5. n \in Nat
  BY <1>1, <1>2, PositionsAreFinite
<1>6. \A k \in 1..n : Nth(ids, k) \in ids
  BY <1>1, <1>2, NthIsThere
<1>7. \A k \in 1..n : at(k) \in set /\ at(k).id = Nth(ids, k)
  BY <1>4, <1>6
<1> HIDE DEF n, at
<1>8. \A k \in 1..n : at(k) \in Message
  BY <1>7
<1>9. ById(set) \in Seq(Message) /\ Len(ById(set)) = n
  BY <1>3, <1>5, <1>8
<1>10. \A k \in 1..n : ById(set)[k] = at(k)
  BY <1>3
<1> QED
  BY <1>1, <1>5, <1>7, <1>9, <1>10, Zenon DEF ids, n

\* Merging brings in no message that was in neither list.
LEMMA MergeIds ==
  ASSUME NEW first \in Seq(Message), NEW second \in Seq(Message)
  PROVE  Merge(first, second) \in Seq(Message) /\ Ids(Merge(first, second)) \subseteq Ids(first) \cup Ids(second)
<1> DEFINE both == first \o second
           lasts == {i \in DOMAIN both : \A j \in DOMAIN both : j > i => both[j].id # both[i].id}
           set == {both[i] : i \in lasts}
<1>1. both \in Seq(Message)
  OBVIOUS
<1>2. \A i \in DOMAIN both : both[i].id \in Ids(first) \cup Ids(second)
  BY DEF Ids
<1>3. Merge(first, second) = ById(set)
  BY DEF Merge
<1>4. set \in SUBSET Message /\ \A m \in set : m.id \in Ids(first) \cup Ids(second)
  BY <1>1, <1>2
<1> HIDE DEF set
<1>5. ById(set) \in Seq(Message) /\ \A k \in 1..Len(ById(set)) : ById(set)[k] \in set
  BY <1>4, SortedIsList
<1>6. \A k \in DOMAIN ById(set) : ById(set)[k].id \in Ids(first) \cup Ids(second)
  BY <1>4, <1>5
<1> HIDE DEF both
<1> QED
  BY <1>3, <1>5, <1>6 DEF Ids

LEMMA AppendIds ==
  ASSUME NEW first \in Seq(Message), NEW second \in Seq(Message)
  PROVE  /\ first \o second \in Seq(Message)
         /\ Ids(first \o second) \subseteq Ids(first) \cup Ids(second)
         /\ Pending(second) => Pending(first \o second)
<1>1. first \o second \in Seq(Message)
  OBVIOUS
<1>2. Ids(first \o second) \subseteq Ids(first) \cup Ids(second)
  BY DEF Ids
<1>3. ASSUME NEW k \in DOMAIN second
      PROVE  /\ Len(first) + k \in DOMAIN (first \o second)
             /\ (first \o second)[Len(first) + k] = second[k]
  OBVIOUS
<1> QED
  BY <1>1, <1>2, <1>3 DEF Pending

LEMMA WithoutIds ==
  ASSUME messages \in Seq(Message), NEW id
  PROVE  WithoutLast(id) \in Seq(Message) /\ Ids(WithoutLast(id)) \subseteq Ids(messages)
<1> DEFINE set == {k \in DOMAIN messages : ~(messages[k].role = "assistant" /\ messages[k].id = id)}
<1>1. WithoutLast(id) = Kept(messages, set) /\ set \in SUBSET (DOMAIN messages)
  BY DEF WithoutLast
<1> HIDE DEF set
<1>2. Kept(messages, set) \in Seq(Message)
  BY <1>1, KeptIsList
<1>3. {Kept(messages, set)[k] : k \in DOMAIN Kept(messages, set)} = {messages[i] : i \in set}
  BY <1>1, KeptRange, Zenon
<1>4. \A k \in DOMAIN Kept(messages, set) : \E i \in DOMAIN messages : Kept(messages, set)[k] = messages[i]
  BY <1>1, <1>3
<1> QED
  BY <1>1, <1>2, <1>4 DEF Ids

-----------------------------------------------------------------------------
(* What the server has of the window's session. *)

RowsOK ==
    /\ session \in Sessions /\ nextId \in Nat \ {0}
    /\ rows \in [1..MaxId -> Message \cup {None}]
    /\ \A j \in 1..MaxId : rows[j] # None => rows[j].id = j /\ rows[j].of = session /\ j < nextId

Lives(i) == i \in 1..MaxId /\ rows[i] # None

\* A later message is there.
Passed(i) == \E j \in 1..MaxId : i < j /\ rows[j] # None

LEMMA StoredIds ==
  ASSUME RowsOK, NEW s
  PROVE  Stored(s) \in SUBSET Message /\ \A m \in Stored(s) : Lives(m.id) /\ m = rows[m.id] /\ m.of = s
BY DEF RowsOK, Stored, Lives

\* A page of the list holds messages that are there.
LEMMA ListedIds ==
  ASSUME RowsOK, NEW s, NEW limit \in Nat, NEW offset \in Nat
  PROVE  Listed(s, limit, offset) \in Seq(Message) /\ \A i \in Ids(Listed(s, limit, offset)) : Lives(i)
<1> DEFINE all == ById(Stored(s))
           last == IF Len(all) > offset THEN Len(all) - offset ELSE 0
           from == IF last > limit THEN last - limit + 1 ELSE 1
<1>1. all \in Seq(Message) /\ Len(all) \in Nat /\ \A k \in 1..Len(all) : all[k] \in Stored(s)
  BY StoredIds, SortedIsList
<1>2. Listed(s, limit, offset) = SubSeq(all, from, last)
  BY DEF Listed
<1> HIDE DEF all
<1>3. last \in 0..Len(all) /\ from \in Nat \ {0}
  BY <1>1
<1> HIDE DEF last, from
<1>4. SubSeq(all, from, last) \in Seq(Message)
  BY <1>1, <1>3
<1>5. \A k \in DOMAIN SubSeq(all, from, last) : \E j \in 1..Len(all) : SubSeq(all, from, last)[k] = all[j]
  BY <1>1, <1>3
<1>6. \A k \in DOMAIN SubSeq(all, from, last) : Lives(SubSeq(all, from, last)[k].id)
  BY <1>1, <1>5, StoredIds
<1> QED
  BY <1>2, <1>4, <1>6 DEF Ids

\* The newest message has the highest id.
LEMMA NewestIsLast ==
  ASSUME RowsOK, Listed(session, 1, 0) # <<>>
  PROVE  /\ Lives(Listed(session, 1, 0)[1].id)
         /\ \A j \in 1..MaxId : rows[j] # None => j <= Listed(session, 1, 0)[1].id
<1> DEFINE set == Stored(session)
           ids == {m.id : m \in set}
           all == ById(set)
           n == Len(all)
<1>1. set \in SUBSET Message
  BY StoredIds
<1>2. \A j \in 1..MaxId : rows[j] # None => j \in ids
  BY DEF RowsOK, Stored
<1> HIDE DEF set
<1>3. /\ all \in Seq(Message) /\ ids \in SUBSET (1..MaxId) /\ n = Cardinality(ids) /\ n \in Nat
      /\ \A k \in 1..n : all[k] \in set /\ all[k].id = Nth(ids, k)
  BY <1>1, SortedIsList
<1> HIDE DEF all
<1>4. Listed(session, 1, 0) = SubSeq(all, IF n > 1 THEN n ELSE 1, n)
  <2>1. Listed(session, 1, 0) =
          LET last == IF n > 0 THEN n - 0 ELSE 0
          IN  SubSeq(all, IF last > 1 THEN last - 1 + 1 ELSE 1, last)
    BY DEF Listed, all, set
  <2>2. (IF n > 0 THEN n - 0 ELSE 0) = n /\ n - 1 + 1 = n
    BY <1>3
  <2> QED
    BY <2>1, <2>2
<1>5. n # 0
  BY <1>3, <1>4
<1>6. Listed(session, 1, 0) = SubSeq(all, n, n)
  <2>1. (IF n > 1 THEN n ELSE 1) = n
    BY <1>3, <1>5
  <2> QED
    BY <1>4, <2>1
<1>7. Listed(session, 1, 0)[1] = all[n]
  BY <1>3, <1>5, <1>6
<1> HIDE DEF n, ids
<1>8. all[n] \in set /\ all[n].id = Nth(ids, n)
  BY <1>3, <1>5
<1>9. \A j \in ids : j <= Nth(ids, n)
  BY <1>3, LastIsGreatest, ViewAssumption
<1>10. Lives(all[n].id)
  BY <1>8, StoredIds DEF set
<1> QED
  BY <1>2, <1>7, <1>8, <1>9, <1>10

-----------------------------------------------------------------------------
(* The window's requests and what was dropped. *)

CallOK(c) ==
    /\ c.of = session
    /\ c.list \in Seq(Message) /\ \A i \in Ids(c.list) : i < nextId
    /\ c.op = "regenerate" => /\ c.at \in 1..MaxId /\ c.at < nextId
                              /\ c.st = "ok" => Passed(c.at) /\ Pending(c.list)
    /\ c.op = "poll" /\ c.live => \A i \in Ids(c.list) : i \in dropped => Lives(i)

WindowInv ==
    kind = "window" =>
      /\ RowsOK
      /\ messages \in Seq(Message) /\ \A i \in Ids(messages) : i < nextId
      /\ dropped \in SUBSET (1..MaxId) /\ \A i \in dropped : Passed(i)
      /\ \A c \in calls : CallOK(c)

\* A call stays as it should be while the server moves on.
LEMMA CallStays ==
  ASSUME WindowInv, kind = "window", NEW c, CallOK(c),
         UNCHANGED <<session, dropped>>, nextId' \in Nat, nextId <= nextId',
         \A i \in 1..MaxId : Passed(i) => Passed(i)' /\ (Lives(i) => Lives(i)')
  PROVE  CallOK(c)'
<1>1. nextId \in Nat /\ dropped \in SUBSET (1..MaxId) /\ \A i \in dropped : Passed(i)
  BY DEF WindowInv, RowsOK
<1>2. c.list \in Seq(Message) /\ \A i \in Ids(c.list) : i < nextId
  BY DEF CallOK
<1>3. \A i \in Ids(c.list) : i \in 1..MaxId /\ i < nextId'
  BY <1>1, <1>2, IdsAreKnown
<1>4. ASSUME c.op = "regenerate"
      PROVE  /\ c.at \in 1..MaxId /\ c.at < nextId'
             /\ c.st = "ok" => Passed(c.at)' /\ Pending(c.list)
  BY <1>1, <1>4 DEF CallOK
<1>5. ASSUME c.op = "poll", c.live
      PROVE  \A i \in Ids(c.list) : i \in dropped => Lives(i)'
  BY <1>1, <1>3, <1>5 DEF CallOK
<1>6. c.of = session' /\ dropped' = dropped
  BY DEF CallOK
<1> QED
  BY <1>2, <1>3, <1>4, <1>5, <1>6 DEF CallOK

\* A request for nothing yet.
LEMMA AskKeeps ==
  ASSUME WindowInv, kind = "window", NEW op \in {"poll", "more", "send", "stop"}, NEW list \in Seq(Message),
         \A i \in Ids(list) : Lives(i),
         calls' = calls \cup {Request(op, session, list)},
         UNCHANGED <<kind, rows, nextId, dropped, session, messages>>
  PROVE  WindowInv'
<1> DEFINE c == Request(op, session, list)
<1>1. c.of = session /\ c.list = list /\ c.op = op
  BY DEF Request
<1>2. \A i \in Ids(list) : i < nextId
  BY DEF WindowInv, RowsOK, Lives
<1>3. c.op # "regenerate"
  BY <1>1
<1>8. calls' = calls \cup {c}
  OBVIOUS
<1> HIDE DEF c
<1>4. CallOK(c)
  BY <1>1, <1>2, <1>3 DEF CallOK
<1>5. UNCHANGED <<RowsOK>> /\ \A i : (Passed(i)' <=> Passed(i)) /\ (Lives(i)' <=> Lives(i))
  BY DEF RowsOK, Passed, Lives
<1>6. \A d \in calls' : CallOK(d)'
  <2> SUFFICES ASSUME NEW d \in calls'
               PROVE  CallOK(d)'
    OBVIOUS
  <2>1. CallOK(d)
    BY <1>4, <1>8 DEF WindowInv
  <2>2. nextId \in Nat /\ nextId' = nextId /\ nextId <= nextId'
    BY DEF WindowInv, RowsOK
  <2> QED
    BY <1>5, <2>1, <2>2, CallStays
<1> QED
  BY <1>5, <1>6 DEF WindowInv

\* A regeneration is asked for the last answer in view.
LEMMA RegenerateKeeps ==
  ASSUME BusyInv, WindowInv, kind = "window", regenerate
  PROVE  WindowInv'
<1> DEFINE r == Request("regenerate", session, <<>>)
           c == [r EXCEPT !.at = lastAssistantId]
<1>0. /\ calls' = calls \cup {c} /\ lastAssistantId # None
      /\ UNCHANGED <<kind, rows, nextId, dropped, session, messages>>
  BY DEF regenerate, CanRegenerate
<1>1. CallShape(r) /\ r.of = session /\ r.list = <<>> /\ r.op = "regenerate" /\ r.st = "sent"
  BY AskedFor DEF Request
<1>2. lastAssistantId \in Ids(messages)
  <2> DEFINE is == {i \in DOMAIN messages : messages[i].role = "assistant"}
             last == CHOOSE i \in is : \A j \in is : j <= i
  <2>1. is # {} /\ lastAssistantId = messages[last].id
    BY <1>0 DEF lastAssistantId
  <2>2. Len(messages) \in Nat /\ is \in SUBSET (1..Len(messages)) /\ is \subseteq DOMAIN messages
    BY IdsAreKnown DEF WindowInv
  <2> HIDE DEF is
  <2>3. last \in is
    BY <2>1, <2>2, LastIsThere
  <2> HIDE DEF last
  <2> QED
    BY <2>1, <2>2, <2>3 DEF Ids
<1>3. lastAssistantId \in 1..MaxId /\ lastAssistantId < nextId
  BY <1>2, IdsAreKnown DEF WindowInv
<1> HIDE DEF r
<1>4. /\ c.of = session /\ c.list = <<>> /\ c.op = "regenerate" /\ c.st = "sent"
      /\ c.at = lastAssistantId
  BY <1>1 DEF CallShape
<1> HIDE DEF c
<1>5. <<>> \in Seq(Message) /\ Ids(<<>>) = {}
  BY DEF Ids
<1>6. CallOK(c)
  BY <1>3, <1>4, <1>5 DEF CallOK
<1>7. UNCHANGED <<RowsOK>> /\ \A i : (Passed(i)' <=> Passed(i)) /\ (Lives(i)' <=> Lives(i))
  BY <1>0 DEF RowsOK, Passed, Lives
<1>8. \A d \in calls' : CallOK(d)'
  <2> SUFFICES ASSUME NEW d \in calls'
               PROVE  CallOK(d)'
    OBVIOUS
  <2>1. CallOK(d)
    BY <1>0, <1>6 DEF WindowInv
  <2>2. nextId \in Nat /\ nextId' = nextId /\ nextId <= nextId'
    BY <1>0 DEF WindowInv, RowsOK
  <2> QED
    BY <1>0, <1>7, <2>1, <2>2, CallStays
<1> QED
  BY <1>0, <1>7, <1>8 DEF WindowInv

LEMMA TwoRows ==
  ASSUME NEW S, NEW T, NEW f \in [S -> T], NEW x \in S, NEW y \in S, x # y, NEW v \in T, NEW w \in T,
         NEW g, g = [f EXCEPT ![x] = v, ![y] = w]
  PROVE  /\ g \in [S -> T] /\ g[x] = v /\ g[y] = w
         /\ \A j \in S : j # x /\ j # y => g[j] = f[j]
<1> DEFINE mid == [f EXCEPT ![x] = v]
<1>1. mid \in [S -> T] /\ mid[x] = v /\ \A j \in S : j # x => mid[j] = f[j]
  OBVIOUS
<1>2. g = [mid EXCEPT ![y] = w]
  OBVIOUS
<1> HIDE DEF mid
<1> QED
  BY <1>1, <1>2

\* The answer to a request of the window, and the rows after it.
LEMMA ServeKeepsWindow ==
  ASSUME BusyInv, WindowInv, kind = "window", NEW c \in calls, Serve(c)
  PROVE  WindowInv'
<1>1. PICK list : /\ calls' = (calls \ {c}) \cup {[c EXCEPT !.st = "ok", !.list = list]}
                  /\ \/ /\ c.op = "send" /\ nextId < MaxId
                        /\ list = <<NewMessage(nextId, c.of, "user"), NewMessage(nextId + 1, c.of, "assistant")>>
                        /\ rows' = [rows EXCEPT ![nextId] = NewMessage(nextId, c.of, "user"),
                                                ![nextId + 1] = NewMessage(nextId + 1, c.of, "assistant")]
                        /\ nextId' = nextId + 2
                     \/ /\ c.op = "regenerate" /\ nextId <= MaxId
                        /\ Listed(c.of, 1, 0) # <<>>
                        /\ list = <<NewMessage(nextId, c.of, "assistant")>>
                        /\ rows' = [rows EXCEPT ![Listed(c.of, 1, 0)[1].id] = None,
                                                ![nextId] = NewMessage(nextId, c.of, "assistant")]
                        /\ nextId' = nextId + 1
                     \/ /\ c.op = "stop" /\ list = <<>> /\ nextId' = nextId
                        /\ rows' = [i \in 1..MaxId |-> IF rows[i] # None /\ rows[i].of = c.of
                                                       THEN [rows[i] EXCEPT !.status = "done"] ELSE rows[i]]
  BY DEF Serve
<1>2. UNCHANGED <<kind, dropped, session, messages>>
  BY DEF Serve
<1>3. CallOK(c) /\ c.of = session /\ RowsOK /\ MaxId \in Nat /\ nextId \in Nat \ {0} /\ None \notin Message
  BY ViewAssumption DEF WindowInv, CallOK, RowsOK
<1> DEFINE u(i) == NewMessage(i, session, "user")
           a(i) == NewMessage(i, session, "assistant")
           e == [c EXCEPT !.st = "ok"]
           d == [e EXCEPT !.list = list]
<1>4. \A i \in 1..MaxId : /\ u(i) \in Message /\ u(i).id = i /\ u(i).of = session
                          /\ a(i) \in Message /\ a(i).id = i /\ a(i).of = session /\ a(i).status = "pending"
  BY <1>3 DEF NewMessage, Message, RowsOK
<1>5. CallShape(e) /\ e.st = "ok" /\ e.op = c.op /\ e.of = c.of /\ e.at = c.at /\ e.live = c.live
  BY DEF BusyInv, CallShape
<1>16. calls' = (calls \ {c}) \cup {d}
  BY <1>1
<1> HIDE DEF e
<1>6. d.st = "ok" /\ d.op = c.op /\ d.of = c.of /\ d.at = c.at /\ d.live = c.live /\ d.list = list
  BY <1>5 DEF CallShape
<1> HIDE DEF d, u, a
<1> DEFINE Moves == /\ RowsOK' /\ nextId <= nextId'
                    /\ \A i \in 1..MaxId : Passed(i) => Passed(i)' /\ (Lives(i) => Lives(i)')
           Fits == /\ list \in Seq(Message) /\ \A i \in Ids(list) : i < nextId'
                   /\ c.op = "regenerate" => Passed(c.at)' /\ Pending(list)
                   /\ c.op # "poll"
<1>7. ASSUME c.op = "send", nextId < MaxId, list = <<u(nextId), a(nextId + 1)>>,
             rows' = [rows EXCEPT ![nextId] = u(nextId), ![nextId + 1] = a(nextId + 1)],
             nextId' = nextId + 2
      PROVE  Moves /\ Fits
  <2>1. nextId \in 1..MaxId /\ nextId + 1 \in 1..MaxId /\ nextId' \in Nat \ {0} /\ nextId <= nextId'
    BY <1>3, <1>7
  <2>2. u(nextId) \in Message /\ a(nextId + 1) \in Message /\ u(nextId) # None /\ a(nextId + 1) # None
    BY <1>3, <1>4, <2>1
  <2>3. /\ rows' \in [1..MaxId -> Message \cup {None}]
        /\ rows'[nextId] = u(nextId) /\ rows'[nextId + 1] = a(nextId + 1)
        /\ \A j \in 1..MaxId : j # nextId /\ j # nextId + 1 => rows'[j] = rows[j]
    <3>1. nextId # nextId + 1
      BY <1>3
    <3> QED
      BY <1>3, <1>7, <2>1, <2>2, <3>1, TwoRows DEF RowsOK
  <2>4. \A j \in 1..MaxId : rows'[j] # None => rows'[j].id = j /\ rows'[j].of = session /\ j < nextId'
    BY <1>3, <1>4, <1>7, <2>1, <2>3 DEF RowsOK
  <2>5. RowsOK'
    BY <1>2, <1>3, <2>1, <2>3, <2>4 DEF RowsOK
  <2>6. \A j \in 1..MaxId : rows[j] # None => rows'[j] # None
    BY <2>2, <2>3
  <2>7. Moves
    BY <2>1, <2>5, <2>6 DEF Passed, Lives
  <2>8. list \in Seq(Message) /\ DOMAIN list = 1..2 /\ list[1] = u(nextId) /\ list[2] = a(nextId + 1)
    BY <1>7, <2>2
  <2>9. \A i \in Ids(list) : i < nextId'
    BY <1>3, <1>4, <1>7, <2>1, <2>8 DEF Ids
  <2> QED
    BY <1>7, <2>7, <2>8, <2>9
<1>8. ASSUME c.op = "regenerate", nextId <= MaxId, Listed(session, 1, 0) # <<>>,
             list = <<a(nextId)>>,
             rows' = [rows EXCEPT ![Listed(session, 1, 0)[1].id] = None, ![nextId] = a(nextId)],
             nextId' = nextId + 1
      PROVE  Moves /\ Fits
  <2> DEFINE last == Listed(session, 1, 0)[1].id
  <2>1. Lives(last) /\ \A j \in 1..MaxId : rows[j] # None => j <= last
    BY <1>3, <1>8, NewestIsLast
  <2> HIDE DEF last
  <2>2. nextId \in 1..MaxId /\ nextId' \in Nat \ {0} /\ nextId <= nextId'
    BY <1>3, <1>8
  <2>3. a(nextId) \in Message /\ a(nextId) # None /\ a(nextId).status = "pending"
    BY <1>3, <1>4, <2>2
  <2>4. last \in 1..MaxId /\ last < nextId
    BY <1>3, <2>1 DEF RowsOK, Lives
  <2>5. /\ rows' \in [1..MaxId -> Message \cup {None}]
        /\ rows'[nextId] = a(nextId)
        /\ \A j \in 1..MaxId : j # nextId /\ j # last => rows'[j] = rows[j]
        /\ rows'[last] = None
    <3>1. last # nextId
      BY <1>3, <2>2, <2>4
    <3>2. rows' = [rows EXCEPT ![last] = None, ![nextId] = a(nextId)]
      BY <1>8 DEF last
    <3> QED
      BY <1>3, <2>2, <2>3, <2>4, <3>1, <3>2, TwoRows DEF RowsOK
  <2>6. \A j \in 1..MaxId : rows'[j] # None => rows'[j].id = j /\ rows'[j].of = session /\ j < nextId'
    BY <1>3, <1>4, <1>8, <2>2, <2>4, <2>5 DEF RowsOK
  <2>7. RowsOK'
    BY <1>2, <1>3, <2>2, <2>5, <2>6 DEF RowsOK
  <2>8. \A i \in 1..MaxId : i < nextId => Passed(i)'
    BY <2>2, <2>3, <2>5 DEF Passed
  <2>9. ASSUME NEW i \in 1..MaxId, Passed(i)
        PROVE  Passed(i)' /\ (Lives(i) => Lives(i)')
    <3>1. PICK j \in 1..MaxId : i < j /\ rows[j] # None
      BY <2>9 DEF Passed
    <3>2. i < last /\ i < nextId
      <4>1. j <= last
        BY <2>1, <3>1
      <4> QED
        BY <1>3, <2>4, <3>1, <4>1
    <3>3. rows'[i] = rows[i]
      BY <2>4, <2>5, <3>2
    <3> QED
      BY <2>8, <3>2, <3>3 DEF Lives
  <2>10. list \in Seq(Message) /\ DOMAIN list = 1..1 /\ list[1] = a(nextId)
    BY <1>8, <2>3
  <2>11. \A i \in Ids(list) : i < nextId'
    BY <1>3, <1>4, <1>8, <2>2, <2>10 DEF Ids
  <2>12. Pending(list)
    BY <2>3, <2>10 DEF Pending
  <2>13. Passed(c.at)'
    BY <1>3, <1>8, <2>8 DEF CallOK
  <2> QED
    BY <1>8, <2>2, <2>7, <2>9, <2>10, <2>11, <2>12, <2>13
<1>9. ASSUME c.op = "stop", list = <<>>, nextId' = nextId,
             rows' = [i \in 1..MaxId |-> IF rows[i] # None /\ rows[i].of = session
                                         THEN [rows[i] EXCEPT !.status = "done"] ELSE rows[i]]
      PROVE  Moves /\ Fits
  <2>1. \A m \in Message : LET n == [m EXCEPT !.status = "done"]
                           IN  n \in Message /\ n.id = m.id /\ n.of = m.of
    BY DEF Message
  <2>2. \A j \in 1..MaxId : IF rows[j] = None THEN rows'[j] = None
                            ELSE /\ rows'[j] \in Message /\ rows'[j].id = rows[j].id
                                 /\ rows'[j].of = rows[j].of
    BY <1>3, <1>9, <2>1 DEF RowsOK
  <2>3. rows' \in [1..MaxId -> Message \cup {None}]
    BY <1>9, <2>2
  <2>4. \A j \in 1..MaxId : rows[j] # None <=> rows'[j] # None
    BY <1>3, <2>2
  <2>5. RowsOK'
    BY <1>2, <1>3, <1>9, <2>2, <2>3, <2>4 DEF RowsOK
  <2>6. <<>> \in Seq(Message) /\ Ids(<<>>) = {}
    BY DEF Ids
  <2> QED
    BY <1>3, <1>9, <2>4, <2>5, <2>6 DEF Passed, Lives
<1>10. Moves /\ Fits
  <2> HIDE DEF Moves, Fits
  <2> QED
    BY <1>1, <1>3, <1>7, <1>8, <1>9 DEF u, a
<1>11. CallOK(d)'
  <2>1. d.of = session' /\ d.list \in Seq(Message) /\ \A i \in Ids(d.list) : i < nextId'
    BY <1>2, <1>3, <1>6, <1>10
  <2>2. ASSUME d.op = "regenerate"
        PROVE  d.at \in 1..MaxId /\ d.at < nextId' /\ Passed(d.at)' /\ Pending(d.list)
    <3>1. c.at \in 1..MaxId /\ c.at < nextId
      BY <1>3, <1>6, <2>2 DEF CallOK
    <3>2. nextId' \in Nat
      BY <1>10 DEF RowsOK
    <3> QED
      BY <1>3, <1>6, <1>10, <2>2, <3>1, <3>2
  <2>3. d.op # "poll"
    BY <1>6, <1>10
  <2> QED
    BY <2>1, <2>2, <2>3 DEF CallOK
<1>12. nextId' \in Nat
  BY <1>10 DEF RowsOK
<1>13. \A x \in calls' : CallOK(x)'
  <2> SUFFICES ASSUME NEW x \in calls'
               PROVE  CallOK(x)'
    OBVIOUS
  <2>1. CASE x \in calls
    <3>1. CallOK(x)
      BY <2>1 DEF WindowInv
    <3> QED
      BY <1>2, <1>10, <1>12, <3>1, CallStays
  <2> QED
    BY <1>11, <1>16, <2>1
<1>14. \A i \in Ids(messages) : i < nextId'
  BY <1>3, <1>10, <1>12, IdsAreKnown DEF WindowInv
<1>15. \A i \in dropped : Passed(i)'
  BY <1>10 DEF WindowInv
<1> QED
  BY <1>2, <1>10, <1>13, <1>14, <1>15 DEF WindowInv

\* Calls that remain, or are cancelled, while the server rests.
LEMMA RestKeeps ==
  ASSUME BusyInv, WindowInv, kind = "window", UNCHANGED <<kind, rows, nextId, session>>,
         messages' \in Seq(Message), \A i \in Ids(messages') : i < nextId,
         dropped' \in SUBSET (1..MaxId), \A i \in dropped' : Passed(i),
         \A d \in calls' : \E c \in calls :
            /\ d.op = c.op /\ d.of = c.of /\ d.list = c.list /\ d.at = c.at /\ d.st = c.st
            /\ d.op = "poll" /\ d.live => c.live /\ dropped' = dropped
  PROVE  WindowInv'
<1>1. UNCHANGED <<RowsOK>> /\ \A i : (Passed(i)' <=> Passed(i)) /\ (Lives(i)' <=> Lives(i))
  BY DEF RowsOK, Passed, Lives
<1>2. ASSUME NEW d \in calls'
      PROVE  CallOK(d)'
  <2>1. PICK c \in calls : /\ d.op = c.op /\ d.of = c.of /\ d.list = c.list /\ d.at = c.at /\ d.st = c.st
                           /\ d.op = "poll" /\ d.live => c.live /\ dropped' = dropped
    OBVIOUS
  <2>2. CallOK(c)
    BY DEF WindowInv
  <2>3. CASE d.op = "poll" /\ d.live
    BY <1>1, <2>1, <2>2, <2>3 DEF CallOK
  <2>4. CASE ~(d.op = "poll" /\ d.live)
    BY <1>1, <2>1, <2>2, <2>4 DEF CallOK
  <2> QED
    BY <2>3, <2>4
<1> QED
  BY <1>1, <1>2 DEF WindowInv

\* A poll that survives the effect of a new list was alive and saw nothing begin or end.
LEMMA CleanedCalls ==
  ASSUME NEW list, NEW cs, \A c \in cs : CallShape(c), kind = "window", NEW d \in Cleanup(list, cs)
  PROVE  \E c \in cs : /\ d.op = c.op /\ d.of = c.of /\ d.list = c.list /\ d.at = c.at /\ d.st = c.st
                       /\ d.op = "poll" /\ d.live => c.live /\ (Pending(list) <=> Pending(messages))
<1> DEFINE live(c) == c.live /\ c.op # "poll"
           e(c) == [c EXCEPT !.live = live(c)]
<1>1. ASSUME NEW c \in cs
      PROVE  /\ e(c).op = c.op /\ e(c).of = c.of /\ e(c).list = c.list /\ e(c).at = c.at /\ e(c).st = c.st
             /\ e(c).live = live(c)
  <2> HIDE DEF live
  <2> QED
    BY DEF CallShape
<1>2. \/ Cleanup(list, cs) = cs /\ (Pending(list) <=> Pending(messages))
      \/ Cleanup(list, cs) = {e(c) : c \in cs}
  BY DEF Cleanup, Pending
<1> HIDE DEF e
<1>3. ASSUME NEW c \in cs, d = e(c)
      PROVE  /\ d.op = c.op /\ d.of = c.of /\ d.list = c.list /\ d.at = c.at /\ d.st = c.st
             /\ ~(d.op = "poll" /\ d.live)
  BY <1>1, <1>3
<1> QED
  BY <1>2, <1>3

\* A list comes into view; what it drops is dropped as something pending appears.
LEMMA ShowKeeps ==
  ASSUME BusyInv, WindowInv, kind = "window", NEW c \in calls, NEW list \in Seq(Message),
         \A i \in Ids(list) : i < nextId, Show(list, calls \ {c}),
         UNCHANGED <<kind, rows, nextId, session>>,
         dropped' \in SUBSET (1..MaxId), \A i \in dropped' : Passed(i),
         (Pending(list) <=> Pending(messages)) => dropped' = dropped
  PROVE  WindowInv'
<1>1. messages' = list /\ calls' = Cleanup(list, calls \ {c}) /\ \A d \in calls \ {c} : CallShape(d)
  BY DEF Show, BusyInv
<1>2. ASSUME NEW d \in calls'
      PROVE  \E x \in calls :
                /\ d.op = x.op /\ d.of = x.of /\ d.list = x.list /\ d.at = x.at /\ d.st = x.st
                /\ d.op = "poll" /\ d.live => x.live /\ dropped' = dropped
  BY <1>1, CleanedCalls
<1> QED
  BY <1>1, <1>2, RestKeeps

\* A call is over, and the view stays as it is.
LEMMA GoneKeeps ==
  ASSUME BusyInv, WindowInv, kind = "window", calls' \subseteq calls,
         UNCHANGED <<kind, rows, nextId, dropped, session, messages>>
  PROVE  WindowInv'
<1>1. messages' \in Seq(Message) /\ \A i \in Ids(messages') : i < nextId
  BY DEF WindowInv
<1>2. dropped' \in SUBSET (1..MaxId) /\ \A i \in dropped' : Passed(i)
  BY DEF WindowInv
<1>3. \A d \in calls' : \E c \in calls :
         /\ d.op = c.op /\ d.of = c.of /\ d.list = c.list /\ d.at = c.at /\ d.st = c.st
         /\ d.op = "poll" /\ d.live => c.live /\ dropped' = dropped
  OBVIOUS
<1> QED
  BY <1>1, <1>2, <1>3, RestKeeps

LEMMA RepliesKeepWindow ==
  ASSUME BusyInv, WindowInv, kind = "window", NEW c \in calls, Reply(c)
  PROVE  WindowInv'
<1>1. /\ messages \in Seq(Message) /\ \A i \in Ids(messages) : i < nextId
      /\ c.list \in Seq(Message) /\ \A i \in Ids(c.list) : i < nextId
      /\ dropped \in SUBSET (1..MaxId) /\ \A i \in dropped : Passed(i)
  BY DEF WindowInv, CallOK
<1>2. UNCHANGED <<kind, rows, nextId, session>>
  BY DEF Reply, FullReply, PollReply, MoreReply, SendReply, StopReply, RegenerateReply
<1>3. CASE FullReply(c)
  <2>1. Show(c.list, calls \ {c}) /\ dropped' = dropped
    BY <1>3 DEF FullReply
  <2> QED
    BY <1>1, <1>2, <2>1, ShowKeeps
<1>4. CASE PollReply(c)
  <2>1. CASE Show(Merge(messages, c.list), calls \ {c}) /\ dropped' = dropped
    BY <1>1, <1>2, <2>1, MergeIds, ShowKeeps
  <2>2. CASE calls' = calls \ {c} /\ UNCHANGED <<messages, dropped>>
    BY <1>2, <2>2, GoneKeeps
  <2> QED
    BY <1>4, <2>1, <2>2 DEF PollReply
<1>5. CASE MoreReply(c)
  <2>1. CASE Show(Merge(c.list, messages), calls \ {c}) /\ dropped' = dropped
    BY <1>1, <1>2, <2>1, MergeIds, ShowKeeps
  <2>2. CASE calls' = calls \ {c} /\ UNCHANGED <<messages, dropped>>
    BY <1>2, <2>2, GoneKeeps
  <2> QED
    BY <1>5, <2>1, <2>2 DEF MoreReply
<1>6. CASE SendReply(c)
  <2>1. Show(messages \o c.list, calls \ {c}) /\ dropped' = dropped
    BY <1>6 DEF SendReply
  <2> QED
    BY <1>1, <1>2, <2>1, AppendIds, ShowKeeps
<1>7. CASE StopReply(c)
  <2>1. calls' \subseteq calls /\ UNCHANGED <<messages, dropped>>
    BY <1>7 DEF StopReply
  <2> QED
    BY <1>2, <2>1, GoneKeeps
<1>8. CASE RegenerateReply(c)
  <2> DEFINE kept == WithoutLast(c.at)
             list == kept \o c.list
  <2>1. Show(list, calls \ {c}) /\ dropped' = dropped \cup (IF Pending(messages) THEN {} ELSE {c.at})
    BY <1>8 DEF RegenerateReply
  <2>2. c.at \in 1..MaxId /\ Passed(c.at) /\ Pending(c.list)
    BY <1>8 DEF RegenerateReply, WindowInv, CallOK
  <2>3. kept \in Seq(Message) /\ Ids(kept) \subseteq Ids(messages)
    BY <1>1, WithoutIds
  <2> HIDE DEF kept
  <2>4. list \in Seq(Message) /\ Ids(list) \subseteq Ids(kept) \cup Ids(c.list) /\ Pending(list)
    BY <1>1, <2>2, <2>3, AppendIds
  <2> HIDE DEF list
  <2>5. \A i \in Ids(list) : i < nextId
    BY <1>1, <2>3, <2>4
  <2>6. dropped' \in SUBSET (1..MaxId) /\ \A i \in dropped' : Passed(i)
    BY <1>1, <2>1, <2>2
  <2>7. (Pending(list) <=> Pending(messages)) => dropped' = dropped
    BY <2>1, <2>4
  <2> QED
    BY <1>2, <2>1, <2>4, <2>5, <2>6, <2>7, ShowKeeps
<1> QED
  BY <1>3, <1>4, <1>5, <1>6, <1>7, <1>8 DEF Reply

LEMMA SettleKeepsWindow ==
  ASSUME WindowInv, kind = "window", NEW k \in 1..MaxId, Settle(k)
  PROVE  WindowInv'
<1>1. rows[k] # None /\ rows' = [rows EXCEPT ![k].status = "done"]
      /\ UNCHANGED <<kind, nextId, dropped, session, messages, calls>>
  BY DEF Settle
<1>2. RowsOK /\ None \notin Message
  BY ViewAssumption DEF WindowInv
<1> DEFINE m == [rows[k] EXCEPT !.status = "done"]
<1>3. m \in Message /\ m.id = rows[k].id /\ m.of = rows[k].of
  BY <1>1, <1>2 DEF RowsOK, Message
<1>4. rows' = [rows EXCEPT ![k] = m]
  BY <1>1
<1> HIDE DEF m
<1>5. /\ rows' \in [1..MaxId -> Message \cup {None}]
      /\ rows'[k] = m /\ \A j \in 1..MaxId : j # k => rows'[j] = rows[j]
  BY <1>2, <1>3, <1>4 DEF RowsOK
<1>6. \A j \in 1..MaxId : rows[j] # None <=> rows'[j] # None
  BY <1>1, <1>2, <1>3, <1>5
<1>7. RowsOK'
  BY <1>1, <1>2, <1>3, <1>5 DEF RowsOK
<1>8. \A i : (Passed(i)' <=> Passed(i)) /\ (Lives(i)' <=> Lives(i))
  BY <1>6 DEF Passed, Lives
<1>9. \A d \in calls' : CallOK(d)'
  <2> SUFFICES ASSUME NEW d \in calls'
               PROVE  CallOK(d)'
    OBVIOUS
  <2>1. CallOK(d)
    BY <1>1 DEF WindowInv
  <2>2. nextId \in Nat /\ nextId' = nextId /\ nextId <= nextId'
    BY <1>1, <1>2 DEF RowsOK
  <2> QED
    BY <1>1, <1>8, <2>1, <2>2, CallStays
<1> QED
  BY <1>1, <1>7, <1>8, <1>9 DEF WindowInv

LEMMA AsksKeepWindow ==
  ASSUME BusyInv, WindowInv, kind = "window", Poll \/ loadMoreMessages \/ send \/ stop
  PROVE  WindowInv'
<1>1. RowsOK /\ session \in Sessions /\ Len(messages) \in Nat
  BY IdsAreKnown DEF WindowInv, RowsOK
<1>2. <<>> \in Seq(Message) /\ Ids(<<>>) = {}
  BY DEF Ids
<1>3. CASE Poll
  <2> DEFINE list == Listed(session, PollSize, 0)
  <2>1. list \in Seq(Message) /\ \A i \in Ids(list) : Lives(i)
    BY <1>1, ListedIds, ViewAssumption
  <2>2. calls' = calls \cup {Request("poll", session, list)}
        /\ UNCHANGED <<kind, rows, nextId, dropped, session, messages>>
    BY <1>3 DEF Poll
  <2> HIDE DEF list
  <2> QED
    BY <2>1, <2>2, AskKeeps
<1>4. CASE loadMoreMessages
  <2> DEFINE list == Listed(session, PageSize, Len(messages))
  <2>1. list \in Seq(Message) /\ \A i \in Ids(list) : Lives(i)
    BY <1>1, ListedIds, ViewAssumption
  <2>2. calls' = calls \cup {Request("more", session, list)}
        /\ UNCHANGED <<kind, rows, nextId, dropped, session, messages>>
    BY <1>4 DEF loadMoreMessages
  <2> HIDE DEF list
  <2> QED
    BY <2>1, <2>2, AskKeeps
<1>5. CASE send
  <2>1. calls' = calls \cup {Request("send", session, <<>>)}
        /\ UNCHANGED <<kind, rows, nextId, dropped, session, messages>>
    BY <1>5 DEF send
  <2> QED
    BY <1>2, <2>1, AskKeeps
<1>6. CASE stop
  <2>1. calls' = calls \cup {Request("stop", session, <<>>)}
        /\ UNCHANGED <<kind, rows, nextId, dropped, session, messages>>
    BY <1>6 DEF stop
  <2> QED
    BY <1>2, <2>1, AskKeeps
<1> QED
  BY <1>3, <1>4, <1>5, <1>6

LEMMA WindowInit == Init => WindowInv
<1> SUFFICES ASSUME Init, kind = "window" PROVE WindowInv
  BY DEF WindowInv
<1> DEFINE first == CHOOSE s \in Sessions : TRUE
           two(i) == [id |-> i, of |-> first, role |-> IF i = 1 THEN "user" ELSE "assistant",
                      status |-> "done"]
           list == Listed(session, PageSize, 0)
<1>1. first \in Sessions /\ None \notin Message /\ MaxId \in Nat /\ PageSize \in Nat
  BY ViewAssumption
<1>2. /\ session = first /\ nextId = (IF rows[1] = None THEN 1 ELSE 3) /\ dropped = {} /\ messages = <<>>
      /\ calls = {Request("full", session, list)}
      /\ rows \in {[i \in 1..MaxId |-> None], [i \in 1..MaxId |-> IF i > 2 THEN None ELSE two(i)]}
  BY DEF Init
<1> HIDE DEF first
<1>3. \A i \in 1..MaxId : i <= 2 => two(i) \in Message /\ two(i).id = i /\ two(i).of = first
  BY <1>1 DEF Message
<1> HIDE DEF two
<1>4. RowsOK
  <2>1. rows \in [1..MaxId -> Message \cup {None}]
    BY <1>1, <1>2, <1>3
  <2>2. ASSUME NEW j \in 1..MaxId, rows[j] # None
        PROVE  rows[j].id = j /\ rows[j].of = session /\ j < nextId
    <3>1. rows = [i \in 1..MaxId |-> IF i > 2 THEN None ELSE two(i)]
      BY <1>2, <2>2
    <3>2. j <= 2 /\ rows[j] = two(j)
      BY <2>2, <3>1
    <3>3. 1 \in 1..MaxId
      BY <1>1
    <3>4. rows[1] = two(1) /\ two(1) # None
      BY <1>1, <1>3, <3>1, <3>3
    <3> QED
      BY <1>2, <1>3, <3>2, <3>4
  <2> QED
    BY <1>1, <1>2, <2>1, <2>2 DEF RowsOK
<1>5. list \in Seq(Message) /\ \A i \in Ids(list) : Lives(i)
  BY <1>1, <1>4, ListedIds
<1> HIDE DEF list
<1>6. \A i \in Ids(list) : i < nextId
  BY <1>4, <1>5 DEF RowsOK, Lives
<1>7. <<>> \in Seq(Message) /\ Ids(<<>>) = {}
  BY DEF Ids
<1>8. \A c \in calls : CallOK(c)
  BY <1>2, <1>5, <1>6 DEF CallOK, Request
<1> QED
  BY <1>2, <1>4, <1>7, <1>8 DEF WindowInv

LEMMA WindowStep == BusyInv /\ WindowInv /\ [Next]_vars => WindowInv'
<1>0. [Next]_vars => kind' = kind
  <2>1. ASSUME NEW c \in calls, Reply(c) PROVE kind' = kind
    BY <2>1 DEF Reply, FullReply, PollReply, MoreReply, SendReply, StopReply, RegenerateReply
  <2> QED
    BY <2>1 DEF Next, vars, SwitchSession, Poll, loadMoreMessages, send, stop, regenerate, Serve,
                Settle, Fails
<1> SUFFICES ASSUME BusyInv, WindowInv, [Next]_vars, kind = "window"
             PROVE  WindowInv'
  BY <1>0 DEF WindowInv
<1>1. ASSUME NEW s, SwitchSession(s) PROVE WindowInv'
  BY <1>1 DEF SwitchSession
<1>2. ASSUME NEW c \in calls, Fails(c) PROVE WindowInv'
  <2>1. calls' \subseteq calls /\ UNCHANGED <<kind, rows, nextId, dropped, session, messages>>
    BY <1>2 DEF Fails
  <2> QED
    BY <2>1, GoneKeeps
<1>3. CASE UNCHANGED vars
  BY <1>3, GoneKeeps DEF vars
<1> QED
  BY <1>1, <1>2, <1>3, AsksKeepWindow, RegenerateKeeps, ServeKeepsWindow, RepliesKeepWindow,
     SettleKeepsWindow DEF Next

\* In the XP window a poll never brings an answer back that a regeneration took out of a view
\* with nothing pending, however many polls are under way, older pages, sends and stops come
\* in between, and whichever of them is answered first (tick and regenerate of
\* WinXpChatWindow).
THEOREM NoPollBringsBack == Spec => DroppedStaysDropped
<1>1. ASSUME WindowInv, kind = "window", NEW c \in calls, PollReply(c), NEW i \in dropped,
             rows[i] = None, i \in Ids(messages')
      PROVE  i \in Ids(messages)
  <2>1. CallOK(c) /\ messages \in Seq(Message) /\ c.op = "poll" /\ c.list \in Seq(Message)
    BY <1>1 DEF WindowInv, PollReply, CallOK
  <2>2. CASE messages' = messages
    BY <1>1, <2>2 DEF Ids
  <2>3. CASE c.live /\ messages' = Merge(messages, c.list)
    <3>1. Ids(messages') \subseteq Ids(messages) \cup Ids(c.list)
      BY <2>1, <2>3, MergeIds
    <3>2. i \in Ids(c.list) => Lives(i)
      BY <2>1, <2>3 DEF CallOK
    <3> QED
      BY <1>1, <3>1, <3>2 DEF Lives
  <2> QED
    BY <1>1, <2>2, <2>3 DEF PollReply, Show
<1>2. WindowInv => [(kind = "window" /\ \E c \in calls : PollReply(c))
                    => \A i \in dropped : rows[i] = None /\ i \in Ids(messages') => i \in Ids(messages)]_vars
  BY <1>1
<1>3. Spec => [](BusyInv /\ WindowInv)
  BY BusyInit, BusyStep, WindowInit, WindowStep, PTL DEF Spec
<1> QED
  BY <1>2, <1>3, PTL DEF DroppedStaysDropped
=============================================================================
