---------------------------- MODULE WebShellProofs ----------------------------
(***************************************************************************)
(* Theorems about WebShell, for any sessions, any lists the server starts  *)
(* with and any number of requests in flight.                              *)
(***************************************************************************)
EXTENDS WebShell, FilterLemmas

\* The fields of a request.
IsCall(c) ==
    c = [op |-> c.op, n |-> c.n, pc |-> c.pc, arg |-> c.arg, page |-> c.page, seen |-> c.seen,
         list |-> c.list, flag |-> c.flag, at |-> c.at, st |-> c.st]

\* A request in flight: its rows are sessions the server has given an id, the chat it
\* opens is a session, and it failed only if a failure was counted.
CallOK(c, ids, n) ==
    /\ IsCall(c)
    /\ c.op \in Ops /\ c.arg \in Sessions \cup {None} /\ c.page \in Pages
    /\ c.seen \in Seq(Row) /\ Ids(c.seen) \subseteq ids
    /\ c.list \in Seq(Row) /\ Ids(c.list) \subseteq ids
    /\ c.st \in {"sent", "ok", "denied", "failed"}
    /\ c.st = "failed" => n > 0
    /\ c.st = "ok" /\ c.pc \in {"create", "messages"} => c.arg \in Sessions
    /\ c.pc \in {"create", "messages"} => c.op \in {"boot", "newChat"}

CallsOK == \A c \in calls : CallOK(c, born, fails)

\* The parts of the state that no request holds.
FrameOK ==
    /\ cookie \in BOOLEAN /\ configured \in BOOLEAN
    /\ sessions \in Seq(Row) /\ Ids(sessions) \subseteq born
    /\ used \subseteq Sessions /\ born \subseteq Sessions
    /\ user \in {None, "user"} /\ authChecked \in BOOLEAN /\ winXp \in BOOLEAN
    /\ needsSetup \in {"unknown", "yes", "no"}
    /\ activeSessionId \in Sessions \cup {None}
    /\ route \in Route /\ past \subseteq Route
    /\ shown \in Seq(Row) /\ Ids(shown) \subseteq born
    /\ deleteTarget \in Sessions \cup {None} /\ editingId \in Sessions \cup {None}
    /\ acts \in 0..MaxActs /\ fails \in 0..acts

\* Nobody is known yet only while "me" is asked; somebody of unknown setup is signed in only
\* while the configuration is asked for.
Asked ==
    /\ ~authChecked => InFlight("me") # {}
    /\ user # None /\ needsSetup = "unknown" => InFlight("config") # {}

ShellInv == FrameOK /\ CallsOK /\ Asked /\ NoChatMeansOpening

-----------------------------------------------------------------------------
(* Lists of rows. *)

\* A filtered list of rows is a list of rows, of ids it had.
LEMMA KeptRows ==
  ASSUME NEW list \in Seq(Row), NEW set \in SUBSET (DOMAIN list)
  PROVE  Kept(list, set) \in Seq(Row) /\ Ids(Kept(list, set)) \subseteq Ids(list)
<1>1. Kept(list, set) \in Seq(Row)
  BY KeptIsList
<1>2. {Kept(list, set)[k] : k \in DOMAIN Kept(list, set)} = {list[i] : i \in set}
  BY KeptRange
<1>3. \A k \in DOMAIN Kept(list, set) : \E i \in DOMAIN list : Kept(list, set)[k] = list[i]
  BY <1>2
<1>4. \A k \in DOMAIN Kept(list, set) : Kept(list, set)[k].id \in {list[i].id : i \in DOMAIN list}
  BY <1>3
<1> QED
  BY <1>1, <1>4 DEF Ids

LEMMA WithoutRows ==
  ASSUME NEW list \in Seq(Row), NEW id
  PROVE  Without(list, id) \in Seq(Row) /\ Ids(Without(list, id)) \subseteq Ids(list)
BY KeptRows DEF Without

\* The chats that are not of plan runs; the first of them is a session.
LEMMA RegularRows ==
  ASSUME NEW list \in Seq(Row)
  PROVE  /\ Regular(list) \in Seq(Row)
         /\ Regular(list) # <<>> => Head(Regular(list)).id \in Sessions
<1>1. Regular(list) \in Seq(Row)
  BY KeptRows DEF Regular
<1>2. Regular(list) # <<>> => Head(Regular(list)) \in Row
  BY <1>1
<1> QED
  BY <1>1, <1>2 DEF Row

LEMMA RenamedRows ==
  ASSUME NEW list \in Seq(Row), NEW id
  PROVE  Renamed(list, id) \in Seq(Row) /\ Ids(Renamed(list, id)) = Ids(list)
<1>1. DOMAIN list = 1..Len(list) /\ Len(list) \in Nat /\ \A i \in DOMAIN list : list[i] \in Row
  OBVIOUS
<1>2. \A i \in DOMAIN list : [list[i] EXCEPT !.title = 1] \in Row /\ [list[i] EXCEPT !.title = 1].id = list[i].id
  BY <1>1 DEF Row
<1>3. /\ DOMAIN Renamed(list, id) = DOMAIN list
      /\ \A i \in DOMAIN list : Renamed(list, id)[i] \in Row /\ Renamed(list, id)[i].id = list[i].id
  BY <1>1, <1>2 DEF Renamed
<1>4. Renamed(list, id) \in Seq(Row)
  BY <1>1, <1>2 DEF Renamed
<1> QED
  BY <1>3, <1>4 DEF Ids

LEMMA AddedRow ==
  ASSUME NEW list \in Seq(Row), NEW s \in Sessions
  PROVE  /\ <<[id |-> s, title |-> 0]>> \o list \in Seq(Row)
         /\ Ids(<<[id |-> s, title |-> 0]>> \o list) \subseteq Ids(list) \cup {s}
<1> DEFINE row == [id |-> s, title |-> 0]
           more == <<row>> \o list
<1>1. row \in Row /\ row.id = s
  BY DEF Row
<1> HIDE DEF row
<1>2. more \in Seq(Row) /\ Len(more) = Len(list) + 1 /\ Len(list) \in Nat
  BY <1>1
<1>3. \A i \in 1..Len(more) : more[i] = IF i = 1 THEN row ELSE list[i - 1]
  BY <1>1, <1>2
<1>4. \A i \in DOMAIN more : i # 1 => i - 1 \in DOMAIN list /\ more[i] = list[i - 1]
  BY <1>2, <1>3
<1>5. 1 \in DOMAIN more => more[1] = row
  BY <1>3
<1> HIDE DEF more
<1>6. \A i \in DOMAIN more : more[i].id \in {list[j].id : j \in DOMAIN list} \cup {s}
  BY <1>1, <1>4, <1>5
<1> QED
  BY <1>2, <1>6 DEF Ids, row, more

-----------------------------------------------------------------------------
(* Requests. *)

\* A request stays what it is when ids are given and failures counted.
LEMMA CallStays ==
  ASSUME NEW c, NEW ids, NEW more, NEW n \in Nat, NEW m \in Nat,
         CallOK(c, ids, n), ids \subseteq more, n <= m
  PROVE  CallOK(c, more, m)
BY DEF CallOK

LEMMA EmptyRows == <<>> \in Seq(Row) /\ Ids(<<>>) = {}
BY DEF Ids

\* What is sent.
LEMMA NewCallOK ==
  ASSUME NEW op \in Ops, NEW pc, NEW arg \in Sessions \cup {None}, NEW ids, NEW n,
         pc \in {"create", "messages"} => op \in {"boot", "newChat"}
  PROVE  /\ CallOK(NewCall(op, pc, arg), ids, n) /\ NewCall(op, pc, arg).op = op
         /\ NewCall(op, pc, arg).st = "sent"
<1>1. "chat" \in Pages
  BY DEF Pages
<1> QED
  BY <1>1, EmptyRows DEF NewCall, CallOK, IsCall

LEMMA ReadOK ==
  ASSUME ShellInv, NEW op \in Ops, NEW pc, NEW arg \in Sessions \cup {None},
         pc \in {"create", "messages"} => arg \in Sessions,
         pc \in {"create", "messages"} => op \in {"boot", "newChat"}
  PROVE  CallOK(Read(op, pc, arg), born, fails) /\ Read(op, pc, arg).op = op
<1> DEFINE c == NewCall(op, pc, arg)
           st == IF cookie THEN "ok" ELSE "denied"
           flag == cookie /\ ((op = "config" /\ configured) \/ (pc = "messages" /\ arg \in used))
           list == IF cookie /\ (op = "load" \/ pc = "list") THEN sessions ELSE <<>>
           r == [c EXCEPT !.st = st, !.flag = flag, !.list = list]
<1>1. CallOK(c, born, fails) /\ c.op = op /\ c.arg = arg /\ c.pc = pc
  BY NewCallOK DEF NewCall
<1>2. Read(op, pc, arg) = r
  BY DEF Read
<1>3. st \in {"ok", "denied"} /\ list \in Seq(Row) /\ Ids(list) \subseteq born
  BY EmptyRows DEF ShellInv, FrameOK
<1> HIDE DEF st, flag, list, c
<1>4. /\ IsCall(r) /\ r.op = c.op /\ r.arg = c.arg /\ r.pc = c.pc /\ r.page = c.page
      /\ r.seen = c.seen /\ r.list = list /\ r.st = st
  <2> DEFINE r1 == [c EXCEPT !.st = st]
             r2 == [r1 EXCEPT !.flag = flag]
             r3 == [r2 EXCEPT !.list = list]
  <2>1. /\ IsCall(r1) /\ r1.op = c.op /\ r1.pc = c.pc /\ r1.arg = c.arg /\ r1.page = c.page
        /\ r1.seen = c.seen /\ r1.st = st
    BY <1>1 DEF CallOK, IsCall
  <2>2. r = r3
    OBVIOUS
  <2> HIDE DEF r1
  <2>3. /\ IsCall(r2) /\ r2.op = r1.op /\ r2.pc = r1.pc /\ r2.arg = r1.arg /\ r2.page = r1.page
        /\ r2.seen = r1.seen /\ r2.st = r1.st
    BY <2>1 DEF IsCall
  <2> HIDE DEF r2
  <2>4. /\ IsCall(r3) /\ r3.op = r2.op /\ r3.pc = r2.pc /\ r3.arg = r2.arg /\ r3.page = r2.page
        /\ r3.seen = r2.seen /\ r3.st = r2.st /\ r3.list = list
    BY <2>3 DEF IsCall
  <2> HIDE DEF r3, r
  <2> QED
    BY <2>1, <2>2, <2>3, <2>4
<1> HIDE DEF r
<1> QED
  BY <1>1, <1>2, <1>3, <1>4 DEF CallOK

\* The page a closure remembers.
LEMMA PageOK ==
  ASSUME NEW c, NEW ids, NEW n, CallOK(c, ids, n), NEW page \in Pages
  PROVE  CallOK([c EXCEPT !.page = page], ids, n) /\ [c EXCEPT !.page = page].op = c.op
<1> DEFINE r == [c EXCEPT !.page = page]
<1>1. /\ IsCall(r) /\ r.op = c.op /\ r.pc = c.pc /\ r.arg = c.arg /\ r.page = page
      /\ r.seen = c.seen /\ r.st = c.st /\ r.list = c.list
  BY DEF CallOK, IsCall
<1> HIDE DEF r
<1>2. CallOK(r, ids, n) /\ r.op = c.op
  BY <1>1 DEF CallOK
<1> QED
  BY <1>2 DEF r

\* A sidebar that is unmounted drops lists it asked for and no other request.
LEMMA DetachKeeps ==
  ASSUME ShellInv, NEW cs \in SUBSET calls
  PROVE  /\ \A c \in Detach(cs) : CallOK(c, born, fails)
         /\ \A c \in cs : c.op # "load" => \E d \in Detach(cs) : d.op = c.op
<1> DEFINE no == FALSE
           Off(c) == IF c.op \in {"load", "delete", "rename"} THEN [c EXCEPT !.at = no] ELSE c
           ds == {d \in cs : d.op # "load" \/ d.st = "denied"}
<1>1. Detach(cs) = IF Screen' = "main" THEN cs ELSE {Off(c) : c \in ds}
  BY DEF Detach
<1> HIDE DEF no
<1>2. ASSUME NEW c \in cs
      PROVE  CallOK(Off(c), born, fails) /\ Off(c).op = c.op
  <2> DEFINE r == [c EXCEPT !.at = no]
  <2>1. CallOK(c, born, fails)
    BY DEF ShellInv, CallsOK
  <2>2. /\ IsCall(r) /\ r.op = c.op /\ r.pc = c.pc /\ r.arg = c.arg /\ r.page = c.page
        /\ r.seen = c.seen /\ r.st = c.st /\ r.list = c.list
    BY <2>1 DEF CallOK, IsCall
  <2> HIDE DEF r
  <2>3. CallOK(r, born, fails)
    BY <2>1, <2>2 DEF CallOK
  <2>4. Off(c) = r \/ Off(c) = c
    BY DEF r
  <2> QED
    BY <2>1, <2>2, <2>3, <2>4
<1> HIDE DEF Off
<1>3. \A c \in cs : CallOK(c, born, fails)
  BY DEF ShellInv, CallsOK
<1>4. CASE Screen' = "main"
  BY <1>1, <1>3, <1>4
<1>5. CASE Screen' # "main"
  BY <1>1, <1>2, <1>5
<1> QED
  BY <1>4, <1>5

\* What the effects send after a render.
LEMMA EffectsOK ==
  ASSUME ShellInv, route' \in Route
  PROVE  /\ \A c \in ConfigEffect \cup BootEffect \cup MountEffect : CallOK(c, born, fails)
         /\ user' # None /\ user' # user => \E c \in ConfigEffect : c.op = "config"
         /\ /\ needsSetup' = "no" /\ activeSessionId' = None
            /\ <<needsSetup', activeSessionId', route'.page>> # <<needsSetup, activeSessionId, route.page>>
            => \E c \in BootEffect : c.op = "boot"
<1>1. {"config", "boot", "load"} \subseteq Ops /\ route'.page \in Pages
  BY DEF Ops, Route
<1>2. /\ CallOK(Read("config", "", None), born, fails) /\ Read("config", "", None).op = "config"
      /\ CallOK(Read("load", "", None), born, fails)
      /\ CallOK(Read("boot", "list", None), born, fails) /\ Read("boot", "list", None).op = "boot"
  BY <1>1, ReadOK
<1> DEFINE boot == [Read("boot", "list", None) EXCEPT !.page = route'.page]
<1>3. CallOK(boot, born, fails) /\ boot.op = "boot"
  BY <1>1, <1>2, PageOK
<1> HIDE DEF boot
<1>4. ConfigEffect = {} \/ ConfigEffect = {Read("config", "", None)}
  BY DEF ConfigEffect
<1>5. BootEffect = {} \/ BootEffect = {boot}
  BY DEF BootEffect, boot
<1>6. MountEffect = {} \/ MountEffect = {Read("load", "", None)}
  BY DEF MountEffect
<1>7. user' # None /\ user' # user => ConfigEffect = {Read("config", "", None)}
  BY DEF ConfigEffect
<1>8. /\ needsSetup' = "no" /\ activeSessionId' = None
      /\ <<needsSetup', activeSessionId', route'.page>> # <<needsSetup, activeSessionId, route.page>>
      => BootEffect = {boot}
  BY DEF BootEffect, boot
<1> QED
  BY <1>2, <1>3, <1>4, <1>5, <1>6, <1>7, <1>8

\* A step that renders: what was in flight stays, but for the answer that is delivered, and the
\* effects ask for what is not known.
LEMMA RenderStep ==
  ASSUME ShellInv, NEW cs \in SUBSET calls, FrameOK', born' = born, fails' = fails,
         calls' = Detach(cs) \cup ConfigEffect \cup BootEffect \cup MountEffect,
         ~authChecked' => \E c \in cs : c.op = "me",
         user' # None /\ needsSetup' = "unknown" => user' # user \/ \E c \in cs : c.op = "config",
         needsSetup' = "no" /\ activeSessionId' = None =>
           \/ needsSetup' # needsSetup \/ activeSessionId' # activeSessionId
           \/ (\E c \in cs : c.op = "boot") \/ fails > 0
  PROVE  ShellInv'
<1>1. /\ \A c \in Detach(cs) : CallOK(c, born, fails)
      /\ \A c \in cs : c.op # "load" => \E d \in Detach(cs) : d.op = c.op
  BY DetachKeeps
<1>2. route' \in Route
  BY DEF FrameOK
<1>3. /\ \A c \in ConfigEffect \cup BootEffect \cup MountEffect : CallOK(c, born, fails)
      /\ user' # None /\ user' # user => \E c \in ConfigEffect : c.op = "config"
      /\ /\ needsSetup' = "no" /\ activeSessionId' = None
         /\ <<needsSetup', activeSessionId', route'.page>> # <<needsSetup, activeSessionId, route.page>>
         => \E c \in BootEffect : c.op = "boot"
  BY <1>2, EffectsOK
<1>4. CallsOK'
  BY <1>1, <1>3 DEF CallsOK
<1>5. Asked'
  BY <1>1, <1>3 DEF Asked, InFlight
<1>6. NoChatMeansOpening'
  BY <1>1, <1>3 DEF NoChatMeansOpening, InFlight
<1> QED
  BY <1>4, <1>5, <1>6 DEF ShellInv

\* Delivering an answer leaves the requests of the other operations in flight.
LEMMA OthersStay ==
  ASSUME ShellInv, NEW c, NEW cs, cs = calls \ {c} \/ cs = calls
  PROVE  /\ ~authChecked => (\E d \in cs : d.op = "me") \/ c.op = "me"
         /\ user # None /\ needsSetup = "unknown" => (\E d \in cs : d.op = "config") \/ c.op = "config"
         /\ needsSetup = "no" /\ activeSessionId = None =>
              (\E d \in cs : d.op = "boot") \/ c.op = "boot" \/ fails > 0
BY DEF ShellInv, Asked, NoChatMeansOpening, InFlight

\* What the user does is counted.
LEMMA ActCounts ==
  ASSUME ShellInv, Act
  PROVE  acts' \in 0..MaxActs /\ fails' = fails /\ fails \in 0..acts'
BY ShellAssumption DEF ShellInv, FrameOK, Act

\* Each action that renders.
LEMMA MeKeeps ==
  ASSUME ShellInv, NEW c \in calls, MeReply(c)
  PROVE  ShellInv'
<1>1. /\ c.op = "me" /\ user' \in {None, "user"} /\ authChecked' = TRUE
      /\ needsSetup' \in {needsSetup, "unknown"} /\ (needsSetup' # needsSetup => user' = None)
      /\ UNCHANGED <<location, acts, fails, server, winXp>>
      /\ calls' = Detach(calls \ {c}) \cup ConfigEffect \cup BootEffect \cup MountEffect
      /\ \/ UNCHANGED sidebar
         \/ shown' = <<>> /\ deleteTarget' = None /\ editingId' = None
  BY DEF MeReply, Render, Stay, Quiet, Act, SignOut
<1>2. FrameOK'
  BY <1>1, EmptyRows DEF ShellInv, FrameOK, location, server, sidebar, Account
<1>3. /\ ~authChecked => (\E d \in calls \ {c} : d.op = "me") \/ c.op = "me"
      /\ user # None /\ needsSetup = "unknown" => (\E d \in calls \ {c} : d.op = "config") \/ c.op = "config"
      /\ needsSetup = "no" /\ activeSessionId = None => (\E d \in calls \ {c} : d.op = "boot") \/ c.op = "boot" \/ fails > 0
  BY OthersStay
<1>4. calls \ {c} \in SUBSET calls /\ born' = born /\ fails' = fails
  BY <1>1 DEF server
<1> QED
  BY <1>1, <1>2, <1>3, <1>4, RenderStep DEF location, Account

LEMMA LoginKeeps ==
  ASSUME ShellInv, NEW c \in calls, LoginReply(c)
  PROVE  ShellInv'
<1>0. c.st \in {"sent", "ok", "denied", "failed"}
  BY DEF ShellInv, CallsOK, CallOK
<1>1. /\ c.op = "login" /\ user' \in {None, "user", user} /\ authChecked' = authChecked
      /\ needsSetup' \in {needsSetup, "unknown"} /\ (needsSetup' # needsSetup => user' = None)
      /\ UNCHANGED <<location, acts, fails, server, winXp>>
      /\ calls' = Detach(calls \ {c}) \cup ConfigEffect \cup BootEffect \cup MountEffect
      /\ \/ UNCHANGED sidebar
         \/ shown' = <<>> /\ deleteTarget' = None /\ editingId' = None
  BY <1>0 DEF LoginReply, Render, Stay, Quiet, Act, SignOut
<1>2. FrameOK'
  BY <1>1, EmptyRows DEF ShellInv, FrameOK, location, server, sidebar, Account
<1>3. /\ ~authChecked => (\E d \in calls \ {c} : d.op = "me") \/ c.op = "me"
      /\ user # None /\ needsSetup = "unknown" => (\E d \in calls \ {c} : d.op = "config") \/ c.op = "config"
      /\ needsSetup = "no" /\ activeSessionId = None => (\E d \in calls \ {c} : d.op = "boot") \/ c.op = "boot" \/ fails > 0
  BY OthersStay
<1>4. calls \ {c} \in SUBSET calls /\ born' = born /\ fails' = fails
  BY <1>1 DEF server
<1> QED
  BY <1>1, <1>2, <1>3, <1>4, RenderStep DEF location, Account

LEMMA LogoutKeeps ==
  ASSUME ShellInv, NEW c \in calls, LogoutReply(c)
  PROVE  ShellInv'
<1>1. /\ c.op = "logout" /\ user' = None /\ needsSetup' = "unknown" /\ authChecked' = authChecked
      /\ UNCHANGED <<location, acts, fails, server, winXp>>
      /\ calls' = Detach(calls \ {c}) \cup ConfigEffect \cup BootEffect \cup MountEffect
      /\ \/ UNCHANGED sidebar
         \/ shown' = <<>> /\ deleteTarget' = None /\ editingId' = None
  BY DEF LogoutReply, Render, Stay, Quiet, Act, SignOut
<1>2. FrameOK'
  BY <1>1, EmptyRows DEF ShellInv, FrameOK, location, server, sidebar, Account
<1>3. /\ ~authChecked => (\E d \in calls \ {c} : d.op = "me") \/ c.op = "me"
      /\ user # None /\ needsSetup = "unknown" => (\E d \in calls \ {c} : d.op = "config") \/ c.op = "config"
      /\ needsSetup = "no" /\ activeSessionId = None => (\E d \in calls \ {c} : d.op = "boot") \/ c.op = "boot" \/ fails > 0
  BY OthersStay
<1>4. calls \ {c} \in SUBSET calls /\ born' = born /\ fails' = fails
  BY <1>1 DEF server
<1> QED
  BY <1>1, <1>2, <1>3, <1>4, RenderStep DEF location, Account

LEMMA ConfigKeeps ==
  ASSUME ShellInv, NEW c \in calls, ConfigReply(c)
  PROVE  ShellInv'
<1>1. /\ c.op = "config" /\ user' \in {None, user} /\ needsSetup' \in {"yes", "no"}
      /\ authChecked' = authChecked
      /\ UNCHANGED <<location, acts, fails, server, winXp>>
      /\ calls' = Detach(calls \ {c}) \cup ConfigEffect \cup BootEffect \cup MountEffect
      /\ \/ UNCHANGED sidebar
         \/ shown' = <<>> /\ deleteTarget' = None /\ editingId' = None
  BY DEF ConfigReply, Render, Stay, Quiet, Act, SignOut
<1>2. FrameOK'
  BY <1>1, EmptyRows DEF ShellInv, FrameOK, location, server, sidebar, Account
<1>3. /\ ~authChecked => (\E d \in calls \ {c} : d.op = "me") \/ c.op = "me"
      /\ user # None /\ needsSetup = "unknown" => (\E d \in calls \ {c} : d.op = "config") \/ c.op = "config"
      /\ needsSetup = "no" /\ activeSessionId = None => (\E d \in calls \ {c} : d.op = "boot") \/ c.op = "boot" \/ fails > 0
  BY OthersStay
<1>4. calls \ {c} \in SUBSET calls /\ born' = born /\ fails' = fails
  BY <1>1 DEF server
<1> QED
  BY <1>1, <1>2, <1>3, <1>4, RenderStep DEF location, Account

LEMMA SwallowedKeeps ==
  ASSUME ShellInv, NEW c \in calls, Swallowed(c)
  PROVE  ShellInv'
<1>1. /\ c.op \in {"boot", "newChat", "load", "delete"} /\ authChecked' = authChecked
      /\ \/ c.st = "denied" /\ user' = None /\ needsSetup' = "unknown"
         \/ c.st = "failed" /\ UNCHANGED <<user, needsSetup>>
      /\ UNCHANGED <<location, acts, fails, server, winXp>>
      /\ calls' = Detach(calls \ {c}) \cup ConfigEffect \cup BootEffect \cup MountEffect
      /\ \/ UNCHANGED sidebar
         \/ shown' = <<>> /\ deleteTarget' = None /\ editingId' = None
  BY DEF Swallowed, Render, Stay, Quiet, Act, SignOut
<1>2. FrameOK'
  BY <1>1, EmptyRows DEF ShellInv, FrameOK, location, server, sidebar, Account
<1>3. /\ ~authChecked => (\E d \in calls \ {c} : d.op = "me") \/ c.op = "me"
      /\ user # None /\ needsSetup = "unknown" => (\E d \in calls \ {c} : d.op = "config") \/ c.op = "config"
      /\ needsSetup = "no" /\ activeSessionId = None => (\E d \in calls \ {c} : d.op = "boot") \/ c.op = "boot" \/ fails > 0
  BY OthersStay
<1>4. calls \ {c} \in SUBSET calls /\ born' = born /\ fails' = fails
  BY <1>1 DEF server
<1>5. c.st = "failed" => fails > 0
  BY DEF ShellInv, CallsOK, CallOK
<1> QED
  BY <1>1, <1>5, <1>2, <1>3, <1>4, RenderStep DEF location, Account

LEMMA RenameKeeps ==
  ASSUME ShellInv, NEW c \in calls, RenameReply(c)
  PROVE  ShellInv'
<1>1. /\ c.op = "rename" /\ authChecked' = authChecked
      /\ \/ user' = None /\ needsSetup' = "unknown"
         \/ UNCHANGED <<user, needsSetup>>
      /\ UNCHANGED <<location, acts, fails, server, winXp>>
      /\ calls' = Detach(calls \ {c}) \cup ConfigEffect \cup BootEffect \cup MountEffect
      /\ shown' \in {shown, Renamed(shown, c.arg), <<>>}
      /\ editingId' \in {editingId, None} /\ deleteTarget' \in {deleteTarget, None}
  BY DEF RenameReply, Render, Stay, Quiet, Act, SignOut
<1>5. shown' \in Seq(Row) /\ Ids(shown') \subseteq born
  BY <1>1, EmptyRows, RenamedRows DEF ShellInv, FrameOK
<1>2. FrameOK'
  BY <1>1, <1>5 DEF ShellInv, FrameOK, location, server, sidebar, Account
<1>3. /\ ~authChecked => (\E d \in calls \ {c} : d.op = "me") \/ c.op = "me"
      /\ user # None /\ needsSetup = "unknown" => (\E d \in calls \ {c} : d.op = "config") \/ c.op = "config"
      /\ needsSetup = "no" /\ activeSessionId = None => (\E d \in calls \ {c} : d.op = "boot") \/ c.op = "boot" \/ fails > 0
  BY OthersStay
<1>4. calls \ {c} \in SUBSET calls /\ born' = born /\ fails' = fails
  BY <1>1 DEF server
<1> QED
  BY <1>1, <1>2, <1>3, <1>4, RenderStep DEF location, Account

LEMMA WizardKeeps ==
  ASSUME ShellInv, WizardDone
  PROVE  ShellInv'
<1>1. /\ configured' = TRUE /\ needsSetup' = "no" /\ Act
      /\ UNCHANGED <<location, cookie, sessions, used, born, user, authChecked, winXp>>
      /\ calls' = Detach(calls) \cup ConfigEffect \cup BootEffect \cup MountEffect
      /\ \/ UNCHANGED sidebar
         \/ shown' = <<>> /\ deleteTarget' = None /\ editingId' = None
  BY DEF WizardDone, Render, Stay
<1>5. acts' \in 0..MaxActs /\ fails' = fails /\ fails \in 0..acts'
  BY <1>1, ActCounts
<1>2. FrameOK'
  BY <1>1, <1>5, EmptyRows DEF ShellInv, FrameOK, location, server, sidebar, Account
<1>3. /\ ~authChecked => (\E d \in calls : d.op = "me")
      /\ user # None /\ needsSetup = "unknown" => (\E d \in calls : d.op = "config")
      /\ needsSetup = "no" /\ activeSessionId = None => (\E d \in calls : d.op = "boot") \/ fails > 0
  BY DEF ShellInv, Asked, NoChatMeansOpening, InFlight
<1>4. calls \in SUBSET calls /\ born' = born /\ fails' = fails
  BY <1>1, <1>5 DEF server
<1> QED
  BY <1>1, <1>2, <1>3, <1>4, RenderStep DEF location, Account

LEMMA ToggleKeeps ==
  ASSUME ShellInv, ToggleXp
  PROVE  ShellInv'
<1>1. /\ winXp' = ~winXp /\ Act
      /\ UNCHANGED <<location, server, Account>>
      /\ calls' = Detach(calls) \cup ConfigEffect \cup BootEffect \cup MountEffect
      /\ \/ UNCHANGED sidebar
         \/ shown' = <<>> /\ deleteTarget' = None /\ editingId' = None
  BY DEF ToggleXp, Render, Stay
<1>5. acts' \in 0..MaxActs /\ fails' = fails /\ fails \in 0..acts'
  BY <1>1, ActCounts
<1>2. FrameOK'
  BY <1>1, <1>5, EmptyRows DEF ShellInv, FrameOK, location, server, sidebar, Account
<1>3. /\ ~authChecked => (\E d \in calls : d.op = "me")
      /\ user # None /\ needsSetup = "unknown" => (\E d \in calls : d.op = "config")
      /\ needsSetup = "no" /\ activeSessionId = None => (\E d \in calls : d.op = "boot") \/ fails > 0
  BY DEF ShellInv, Asked, NoChatMeansOpening, InFlight
<1>4. calls \in SUBSET calls /\ born' = born /\ fails' = fails
  BY <1>1, <1>5 DEF server
<1> QED
  BY <1>1, <1>2, <1>3, <1>4, RenderStep DEF location, Account

LEMMA GoToKeeps ==
  ASSUME ShellInv, NEW r \in past \cup {[page |-> "plans", sessionId |-> None]}, GoTo(r)
  PROVE  ShellInv'
<1>1. /\ route' = r /\ past' = past \cup {r} /\ Act
      /\ activeSessionId' = IF r.page = "chat" /\ r.sessionId # None THEN r.sessionId ELSE activeSessionId
      /\ UNCHANGED <<server, winXp, Account>>
      /\ calls' = Detach(calls) \cup ConfigEffect \cup BootEffect \cup MountEffect
      /\ \/ UNCHANGED sidebar
         \/ shown' = <<>> /\ deleteTarget' = None /\ editingId' = None
  BY DEF GoTo, Navigate, Render, Stay
<1>5. acts' \in 0..MaxActs /\ fails' = fails /\ fails \in 0..acts'
  BY <1>1, ActCounts
<1>6. r \in Route
  BY DEF ShellInv, FrameOK, Route, Pages
<1>7. activeSessionId' \in Sessions \cup {None} /\ past' \subseteq Route
  BY <1>1, <1>6 DEF ShellInv, FrameOK, Route
<1>2. FrameOK'
  BY <1>1, <1>5, <1>6, <1>7, EmptyRows DEF ShellInv, FrameOK, location, server, sidebar, Account
<1>3. /\ ~authChecked => (\E d \in calls : d.op = "me")
      /\ user # None /\ needsSetup = "unknown" => (\E d \in calls : d.op = "config")
      /\ needsSetup = "no" /\ activeSessionId = None => (\E d \in calls : d.op = "boot") \/ fails > 0
  BY DEF ShellInv, Asked, NoChatMeansOpening, InFlight
<1>4. calls \in SUBSET calls /\ born' = born /\ fails' = fails
  BY <1>1, <1>5 DEF server
<1> QED
  BY <1>1, <1>2, <1>3, <1>4, RenderStep DEF location, Account

-----------------------------------------------------------------------------
(* Steps that do not render App anew. *)

\* A step that keeps the requests in flight, or puts one of the same operation in the place of one.
LEMMA QuietStep ==
  ASSUME ShellInv, FrameOK', \A c \in calls' : CallOK(c, born', fails'),
         UNCHANGED Account, fails' \in Nat, fails <= fails',
         activeSessionId' \in {activeSessionId} \cup Sessions,
         \A c \in calls : c.op \in {"me", "config"} => \E d \in calls' : d.op = c.op,
         \/ activeSessionId' \in Sessions \/ fails' > 0
         \/ \A c \in calls : c.op = "boot" => \E d \in calls' : d.op = "boot"
  PROVE  ShellInv'
<1>1. fails \in Nat
  BY ShellAssumption DEF ShellInv, FrameOK
<1>2. CallsOK'
  BY DEF CallsOK
<1>3. UNCHANGED <<user, authChecked, needsSetup>>
  BY DEF Account
<1>4. Asked'
  BY <1>3 DEF ShellInv, Asked, InFlight
<1>5. NoChatMeansOpening'
  BY <1>1, <1>3, ShellAssumption DEF ShellInv, NoChatMeansOpening, InFlight
<1> QED
  BY <1>2, <1>4, <1>5 DEF ShellInv

\* The requests in flight stay good when ids are given and failures counted.
LEMMA CallsStay ==
  ASSUME ShellInv, FrameOK', born \subseteq born', fails <= fails'
  PROVE  \A c \in calls : CallOK(c, born', fails')
<1>1. fails \in Nat /\ fails' \in Nat
  BY ShellAssumption DEF ShellInv, FrameOK
<1> QED
  BY <1>1, CallStays DEF ShellInv, CallsOK

\* The server's answer changes the state of a request and, if it created a chat, its id.
LEMMA AnswerOK ==
  ASSUME NEW c, NEW ids, NEW n, CallOK(c, ids, n), NEW st \in {"ok", "denied"},
         st = "ok" /\ c.pc \in {"create", "messages"} => c.arg \in Sessions
  PROVE  CallOK([c EXCEPT !.st = st], ids, n) /\ [c EXCEPT !.st = st].op = c.op
<1> DEFINE r == [c EXCEPT !.st = st]
<1>1. /\ IsCall(r) /\ r.op = c.op /\ r.pc = c.pc /\ r.arg = c.arg /\ r.page = c.page
      /\ r.seen = c.seen /\ r.st = st /\ r.list = c.list
  BY DEF CallOK, IsCall
<1> HIDE DEF r
<1>2. CallOK(r, ids, n) /\ r.op = c.op
  BY <1>1 DEF CallOK
<1> QED
  BY <1>2 DEF r

LEMMA CreatedOK ==
  ASSUME NEW c, NEW ids, NEW n, CallOK(c, ids, n), NEW s \in Sessions
  PROVE  LET r == [[c EXCEPT !.st = "ok"] EXCEPT !.arg = s] IN CallOK(r, ids, n) /\ r.op = c.op
<1> DEFINE r1 == [c EXCEPT !.st = "ok"]
           r2 == [r1 EXCEPT !.arg = s]
<1>1. /\ IsCall(r1) /\ r1.op = c.op /\ r1.pc = c.pc /\ r1.page = c.page
      /\ r1.seen = c.seen /\ r1.st = "ok" /\ r1.list = c.list
  BY DEF CallOK, IsCall
<1> HIDE DEF r1
<1>2. /\ IsCall(r2) /\ r2.op = r1.op /\ r2.pc = r1.pc /\ r2.page = r1.page /\ r2.arg = s
      /\ r2.seen = r1.seen /\ r2.st = r1.st /\ r2.list = r1.list
  BY <1>1 DEF IsCall
<1> HIDE DEF r2
<1>3. CallOK(r2, ids, n) /\ r2.op = c.op
  BY <1>1, <1>2 DEF CallOK
<1> QED
  BY <1>3 DEF r1, r2

LEMMA FailedOK ==
  ASSUME NEW c, NEW ids, NEW n, CallOK(c, ids, n), n > 0
  PROVE  LET r == [c EXCEPT !.st = "failed", !.list = <<>>, !.flag = FALSE, !.arg = None]
         IN  CallOK(r, ids, n) /\ r.op = c.op
<1> DEFINE no == FALSE
           r1 == [c EXCEPT !.st = "failed"]
           r2 == [r1 EXCEPT !.list = <<>>]
           r3 == [r2 EXCEPT !.flag = no]
           r4 == [r3 EXCEPT !.arg = None]
<1>1. r4 = [c EXCEPT !.st = "failed", !.list = <<>>, !.flag = FALSE, !.arg = None]
  OBVIOUS
<1> HIDE DEF no
<1>2. /\ IsCall(r1) /\ r1.op = c.op /\ r1.pc = c.pc /\ r1.page = c.page /\ r1.seen = c.seen /\ r1.st = "failed"
  BY DEF CallOK, IsCall
<1> HIDE DEF r1
<1>3. /\ IsCall(r2) /\ r2.op = r1.op /\ r2.pc = r1.pc /\ r2.page = r1.page /\ r2.seen = r1.seen
      /\ r2.st = r1.st /\ r2.list = <<>>
  BY <1>2 DEF IsCall
<1> HIDE DEF r2
<1>4. /\ IsCall(r3) /\ r3.op = r2.op /\ r3.pc = r2.pc /\ r3.page = r2.page /\ r3.seen = r2.seen
      /\ r3.st = r2.st /\ r3.list = r2.list
  BY <1>3 DEF IsCall
<1> HIDE DEF r3
<1>5. /\ IsCall(r4) /\ r4.op = r3.op /\ r4.pc = r3.pc /\ r4.page = r3.page /\ r4.seen = r3.seen
      /\ r4.st = r3.st /\ r4.list = r3.list /\ r4.arg = None
  BY <1>4 DEF IsCall
<1> HIDE DEF r4
<1>6. CallOK(r4, ids, n) /\ r4.op = c.op
  BY <1>2, <1>3, <1>4, <1>5, EmptyRows DEF CallOK
<1> QED
  BY <1>1, <1>6

\* A request is replaced by its answer, or by the next request of the same closure.
LEMMA ReplaceStep ==
  ASSUME ShellInv, FrameOK', NEW c \in calls, NEW r, CallOK(r, born', fails'), r.op = c.op,
         calls' = (calls \ {c}) \cup {r}, born \subseteq born', fails <= fails', UNCHANGED Account,
         activeSessionId' = activeSessionId
  PROVE  ShellInv'
<1>1. \A d \in calls : CallOK(d, born', fails')
  BY CallsStay
<1>2. \A d \in calls' : CallOK(d, born', fails')
  BY <1>1
<1>3. \A d \in calls : \E e \in calls' : e.op = d.op
  BY Zenon
<1>4. fails' \in Nat
  BY ShellAssumption DEF FrameOK
<1> QED
  BY <1>2, <1>3, <1>4, QuietStep

\* Requests are sent.
LEMMA SendStep ==
  ASSUME ShellInv, FrameOK', NEW new, \A d \in new : CallOK(d, born, fails),
         calls' = calls \cup new, born' = born, fails' = fails, UNCHANGED Account,
         activeSessionId' \in {activeSessionId} \cup Sessions
  PROVE  ShellInv'
<1>1. \A d \in calls' : CallOK(d, born', fails')
  BY DEF ShellInv, CallsOK
<1>2. fails' \in Nat /\ fails <= fails'
  BY ShellAssumption DEF FrameOK
<1> QED
  BY <1>1, <1>2, QuietStep

\* An answer is delivered; a closure that boots opens a chat then.
LEMMA DeliverStep ==
  ASSUME ShellInv, FrameOK', NEW c \in calls, c.op \notin {"me", "config"},
         NEW new, \A d \in new : CallOK(d, born, fails),
         calls' = (calls \ {c}) \cup new, born' = born, fails' = fails, UNCHANGED Account,
         activeSessionId' \in {activeSessionId} \cup Sessions,
         c.op = "boot" => activeSessionId' \in Sessions
  PROVE  ShellInv'
<1>1. \A d \in calls' : CallOK(d, born', fails')
  BY DEF ShellInv, CallsOK
<1>2. fails' \in Nat /\ fails <= fails'
  BY ShellAssumption DEF FrameOK
<1>3. \A d \in calls : d.op \in {"me", "config"} => d \in calls'
  BY Zenon
<1>4. c.op # "boot" => \A d \in calls : d.op = "boot" => d \in calls'
  BY Zenon
<1> QED
  BY <1>1, <1>2, <1>3, <1>4, QuietStep

\* The frame when only the requests change.
LEMMA FrameStays ==
  ASSUME ShellInv, UNCHANGED <<server, Account, location, winXp, sidebar, acts, fails>>
  PROVE  FrameOK'
BY DEF ShellInv, FrameOK, server, Account, location, sidebar

LEMMA ServeKeeps ==
  ASSUME ShellInv, NEW c \in calls, Serve(c)
  PROVE  ShellInv'
<1>1. /\ c.st = "sent" /\ UNCHANGED <<Account, location, winXp, sidebar, acts, fails>>
      /\ fails \in Nat /\ fails <= fails' /\ activeSessionId' = activeSessionId
  BY ShellAssumption DEF Serve, ShellInv, FrameOK, location
<1>2. CallOK(c, born, fails)
  BY DEF ShellInv, CallsOK
<1>3. CASE Denied(c)
  <2> DEFINE r == [c EXCEPT !.st = "denied"]
  <2>1. UNCHANGED server /\ calls' = (calls \ {c}) \cup {r}
    BY <1>3 DEF Denied, Answer
  <2>2. FrameOK' /\ born' = born /\ fails' = fails
    BY <1>1, <2>1, FrameStays DEF server
  <2>3. CallOK(r, born', fails') /\ r.op = c.op
    BY <1>2, <2>2, AnswerOK
  <2> HIDE DEF r
  <2> QED
    BY <1>1, <2>1, <2>2, <2>3, ReplaceStep
<1>4. CASE Granted(c)
  <2> DEFINE ok == [c EXCEPT !.st = "ok"]
  <2>1. \/ /\ c.op = "login" /\ cookie' = TRUE /\ UNCHANGED <<configured, sessions, used, born>>
           /\ calls' = (calls \ {c}) \cup {ok}
        \/ /\ c.op = "logout" /\ cookie' = FALSE /\ UNCHANGED <<configured, sessions, used, born>>
           /\ calls' = (calls \ {c}) \cup {ok}
        \/ /\ c.pc = "create" /\ UNCHANGED <<cookie, configured, used>>
           /\ \E s \in Sessions \ (PlanSessions \cup born) :
                /\ born' = born \cup {s} /\ sessions' = <<[id |-> s, title |-> 0]>> \o sessions
                /\ calls' = (calls \ {c}) \cup {[ok EXCEPT !.arg = s]}
        \/ /\ c.op = "delete" /\ sessions' = Without(sessions, c.arg) /\ used' = used \ {c.arg}
           /\ calls' = (calls \ {c}) \cup {ok} /\ UNCHANGED <<cookie, configured, born>>
        \/ /\ c.op = "rename" /\ sessions' = Renamed(sessions, c.arg)
           /\ calls' = (calls \ {c}) \cup {ok} /\ UNCHANGED <<cookie, configured, used, born>>
    BY <1>4 DEF Granted, Answer
  <2>2. ASSUME calls' = (calls \ {c}) \cup {ok}, c.op \in {"login", "logout", "delete", "rename"},
               FrameOK', born' = born
        PROVE  ShellInv'
    <3>1. c.pc \notin {"create", "messages"}
      BY <1>2, <2>2 DEF CallOK
    <3>2. CallOK(ok, born, fails) /\ ok.op = c.op
      BY <1>2, <3>1, AnswerOK
    <3>3. CallOK(ok, born', fails')
      BY <1>1, <2>2, <3>2
    <3> HIDE DEF ok
    <3> QED
      BY <1>1, <2>2, <3>2, <3>3, ReplaceStep
  <2>3. CASE /\ c.op \in {"login", "logout"} /\ cookie' \in BOOLEAN
             /\ UNCHANGED <<configured, sessions, used, born>> /\ calls' = (calls \ {c}) \cup {ok}
    <3>1. FrameOK'
      BY <1>1, <2>3 DEF ShellInv, FrameOK, Account, location, sidebar
    <3> QED
      BY <2>2, <2>3, <3>1
  <2>4. CASE /\ c.op = "delete" /\ sessions' = Without(sessions, c.arg) /\ used' = used \ {c.arg}
             /\ calls' = (calls \ {c}) \cup {ok} /\ UNCHANGED <<cookie, configured, born>>
    <3>1. sessions' \in Seq(Row) /\ Ids(sessions') \subseteq born
      BY <2>4, WithoutRows DEF ShellInv, FrameOK
    <3>2. FrameOK'
      BY <1>1, <2>4, <3>1 DEF ShellInv, FrameOK, Account, location, sidebar
    <3> QED
      BY <2>2, <2>4, <3>2
  <2>5. CASE /\ c.op = "rename" /\ sessions' = Renamed(sessions, c.arg)
             /\ calls' = (calls \ {c}) \cup {ok} /\ UNCHANGED <<cookie, configured, used, born>>
    <3>1. sessions' \in Seq(Row) /\ Ids(sessions') \subseteq born
      BY <2>5, RenamedRows DEF ShellInv, FrameOK
    <3>2. FrameOK'
      BY <1>1, <2>5, <3>1 DEF ShellInv, FrameOK, Account, location, sidebar
    <3> QED
      BY <2>2, <2>5, <3>2
  <2>6. ASSUME NEW s \in Sessions, born' = born \cup {s}, UNCHANGED <<cookie, configured, used>>,
               sessions' = <<[id |-> s, title |-> 0]>> \o sessions,
               calls' = (calls \ {c}) \cup {[ok EXCEPT !.arg = s]}
        PROVE  ShellInv'
    <3> DEFINE r == [ok EXCEPT !.arg = s]
    <3>1. sessions' \in Seq(Row) /\ Ids(sessions') \subseteq born'
      BY <2>6, AddedRow DEF ShellInv, FrameOK
    <3>2. FrameOK'
      BY <1>1, <2>6, <3>1 DEF ShellInv, FrameOK, Account, location, sidebar
    <3>3. CallOK(r, born, fails) /\ r.op = c.op
      BY <1>2, CreatedOK
    <3> HIDE DEF r
    <3>4. CallOK(r, born', fails')
      BY <1>1, <2>6, <3>3, CallStays
    <3>5. calls' = (calls \ {c}) \cup {r} /\ born \subseteq born'
      BY <2>6 DEF r
    <3> QED
      BY <1>1, <3>2, <3>3, <3>4, <3>5, ReplaceStep
  <2> HIDE DEF ok
  <2> QED
    BY <2>1, <2>3, <2>4, <2>5, <2>6
<1> QED
  BY <1>3, <1>4 DEF Serve

LEMMA FailKeeps ==
  ASSUME ShellInv, NEW c \in calls, RequestFails(c)
  PROVE  ShellInv'
<1> DEFINE r == [c EXCEPT !.st = "failed", !.list = <<>>, !.flag = FALSE, !.arg = None]
<1>1. /\ acts < MaxActs /\ acts' = acts + 1 /\ fails' = fails + 1
      /\ calls' = (calls \ {c}) \cup {r} /\ UNCHANGED <<server, Account, location, winXp, sidebar>>
  BY DEF RequestFails, Answer
<1>2. FrameOK' /\ born' = born /\ fails <= fails' /\ fails' > 0 /\ activeSessionId' = activeSessionId
  BY <1>1, ShellAssumption DEF ShellInv, FrameOK, server, Account, location, sidebar
<1>3. CallOK(c, born', fails')
  BY <1>2, CallsStay
<1>4. CallOK(r, born', fails') /\ r.op = c.op
  BY <1>2, <1>3, FailedOK
<1> HIDE DEF r
<1> QED
  BY <1>1, <1>2, <1>4, ReplaceStep

\* A chat is opened: the list is read again if the sidebar is there.
LEMMA OpenedKeeps ==
  ASSUME ShellInv, NEW c \in calls, c.op \notin {"me", "config"}, NEW s \in Sessions, NEW nav,
         Opened(c, s, nav)
  PROVE  ShellInv'
<1> DEFINE new == IF Screen = "main" THEN {Read("load", "", None)} ELSE {}
           r == [page |-> "chat", sessionId |-> s]
<1>1. /\ activeSessionId' = s
      /\ UNCHANGED <<route, past>> \/ (route' = r /\ past' = past \cup {r})
      /\ UNCHANGED <<server, Account, winXp, sidebar, acts, fails>> /\ calls' = (calls \ {c}) \cup new
  <2>1. CASE nav
    BY <2>1, ShellAssumption DEF Opened, Navigate, Quiet
  <2>2. CASE ~nav
    BY <2>2 DEF Opened, Quiet
  <2> QED
    BY <2>1, <2>2
<1>2. r \in Route
  BY DEF Route, Pages
<1>3. "load" \in Ops
  BY DEF Ops
<1>4. \A d \in new : CallOK(d, born, fails)
  <2>1. CallOK(Read("load", "", None), born, fails)
    BY <1>3, ReadOK
  <2> QED
    BY <2>1
<1> HIDE DEF r, new
<1>5. FrameOK' /\ born' = born
  BY <1>1, <1>2 DEF ShellInv, FrameOK, server, Account, sidebar
<1> QED
  BY <1>1, <1>4, <1>5, DeliverStep

\* A closure awaits its next request.
LEMMA GoOnKeeps ==
  ASSUME ShellInv, NEW c \in calls, NEW next, CallOK(next, born, fails), next.op = c.op, GoOn(c, next)
  PROVE  ShellInv'
<1> DEFINE r1 == [next EXCEPT !.n = c.n]
           r == [r1 EXCEPT !.page = c.page]
<1>1. calls' = (calls \ {c}) \cup {r} /\ UNCHANGED <<server, Account, location, winXp, sidebar, acts, fails>>
  BY DEF GoOn, Quiet
<1>2. FrameOK' /\ born' = born /\ fails' = fails /\ activeSessionId' = activeSessionId
  BY <1>1, FrameStays DEF server, location
<1>3. c.page \in Pages
  BY DEF ShellInv, CallsOK, CallOK
<1>4. CallOK(r1, born, fails) /\ r1.op = next.op
  <2>1. /\ IsCall(r1) /\ r1.op = next.op /\ r1.pc = next.pc /\ r1.arg = next.arg /\ r1.page = next.page
        /\ r1.seen = next.seen /\ r1.st = next.st /\ r1.list = next.list
    BY DEF CallOK, IsCall
  <2> HIDE DEF r1
  <2> QED
    BY <2>1 DEF CallOK
<1> HIDE DEF r1
<1>5. CallOK(r, born, fails) /\ r.op = r1.op
  BY <1>3, <1>4, PageOK
<1> HIDE DEF r
<1>6. CallOK(r, born', fails') /\ born \subseteq born' /\ fails <= fails'
  BY <1>2, <1>5, ShellAssumption DEF FrameOK
<1> QED
  BY <1>1, <1>2, <1>4, <1>5, <1>6, ReplaceStep

LEMMA BootKeeps ==
  ASSUME ShellInv, NEW c \in calls, BootReply(c)
  PROVE  ShellInv'
<1>1. c.op = "boot" /\ c.st = "ok" /\ c.op \in Ops /\ CallOK(c, born, fails)
  BY DEF BootReply, ShellInv, CallsOK, CallOK
<1> DEFINE next == NewCall(c.op, "create", None)
<1>2. CallOK(next, born, fails) /\ next.op = c.op
  BY <1>1, NewCallOK
<1> HIDE DEF next
<1>3. c.list \in Seq(Row) /\ (c.pc = "create" => c.arg \in Sessions)
  BY <1>1 DEF CallOK
<1>4. Regular(c.list) # <<>> => Head(Regular(c.list)).id \in Sessions
  BY <1>3, RegularRows
<1>5. \/ GoOn(c, next)
      \/ Regular(c.list) # <<>> /\ Opened(c, Head(Regular(c.list)).id, c.page = "chat")
      \/ c.pc = "create" /\ Opened(c, c.arg, c.page = "chat")
  BY DEF BootReply, next
<1>6. CASE GoOn(c, next)
  BY <1>2, <1>6, GoOnKeeps
<1>7. CASE Regular(c.list) # <<>> /\ Opened(c, Head(Regular(c.list)).id, c.page = "chat")
  BY <1>1, <1>4, <1>7, OpenedKeeps
<1>8. CASE c.pc = "create" /\ Opened(c, c.arg, c.page = "chat")
  BY <1>1, <1>3, <1>8, OpenedKeeps
<1> QED
  BY <1>5, <1>6, <1>7, <1>8

LEMMA NewChatKeeps ==
  ASSUME ShellInv, NEW c \in calls, NewChatReply(c)
  PROVE  ShellInv'
<1>1. c.op = "newChat" /\ c.st = "ok" /\ c.op \in Ops /\ CallOK(c, born, fails)
  BY DEF NewChatReply, ShellInv, CallsOK, CallOK
<1> DEFINE next == NewCall(c.op, "create", None)
           newest == Head(Regular(c.list)).id
           look == Read("newChat", "messages", newest)
<1>2. CallOK(next, born, fails) /\ next.op = c.op
  BY <1>1, NewCallOK
<1>3. c.list \in Seq(Row) /\ (c.pc \in {"create", "messages"} => c.arg \in Sessions)
  BY <1>1 DEF CallOK
<1>4. Regular(c.list) # <<>> => newest \in Sessions
  BY <1>3, RegularRows
<1>5. \/ GoOn(c, next)
      \/ Regular(c.list) # <<>> /\ GoOn(c, look)
      \/ c.pc \in {"create", "messages"} /\ Opened(c, c.arg, TRUE)
  BY DEF NewChatReply
<1> HIDE DEF next, newest
<1>6. Regular(c.list) # <<>> => CallOK(look, born, fails) /\ look.op = c.op
  BY <1>1, <1>4, ReadOK
<1> HIDE DEF look
<1>7. CASE GoOn(c, next)
  BY <1>2, <1>7, GoOnKeeps
<1>8. CASE Regular(c.list) # <<>> /\ GoOn(c, look)
  BY <1>6, <1>8, GoOnKeeps
<1>9. CASE c.pc \in {"create", "messages"} /\ Opened(c, c.arg, TRUE)
  BY <1>1, <1>3, <1>9, OpenedKeeps
<1> QED
  BY <1>5, <1>7, <1>8, <1>9

LEMMA LoadKeeps ==
  ASSUME ShellInv, NEW c \in calls, LoadReply(c)
  PROVE  ShellInv'
<1> DEFINE none == {}
<1>1. /\ c.op = "load" /\ calls' = (calls \ {c}) \cup none /\ shown' \in {c.list, shown}
      /\ UNCHANGED <<server, Account, location, winXp, deleteTarget, editingId, acts, fails>>
  BY DEF LoadReply, Stay, Quiet
<1>2. shown' \in Seq(Row) /\ Ids(shown') \subseteq born
  BY <1>1 DEF ShellInv, FrameOK, CallsOK, CallOK
<1>3. FrameOK' /\ born' = born /\ activeSessionId' = activeSessionId
  BY <1>1, <1>2 DEF ShellInv, FrameOK, server, Account, location
<1>4. \A d \in none : CallOK(d, born, fails)
  OBVIOUS
<1> HIDE DEF none
<1> QED
  BY <1>1, <1>3, <1>4, DeliverStep

LEMMA DeleteKeeps ==
  ASSUME ShellInv, NEW c \in calls, DeleteReply(c)
  PROVE  ShellInv'
<1> DEFINE left == Regular(Without(c.seen, c.arg))
           to == [page |-> "chat", sessionId |-> Head(left).id]
           new == IF c.flag /\ left = <<>> THEN {Read("newChat", "list", None)} ELSE {}
<1>1. /\ c.op = "delete" /\ shown' \in {Without(shown, c.arg), shown}
      /\ deleteTarget' \in {deleteTarget, None} /\ calls' = (calls \ {c}) \cup new
      /\ \/ left # <<>> /\ Navigate(to, to.sessionId)
         \/ UNCHANGED location
      /\ UNCHANGED <<server, Account, winXp, editingId, acts, fails>>
  BY DEF DeleteReply, Stay, Quiet
<1>2. CallOK(c, born, fails)
  BY DEF ShellInv, CallsOK
<1>3. left # <<>> => to.sessionId \in Sessions
  <2>1. Without(c.seen, c.arg) \in Seq(Row)
    BY <1>2, WithoutRows DEF CallOK
  <2> QED
    BY <2>1, RegularRows
<1>4. \A d \in new : CallOK(d, born, fails)
  <2>1. "newChat" \in Ops
    BY DEF Ops
  <2> QED
    BY <2>1, ReadOK
<1>5. shown' \in Seq(Row) /\ Ids(shown') \subseteq born
  BY <1>1, WithoutRows DEF ShellInv, FrameOK
<1>6. to.page = "chat" /\ (left # <<>> => to \in Route)
  BY <1>3 DEF Route, Pages
<1> HIDE DEF left, to, new
<1>7. \/ UNCHANGED location
      \/ /\ route' = to /\ to \in Route /\ past' = past \cup {to} /\ activeSessionId' \in Sessions
  BY <1>1, <1>3, <1>6 DEF Navigate
<1>8. FrameOK' /\ born' = born /\ activeSessionId' \in {activeSessionId} \cup Sessions
  BY <1>1, <1>5, <1>7 DEF ShellInv, FrameOK, server, Account, location
<1> QED
  BY <1>1, <1>4, <1>8, DeliverStep

-----------------------------------------------------------------------------
(* What the user does without a render of App. *)

LEMMA SubmitKeeps ==
  ASSUME ShellInv, NEW right, SubmitLogin(right)
  PROVE  ShellInv'
<1> DEFINE c == NewCall("login", "", None)
           r == [c EXCEPT !.flag = right]
<1>1. Act /\ calls' = calls \cup {r} /\ UNCHANGED <<server, Account, location, winXp, sidebar>>
  BY DEF SubmitLogin
<1>2. acts' \in 0..MaxActs /\ fails' = fails /\ fails \in 0..acts'
  BY <1>1, ActCounts
<1>3. FrameOK' /\ born' = born /\ activeSessionId' = activeSessionId
  BY <1>1, <1>2 DEF ShellInv, FrameOK, server, Account, location, sidebar
<1>4. "login" \in Ops
  BY DEF Ops
<1>5. CallOK(c, born, fails)
  BY <1>4, NewCallOK
<1> HIDE DEF c
<1>6. /\ IsCall(r) /\ r.op = c.op /\ r.pc = c.pc /\ r.arg = c.arg /\ r.page = c.page
      /\ r.seen = c.seen /\ r.st = c.st /\ r.list = c.list
  BY <1>5 DEF CallOK, IsCall
<1> HIDE DEF r
<1>7. CallOK(r, born, fails)
  BY <1>5, <1>6 DEF CallOK
<1> DEFINE new == {r}
<1>8. calls' = calls \cup new /\ \A d \in new : CallOK(d, born, fails)
  BY <1>1, <1>7
<1> HIDE DEF new
<1> QED
  BY <1>1, <1>2, <1>3, <1>8, SendStep

LEMMA ClickLogoutKeeps ==
  ASSUME ShellInv, ClickLogout
  PROVE  ShellInv'
<1> DEFINE new == {NewCall("logout", "", None)}
<1>1. Act /\ calls' = calls \cup new /\ UNCHANGED <<server, Account, location, winXp, sidebar>>
  BY DEF ClickLogout
<1>2. acts' \in 0..MaxActs /\ fails' = fails /\ fails \in 0..acts'
  BY <1>1, ActCounts
<1>3. FrameOK' /\ born' = born /\ activeSessionId' = activeSessionId
  BY <1>1, <1>2 DEF ShellInv, FrameOK, server, Account, location, sidebar
<1>4. "logout" \in Ops
  BY DEF Ops
<1>5. CallOK(NewCall("logout", "", None), born, fails)
  BY <1>4, NewCallOK
<1>6. \A d \in new : CallOK(d, born, fails)
  BY <1>5
<1> HIDE DEF new
<1> QED
  BY <1>1, <1>2, <1>3, <1>6, SendStep

LEMMA ClickNewChatKeeps ==
  ASSUME ShellInv, ClickNewChat
  PROVE  ShellInv'
<1> DEFINE new == {Read("newChat", "list", None)}
<1>1. Act /\ calls' = calls \cup new /\ UNCHANGED <<server, Account, location, winXp, sidebar>>
  BY DEF ClickNewChat
<1>2. acts' \in 0..MaxActs /\ fails' = fails /\ fails \in 0..acts'
  BY <1>1, ActCounts
<1>3. FrameOK' /\ born' = born /\ activeSessionId' = activeSessionId
  BY <1>1, <1>2 DEF ShellInv, FrameOK, server, Account, location, sidebar
<1>4. "newChat" \in Ops
  BY DEF Ops
<1>5. CallOK(Read("newChat", "list", None), born, fails)
  BY <1>4, ReadOK
<1>6. \A d \in new : CallOK(d, born, fails)
  BY <1>5
<1> HIDE DEF new
<1> QED
  BY <1>1, <1>2, <1>3, <1>6, SendStep

LEMMA PollKeeps ==
  ASSUME ShellInv, PollSessions
  PROVE  ShellInv'
<1> DEFINE new == {Read("load", "", None)}
<1>1. calls' = calls \cup new /\ UNCHANGED <<server, Account, location, winXp, sidebar, acts, fails>>
  BY DEF PollSessions
<1>2. FrameOK' /\ born' = born /\ activeSessionId' = activeSessionId
  BY <1>1, FrameStays DEF server, location
<1>3. "load" \in Ops
  BY DEF Ops
<1>4. CallOK(Read("load", "", None), born, fails)
  BY <1>3, ReadOK
<1>5. \A d \in new : CallOK(d, born, fails)
  BY <1>4
<1> HIDE DEF new
<1> QED
  BY <1>1, <1>2, <1>5, SendStep

\* Steps that send nothing.
LEMMA NoneSent ==
  ASSUME ShellInv, FrameOK', UNCHANGED <<calls, born, fails, Account>>,
         activeSessionId' \in {activeSessionId} \cup Sessions
  PROVE  ShellInv'
<1> DEFINE none == {}
<1>1. calls' = calls \cup none /\ \A d \in none : CallOK(d, born, fails)
  OBVIOUS
<1> HIDE DEF none
<1> QED
  BY <1>1, SendStep

LEMMA SelectKeeps ==
  ASSUME ShellInv, NEW s \in Sessions, SelectSession(s)
  PROVE  ShellInv'
<1> DEFINE r == [page |-> "chat", sessionId |-> s]
<1>1. /\ Act /\ route' = r /\ past' = past \cup {r} /\ activeSessionId' = s
      /\ UNCHANGED <<server, Account, winXp, sidebar, calls>>
  BY DEF SelectSession, Navigate
<1>2. acts' \in 0..MaxActs /\ fails' = fails /\ fails \in 0..acts'
  BY <1>1, ActCounts
<1>3. r \in Route
  BY DEF Route, Pages
<1> HIDE DEF r
<1>4. FrameOK' /\ born' = born
  BY <1>1, <1>2, <1>3 DEF ShellInv, FrameOK, server, Account, sidebar
<1> QED
  BY <1>1, <1>2, <1>4, NoneSent

LEMMA AskDeleteKeeps ==
  ASSUME ShellInv, NEW s \in Sessions, AskDelete(s)
  PROVE  ShellInv'
<1>1. /\ Act /\ deleteTarget' = s
      /\ UNCHANGED <<server, Account, location, winXp, shown, editingId, calls>>
  BY DEF AskDelete
<1>2. acts' \in 0..MaxActs /\ fails' = fails /\ fails \in 0..acts'
  BY <1>1, ActCounts
<1>3. FrameOK' /\ born' = born /\ activeSessionId' = activeSessionId
  BY <1>1, <1>2 DEF ShellInv, FrameOK, server, Account, location
<1> QED
  BY <1>1, <1>2, <1>3, NoneSent

LEMMA StartRenameKeeps ==
  ASSUME ShellInv, NEW s \in Sessions, StartRename(s)
  PROVE  ShellInv'
<1>1. /\ Act /\ editingId' = s
      /\ UNCHANGED <<server, Account, location, winXp, shown, deleteTarget, calls>>
  BY DEF StartRename
<1>2. acts' \in 0..MaxActs /\ fails' = fails /\ fails \in 0..acts'
  BY <1>1, ActCounts
<1>3. FrameOK' /\ born' = born /\ activeSessionId' = activeSessionId
  BY <1>1, <1>2 DEF ShellInv, FrameOK, server, Account, location
<1> QED
  BY <1>1, <1>2, <1>3, NoneSent

\* The closure of a deletion keeps the list that is shown.
LEMMA DialogKeeps ==
  ASSUME ShellInv, NEW yes, AnswerDialog(yes)
  PROVE  ShellInv'
<1> DEFINE c == NewCall("delete", "", deleteTarget)
           open == activeSessionId = deleteTarget
           r1 == [c EXCEPT !.flag = open]
           r == [r1 EXCEPT !.seen = shown]
           new == IF yes THEN {r} ELSE {}
<1>1. /\ deleteTarget' = None /\ calls' = calls \cup new
      /\ UNCHANGED <<server, Account, location, winXp, shown, editingId, acts, fails>>
  BY DEF AnswerDialog, Quiet
<1>2. FrameOK' /\ born' = born /\ activeSessionId' = activeSessionId
  BY <1>1 DEF ShellInv, FrameOK, server, Account, location
<1>3. "delete" \in Ops /\ deleteTarget \in Sessions \cup {None}
  BY DEF Ops, ShellInv, FrameOK
<1>4. CallOK(c, born, fails)
  BY <1>3, NewCallOK
<1> HIDE DEF c, open
<1>5. /\ IsCall(r1) /\ r1.op = c.op /\ r1.pc = c.pc /\ r1.arg = c.arg /\ r1.page = c.page
      /\ r1.st = c.st /\ r1.list = c.list
  BY <1>4 DEF CallOK, IsCall
<1> HIDE DEF r1
<1>6. /\ IsCall(r) /\ r.op = r1.op /\ r.pc = r1.pc /\ r.arg = r1.arg /\ r.page = r1.page
      /\ r.st = r1.st /\ r.list = r1.list /\ r.seen = shown
  BY <1>5 DEF IsCall
<1> HIDE DEF r
<1>7. CallOK(r, born, fails)
  BY <1>4, <1>5, <1>6 DEF CallOK, ShellInv, FrameOK
<1>8. \A d \in new : CallOK(d, born, fails)
  BY <1>7
<1> HIDE DEF new
<1> QED
  BY <1>1, <1>2, <1>8, SendStep

LEMMA EndRenameKeeps ==
  ASSUME ShellInv, NEW confirm, EndRename(confirm)
  PROVE  ShellInv'
<1> DEFINE c == NewCall("rename", "", editingId)
           new == IF confirm THEN {c} ELSE {}
<1>1. /\ editingId' \in {editingId, None} /\ calls' = calls \cup new
      /\ UNCHANGED <<server, Account, location, winXp, shown, deleteTarget, acts, fails>>
  BY DEF EndRename, Quiet
<1>2. FrameOK' /\ born' = born /\ activeSessionId' = activeSessionId
  BY <1>1 DEF ShellInv, FrameOK, server, Account, location
<1>3. "rename" \in Ops /\ editingId \in Sessions \cup {None}
  BY DEF Ops, ShellInv, FrameOK
<1>4. CallOK(c, born, fails)
  BY <1>3, NewCallOK
<1> HIDE DEF c
<1>5. \A d \in new : CallOK(d, born, fails)
  BY <1>4
<1> HIDE DEF new
<1> QED
  BY <1>1, <1>2, <1>5, SendStep

LEMMA ElsewhereKeeps ==
  ASSUME ShellInv, Elsewhere
  PROVE  ShellInv'
<1>1. /\ Act /\ UNCHANGED <<configured, sessions, born, Account, location, winXp, sidebar, calls>>
      /\ \/ cookie' = FALSE /\ UNCHANGED used
         \/ \E s \in Ids(sessions) : used' = used \cup {s} /\ UNCHANGED cookie
  BY DEF Elsewhere
<1>2. acts' \in 0..MaxActs /\ fails' = fails /\ fails \in 0..acts'
  BY <1>1, ActCounts
<1>3. FrameOK' /\ born' = born /\ activeSessionId' = activeSessionId
  BY <1>1, <1>2 DEF ShellInv, FrameOK, Account, location, sidebar
<1> QED
  BY <1>1, <1>2, <1>3, NoneSent

-----------------------------------------------------------------------------

LEMMA InitHolds == Init => ShellInv
<1> SUFFICES ASSUME Init
             PROVE  ShellInv
  OBVIOUS
<1> DEFINE st == IF cookie THEN "ok" ELSE "denied"
           no == FALSE
           on == TRUE
           me == [op |-> "me", n |-> 1, pc |-> "", arg |-> None, page |-> "chat", seen |-> <<>>,
                  list |-> <<>>, flag |-> no, at |-> on, st |-> st]
<1>1. calls = {me}
  BY DEF Init
<1>2. st \in {"ok", "denied"} /\ "chat" \in Pages /\ "me" \in Ops
  BY DEF Pages, Ops
<1> HIDE DEF st, no, on
<1>3. CallOK(me, born, fails) /\ me.op = "me"
  BY <1>2, EmptyRows DEF CallOK, IsCall
<1> HIDE DEF me
<1>4. sessions \in Seq(Row) /\ Ids(sessions) \subseteq Sessions
  <2>1. sessions \in Seq(Row)
    BY ShellAssumption DEF Init, Row
  <2>2. \A i \in DOMAIN sessions : sessions[i] \in Row
    BY <2>1
  <2>3. \A i \in DOMAIN sessions : sessions[i].id \in Sessions
    BY <2>2 DEF Row
  <2> QED
    BY <2>1, <2>3 DEF Ids
<1>5. [page |-> "chat", sessionId |-> None] \in Route
  BY <1>2 DEF Route
<1>6. FrameOK
  <2>1. born = Ids(sessions) /\ used \subseteq Sessions
    BY <1>4 DEF Init
  <2>2. shown \in Seq(Row) /\ Ids(shown) \subseteq born
    BY EmptyRows DEF Init
  <2>3. route \in Route /\ past \subseteq Route
    BY <1>5 DEF Init
  <2>4. acts \in 0..MaxActs /\ fails \in 0..acts
    <3>1. acts = 0 /\ fails = 0
      BY DEF Init
    <3>2. MaxActs \in Nat
      BY ShellAssumption
    <3> QED
      BY <3>1, <3>2
  <2>5. /\ cookie \in BOOLEAN /\ configured \in BOOLEAN /\ winXp \in BOOLEAN /\ authChecked \in BOOLEAN
        /\ user = None /\ needsSetup = "unknown" /\ activeSessionId = None
        /\ deleteTarget = None /\ editingId = None
    BY DEF Init
  <2> QED
    BY <1>4, <2>1, <2>2, <2>3, <2>4, <2>5 DEF FrameOK
<1>7. CallsOK
  BY <1>1, <1>3 DEF CallsOK
<1>8. Asked /\ NoChatMeansOpening
  BY <1>1, <1>3 DEF Init, Asked, NoChatMeansOpening, InFlight
<1> QED
  BY <1>6, <1>7, <1>8 DEF ShellInv

LEMMA StutterKeeps ==
  ASSUME ShellInv, UNCHANGED vars
  PROVE  ShellInv'
<1>1. UNCHANGED <<server, Account, location, winXp, sidebar, acts, fails, calls>>
  BY DEF vars, Account
<1>2. FrameOK' /\ born' = born /\ activeSessionId' = activeSessionId
  BY <1>1, FrameStays DEF server, location
<1> QED
  BY <1>1, <1>2, NoneSent

LEMMA ReplyKeeps ==
  ASSUME ShellInv, NEW c \in calls, Reply(c)
  PROVE  ShellInv'
BY MeKeeps, LoginKeeps, LogoutKeeps, ConfigKeeps, SwallowedKeeps, BootKeeps, NewChatKeeps,
   LoadKeeps, DeleteKeeps, RenameKeeps DEF Reply

LEMMA UserKeeps ==
  ASSUME ShellInv, User
  PROVE  ShellInv'
<1>1. CASE \E right \in BOOLEAN : SubmitLogin(right)
  BY <1>1, SubmitKeeps
<1>2. CASE \E r \in past \cup {[page |-> "plans", sessionId |-> None]} : GoTo(r)
  BY <1>2, GoToKeeps
<1>3. CASE \E s \in Sessions : SelectSession(s) \/ AskDelete(s) \/ StartRename(s)
  BY <1>3, SelectKeeps, AskDeleteKeeps, StartRenameKeeps
<1>4. CASE \E yes \in BOOLEAN : AnswerDialog(yes) \/ EndRename(yes)
  BY <1>4, DialogKeeps, EndRenameKeeps
<1>5. CASE ClickLogout \/ WizardDone \/ ToggleXp \/ ClickNewChat
  BY <1>5, ClickLogoutKeeps, WizardKeeps, ToggleKeeps, ClickNewChatKeeps
<1> QED
  BY <1>1, <1>2, <1>3, <1>4, <1>5 DEF User

LEMMA NextKeeps == ShellInv /\ [Next]_vars => ShellInv'
<1> SUFFICES ASSUME ShellInv, [Next]_vars
             PROVE  ShellInv'
  OBVIOUS
<1>1. CASE User
  BY <1>1, UserKeeps
<1>2. CASE PollSessions
  BY <1>2, PollKeeps
<1>3. CASE Elsewhere
  BY <1>3, ElsewhereKeeps
<1>4. ASSUME NEW c \in calls, Serve(c) \/ Reply(c) \/ RequestFails(c)
      PROVE  ShellInv'
  BY <1>4, ServeKeeps, ReplyKeeps, FailKeeps
<1>5. CASE UNCHANGED vars
  BY <1>5, StutterKeeps
<1> QED
  BY <1>1, <1>2, <1>3, <1>4, <1>5 DEF Next

LEMMA ShellInvariant == Spec => []ShellInv
BY InitHolds, NextKeeps, PTL DEF Spec

\* Type correctness of App, of the sidebar and of every request in flight: among others, the
\* rows that are shown are always sessions the server has given an id.
THEOREM ShellTypes == Spec => []TypeOK
<1>1. ShellInv => TypeOK
  BY DEF ShellInv, FrameOK, CallsOK, CallOK, TypeOK
<1> QED
  BY <1>1, ShellInvariant, PTL

\* App.tsx renders nothing only while the answer that ends it is on its way.
THEOREM BlankWaits == Spec => []BlankIsWaiting
<1>1. ShellInv => BlankIsWaiting
  BY DEF ShellInv, Asked, BlankIsWaiting, Screen, ScreenOf
<1> QED
  BY <1>1, ShellInvariant, PTL

\* With the setup done and no failed request, a client that has no chat open is opening one.
THEOREM SomeChatOpens == Spec => []NoChatMeansOpening
<1>1. ShellInv => NoChatMeansOpening
  BY DEF ShellInv
<1> QED
  BY <1>1, ShellInvariant, PTL

=============================================================================
