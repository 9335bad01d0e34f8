------------------------------ MODULE GuardStudio ------------------------------
(***************************************************************************)
(* The guard profiles page: its list, the profile editor (Studio) with its *)
(* tester and fixes, and the two panels of the editor that talk to the     *)
(* server on their own, RecentActivity and AttachmentsPanel.               *)
(*                                                                         *)
(* Studio is mounted under a key: while the key stays, what the user typed *)
(* stays; when the key changes, the editor starts over from its new        *)
(* initial form.  The panels share no state with the rest but the id of    *)
(* the saved profile, and have a next-state relation of their own.         *)
(***************************************************************************)
EXTENDS GuardRules

CONSTANTS Profiles,      \* ids of guard profiles
          InitialForms,  \* the forms stored at first: profile -> form or None
          FormNames,     \* names a profile may be given, "" the empty one
          Lines,         \* command lines a user tries
          Conns,         \* ids of connections
          MaxEdits,      \* bound on what the user does to a form
          MaxSaves,      \* bound on saves, deletions and clones
          MaxPolls       \* bound on activity requests

VARIABLES stored,        \* server: profile -> form, or None
          route,         \* the profile in the URL, "new", or "list"
          profiles,      \* GuardProfilesPage: the list as last set
          loading,
          deleteTarget,
          studio,        \* the mounted Studio, or None
          result,        \* its tester's result: a line and the verdict, or None
          calls,         \* requests of the page and of Studio in flight
          edits, saves,  \* how much of the bounds is used
          unsure         \* a save was answered to nobody, or a list older than a save was shown

VARIABLE focus           \* what a behaviour is about: these share next to no state

VARIABLES attached,      \* server: connections that use the profile
          panel,         \* AttachmentsPanel
          panelCalls,
          asked,         \* RecentActivity: reqIdRef
          events,        \* the request whose answer is shown
          awaiting       \* activity requests in flight

pageVars == <<stored, route, profiles, loading, deleteTarget, studio, result,
              calls, edits, saves, unsure>>
panelVars == <<attached, panel, panelCalls, asked, events, awaiting>>

StudioForm == [name : FormNames, caps : SUBSET Caps, mode : Modes,
               commands : Seq(CommandRule), egress : EgressPolicy]

EMPTY_FORM == [name |-> "", caps |-> {}, mode |-> "whitelist", commands |-> <<>>,
               egress |-> [mode |-> "open", hosts |-> {}, cidrs |-> {}]]

\* The kinds of preset: read-only, a few commands and hosts, mostly free, no limits.
presets == {[EMPTY_FORM EXCEPT !.caps = {"pipes"}, !.egress.mode = "closed"],
            [EMPTY_FORM EXCEPT !.caps = {"pipes", "redirects", "download"}, !.egress.mode = "whitelist"],
            [EMPTY_FORM EXCEPT !.caps = {"pipes", "redirects", "cmdSubst", "download", "writeFs", "install"},
                               !.mode = "blacklist", !.egress.mode = "blacklist"],
            [EMPTY_FORM EXCEPT !.caps = {"unrestricted"}, !.mode = "open"]}

Studio == [key : Profiles \cup {"new", "clone"}, form : StudioForm, baseline : StudioForm,
           savedId : Profiles \cup {None}, saving : BOOLEAN, showPresets : BOOLEAN]

ASSUME StudioAssumption ==
    /\ InitialForms \subseteq [Profiles -> StudioForm \cup {None}] /\ {"", "a", "copy"} \subseteq FormNames
    /\ Lines \subseteq CommandLine
    /\ None \notin Profiles \cup {"new", "list", "clone"} \cup Studio
    /\ Profiles \cap {"new", "list", "clone"} = {}
    /\ MaxEdits \in Nat /\ MaxSaves \in Nat /\ MaxPolls \in Nat

-----------------------------------------------------------------------------
(* Rendering: useStudioState and the key of Studio. *)

Mounted(key, form, id) ==
    [key |-> key, form |-> form, baseline |-> form, savedId |-> id, saving |-> FALSE,
     showPresets |-> id = None /\ form.commands = <<>>]

\* Recomputed when the id in the URL, the list or loading changed.  The profile to clone
\* is consumed by the computation openClone causes; a later one finds none.
useStudioState ==
    CASE route' = "list" -> None
      [] route' = "new" -> Mounted("new", EMPTY_FORM, None)
      [] route' \in Profiles /\ ~loading' /\ profiles'[route'] # None ->
           Mounted(route', profiles'[route'], route')
      [] OTHER -> None

\* now is the studio and cs the calls as this step leaves them, if the key stays;
\* the answers to an unmounted Studio are set on nothing.
Render(now, cs, outdated) ==
    LET next == useStudioState
        same == <<route', profiles', loading'>> = <<route, profiles, loading>>
                \/ (next # None /\ now # None /\ next.key = now.key /\ next.key # "clone")
    IN  /\ studio' = IF same THEN now ELSE next
        /\ calls' = IF same THEN cs ELSE {[c EXCEPT !.key = None] : c \in cs}
        /\ result' = IF same THEN result ELSE None
        /\ unsure' = (unsure \/ outdated \/ (~same /\ now # None /\ now.saving))

\* An answer finds the Studio that asked, unless that one is gone.
Asker(c) == studio # None /\ c.key # None

Call(op, id, form) == [op |-> op, id |-> id, form |-> form, list |-> <<>>, st |-> "sent",
                       key |-> IF studio = None THEN None ELSE studio.key, from |-> route]

\* api.guardProfiles.list, answered as of the moment it is sent.
ListCall == [Call("list", None, None) EXCEPT !.list = stored, !.st = "ok", !.key = None,
                                             !.from = None]

PageInit ==
    /\ stored \in InitialForms
    /\ route \in {"list", "new"} \cup Profiles
    /\ profiles = [p \in Profiles |-> None]
    /\ loading = TRUE
    /\ deleteTarget = None /\ result = None
    /\ studio = IF route = "new" THEN Mounted("new", EMPTY_FORM, None) ELSE None
    /\ calls = {[op |-> "list", id |-> None, form |-> None, list |-> stored, st |-> "ok",
                 key |-> None, from |-> None]}
    /\ edits = 0 /\ saves = 0 /\ unsure = FALSE

-----------------------------------------------------------------------------
(* GuardProfilesPage. *)

\* openCreate, openEdit and onCancel (the arrow and Escape) navigate; so does the
\* browser's own navigation.
Navigate(to) ==
    /\ to # route /\ deleteTarget = None
    /\ route' = to
    /\ UNCHANGED <<stored, profiles, loading, deleteTarget, edits, saves>>
    /\ Render(studio, calls, FALSE)

\* The list shows its rows once it is loaded.
openClone(p) ==
    /\ route = "list" /\ ~loading /\ deleteTarget = None /\ profiles[p] # None
    /\ saves < MaxSaves /\ saves' = saves + 1
    /\ route' = "new"
    /\ studio' = Mounted("clone", [profiles[p] EXCEPT !.name = "copy"], None)
    /\ result' = None
    /\ UNCHANGED <<stored, profiles, loading, deleteTarget, calls, edits, unsure>>

AskDelete(p) ==
    /\ route = "list" /\ ~loading /\ deleteTarget = None /\ profiles[p] # None
    /\ deleteTarget' = p
    /\ UNCHANGED <<stored, route, profiles, loading, studio, result, calls, edits,
                   saves, unsure>>

CancelDelete ==
    /\ deleteTarget # None
    /\ deleteTarget' = None
    /\ UNCHANGED <<stored, route, profiles, loading, studio, result, calls, edits,
                   saves, unsure>>

\* The button of the dialog also closes it.
remove ==
    /\ deleteTarget # None
    /\ saves < MaxSaves /\ saves' = saves + 1
    /\ calls' = calls \cup {Call("delete", deleteTarget, None)}
    /\ deleteTarget' = None
    /\ UNCHANGED <<stored, route, profiles, loading, studio, result, edits, unsure>>

-----------------------------------------------------------------------------
(* Studio. *)

Dirty(s) == s.form # s.baseline
CanSave(s) == s.form.name # "" /\ (s.savedId = None \/ Dirty(s))

SetForm(form) ==
    /\ edits < MaxEdits /\ edits' = edits + 1
    /\ studio' = [studio EXCEPT !.form = form]
    /\ UNCHANGED <<stored, route, profiles, loading, deleteTarget, result, calls,
                   saves, unsure>>

\* BasicsSection.
Rename ==
    /\ studio # None
    /\ \E n \in FormNames \ {studio.form.name} : SetForm([studio.form EXCEPT !.name = n])

\* ModeCards of both sections.
SetMode ==
    /\ studio # None
    /\ \/ \E m \in Modes \ {studio.form.mode} : SetForm([studio.form EXCEPT !.mode = m])
       \/ \E m \in Modes \ {studio.form.egress.mode} :
            SetForm([studio.form EXCEPT !.egress.mode = m])

\* CapabilitiesPanel; the other capabilities are reached by presets and fixes.
SetCapability ==
    /\ studio # None
    /\ \E c \in {"sudo", "unrestricted"} :
         SetForm([studio.form EXCEPT !.caps = IF c \in @ THEN @ \ {c} ELSE @ \cup {c}])

TypedRule(p, w) ==
    IF w = None THEN Plain(p)
    ELSE [Plain(p) EXCEPT ![IF p \in SqlClients THEN "allowedSql" ELSE "allowedArgs"] = {w}]

\* CommandList: a rule is added, removed, or opened for editing and left as it is.
EditCommands ==
    /\ studio # None /\ studio.form.mode \in {"whitelist", "blacklist"}
    /\ \/ \E p \in Programs, w \in Words \cup {None} :
            SetForm([studio.form EXCEPT !.commands = AddRule(@, TypedRule(p, w))])
       \/ \E i \in DOMAIN studio.form.commands :
            \/ SetForm([studio.form EXCEPT !.commands = Kept(@, DOMAIN @ \ {i})])
            \/ SetForm([studio.form EXCEPT !.commands[i] = Reread(@)])

\* NetworkLists: an entry is added or removed.
EditNetwork ==
    /\ studio # None /\ studio.form.egress.mode \in {"whitelist", "blacklist"}
    /\ \E h \in Entries, field \in {"hosts", "cidrs"} :
         SetForm([studio.form EXCEPT !.egress[field] = IF h \in @ THEN @ \ {h} ELSE @ \cup {h}])

\* PresetsSection, offered until one is picked or all are skipped.
applyPreset ==
    /\ studio # None /\ studio.showPresets
    /\ edits < MaxEdits /\ edits' = edits + 1
    /\ \E built \in presets \cup {studio.form} :
         studio' = [studio EXCEPT !.showPresets = FALSE,
                      !.form = [built EXCEPT !.name = IF @ # "" THEN @
                                  ELSE IF studio.form.name # "" \/ built = studio.form
                                  THEN studio.form.name ELSE "a"]]
    /\ UNCHANGED <<stored, route, profiles, loading, deleteTarget, result, calls, saves, unsure>>

CanPress == studio # None /\ ~studio.saving /\ CanSave(studio)

onSave ==
    /\ CanPress
    /\ saves < MaxSaves /\ saves' = saves + 1
    /\ studio' = [studio EXCEPT !.saving = TRUE]
    /\ calls' = calls \cup
         {Call(IF studio.savedId = None THEN "create" ELSE "update", studio.savedId, studio.form)}
    /\ UNCHANGED <<stored, route, profiles, loading, deleteTarget, result, edits, unsure>>

\* The tester judges the form as it is now; the fix it offers is applied to the form
\* as it is when the button is pressed.
runTest(line) ==
    /\ studio # None
    /\ edits < MaxEdits
    /\ result' = [line |-> line, verdict |-> CommandVerdict(studio.form, line)]
    /\ result' # result
    /\ UNCHANGED <<stored, route, profiles, loading, deleteTarget, studio, calls, edits,
                   saves, unsure>>

onApply ==
    /\ studio # None /\ result # None
    /\ \/ /\ result.verdict = Ok
          /\ extractCommandName(result.line) # None
          /\ SetForm(suggestBlockCommand(studio.form, result.line))
       \/ /\ HasAllowFix(result.line, result.verdict)
          /\ SetForm(suggestAllowCommand(studio.form, result.line, result.verdict))

\* The same of the rows of RecentActivity, whose commands were judged long ago.
ApplyRow(line) ==
    /\ studio # None
    /\ \/ /\ extractCommandName(line) # None
          /\ SetForm(suggestBlockCommand(studio.form, line))
       \/ \E rule \in ByName \cup {"sudo"} :
            /\ HasAllowFix(line, No(rule, None, None))
            /\ SetForm(suggestAllowCommand(studio.form, line, No(rule, None, None)))

\* The network tester, and the rows of the destinations.
ApplyHost(target) ==
    /\ studio # None
    /\ \/ SetForm(suggestBlockHost(studio.form, target))
       \/ SetForm(suggestAllowHost(studio.form, target, HostVerdict(studio.form, target)))

-----------------------------------------------------------------------------
(* The server and the answers. *)

Serve(c) ==
    /\ c.st = "sent"
    /\ \/ /\ c.op = "create"
          /\ \E p \in Profiles :
               /\ stored[p] = None
               /\ \A d \in calls : d.id # p
               /\ stored' = [stored EXCEPT ![p] = c.form]
               /\ calls' = (calls \ {c}) \cup {[c EXCEPT !.id = p, !.st = "ok"]}
       \/ /\ c.op = "update" /\ stored[c.id] # None
          /\ stored' = [stored EXCEPT ![c.id] = c.form]
          /\ calls' = (calls \ {c}) \cup {[c EXCEPT !.st = "ok"]}
       \/ /\ c.op = "delete"
          /\ stored' = [stored EXCEPT ![c.id] = None]
          /\ calls' = (calls \ {c}) \cup {[c EXCEPT !.st = "ok"]}
       \/ /\ \/ c.op = "update" /\ stored[c.id] = None
             \/ c.op = "create" /\ ~\E p \in Profiles : stored[p] = None /\ \A d \in calls : d.id # p
          /\ calls' = (calls \ {c}) \cup {[c EXCEPT !.st = "failed"]}
          /\ UNCHANGED stored
    /\ UNCHANGED <<route, profiles, loading, deleteTarget, studio, result, edits, saves, unsure>>

\* The list was read before a profile in it was saved.
Outdated(list) == \E p \in Profiles : list[p] # None /\ stored[p] \notin {list[p], None}

\* load: the list is replaced by the answer, whatever it misses by now, or stays.
LoadReply(c) ==
    /\ c.op = "list" /\ c.st = "ok"
    /\ profiles' \in {c.list, profiles} /\ loading' = FALSE
    /\ UNCHANGED <<stored, route, deleteTarget, edits, saves>>
    /\ Render(studio, calls \ {c}, profiles' = c.list /\ Outdated(c.list))

\* Mutant: the baseline becomes the form that is shown, not the one that was saved.
SavedStudio_Shown(c) == [studio EXCEPT !.savedId = c.id, !.baseline = studio.form, !.saving = FALSE]

SavedStudio(c) == [studio EXCEPT !.savedId = c.id, !.baseline = c.form, !.saving = FALSE]

\* onSave after the answer, and onSaved of the page: the list takes the profile, and a
\* page that showed "new" when it was pressed goes to it.
SaveReply(c) ==
    /\ c.op \in {"create", "update"} /\ c.st = "ok"
    /\ profiles' = [profiles EXCEPT ![c.id] = c.form]
    /\ route' = IF c.from = "new" THEN c.id ELSE route
    /\ loading' = loading
    /\ UNCHANGED <<stored, deleteTarget, edits, saves>>
    /\ Render(IF Asker(c) THEN SavedStudio(c) ELSE studio, calls \ {c}, FALSE)

\* The request or its answer is lost, or the server refused it.
SaveFails(c) ==
    /\ c.op \in {"create", "update"}
    /\ calls' = calls \ {c}
    /\ studio' = IF Asker(c) THEN [studio EXCEPT !.saving = FALSE] ELSE studio
    /\ unsure' = (unsure \/ c.st = "ok")
    /\ UNCHANGED <<stored, route, profiles, loading, deleteTarget, result, edits, saves>>

DeleteReply(c) ==
    /\ c.op = "delete" /\ c.st = "ok"
    /\ deleteTarget' = None /\ loading' = TRUE
    /\ UNCHANGED <<stored, route, profiles, edits, saves>>
    /\ Render(studio, (calls \ {c}) \cup {ListCall}, FALSE)

PageNext ==
    \/ \E to \in {"list", "new"} \cup Profiles : Navigate(to)
    \/ \E p \in Profiles : openClone(p) \/ AskDelete(p)
    \/ CancelDelete \/ remove \/ Rename \/ onSave
    \/ \E c \in calls : Serve(c) \/ LoadReply(c) \/ SaveReply(c) \/ SaveFails(c) \/ DeleteReply(c)

\* What one Studio does to its form.
FormNext ==
    \/ \E c \in calls : LoadReply(c)
    \/ SetMode \/ SetCapability \/ EditCommands \/ EditNetwork \/ applyPreset \/ onApply
    \/ \E line \in Lines : runTest(line) \/ ApplyRow(line)
    \/ \E h \in Targets : ApplyHost(h)

-----------------------------------------------------------------------------
(* RecentActivity: a poll every five seconds and one when the saved id     *)
(* changes; only the answer to the latest request is shown.                *)

\* Mutant: every answer is shown.
Shows_Any(id) == TRUE

Shows(id) == id = asked

LoadEvents ==
    /\ asked < MaxPolls
    /\ asked' = asked + 1
    /\ awaiting' = awaiting \cup {asked + 1}
    /\ UNCHANGED <<attached, panel, panelCalls, events>>

EventsReply(id) ==
    /\ id \in awaiting
    /\ awaiting' = awaiting \ {id}
    /\ events' \in {events, IF Shows(id) THEN id ELSE events}
    /\ UNCHANGED <<attached, panel, panelCalls, asked>>

(* AttachmentsPanel: open, or closed (the dialog unmounts it).  lost: a     *)
(* save reached the server that this panel has no answer to.                *)

PanelClosed == [open |-> FALSE, loading |-> FALSE, saving |-> FALSE, initial |-> {},
                selected |-> {}, lost |-> FALSE]

Sync(set) == [op |-> "sync", set |-> set, ours |-> TRUE, after |-> FALSE, st |-> "sent"]

\* connections.list, answered as of when it is sent; after: save awaits it.
Reload(after) == [op |-> "reload", set |-> attached, ours |-> TRUE, after |-> after, st |-> "ok"]

OpenPanel ==
    /\ ~panel.open
    /\ panel' = [PanelClosed EXCEPT !.open = TRUE, !.loading = TRUE]
    /\ panelCalls' = panelCalls \cup {Reload(FALSE)}
    /\ UNCHANGED <<attached, asked, events, awaiting>>

ClosePanel ==
    /\ panel.open
    /\ panel' = PanelClosed
    /\ panelCalls' = {[c EXCEPT !.ours = FALSE] : c \in {d \in panelCalls : d.op = "sync"}}
    /\ UNCHANGED <<attached, asked, events, awaiting>>

\* toggle and setAll; the rows are not shown while they load.
Select ==
    /\ panel.open /\ ~panel.loading
    /\ \E ids \in SUBSET Conns :
         ids # panel.selected /\ panel' = [panel EXCEPT !.selected = ids]
    /\ UNCHANGED <<attached, panelCalls, asked, events, awaiting>>

\* save.
SaveAttachments ==
    /\ panel.open /\ ~panel.loading /\ ~panel.saving /\ panel.selected # panel.initial
    /\ Cardinality({c \in panelCalls : c.op = "sync"}) < MaxSaves
    /\ panel' = [panel EXCEPT !.saving = TRUE]
    /\ panelCalls' = panelCalls \cup {Sync(panel.selected)}
    /\ UNCHANGED <<attached, asked, events, awaiting>>

\* The server replaces the set of connections that use the profile.
ServeSync(c) ==
    /\ c.op = "sync" /\ c.st = "sent"
    /\ attached' = c.set
    /\ panelCalls' = (panelCalls \ {c}) \cup {[c EXCEPT !.st = "ok"]}
    /\ panel' = [panel EXCEPT !.lost = @ \/ (panel.open /\ ~c.ours)]
    /\ UNCHANGED <<asked, events, awaiting>>

\* Mutant: save does not load the list again.
SyncReply_NoReload(c) ==
    /\ c.op = "sync" /\ c.st = "ok"
    /\ panelCalls' = panelCalls \ {c}
    /\ panel' = IF c.ours THEN [panel EXCEPT !.saving = FALSE] ELSE panel
    /\ UNCHANGED <<attached, asked, events, awaiting>>

SyncReply(c) ==
    /\ c.op = "sync" /\ c.st = "ok"
    /\ panelCalls' = (panelCalls \ {c}) \cup (IF c.ours THEN {Reload(TRUE)} ELSE {})
    /\ panel' = IF c.ours THEN [panel EXCEPT !.loading = TRUE] ELSE panel
    /\ UNCHANGED <<attached, asked, events, awaiting>>

ReloadReply(c) ==
    /\ c.op = "reload"
    /\ panelCalls' = panelCalls \ {c}
    /\ panel' = [panel EXCEPT !.loading = FALSE, !.initial = c.set, !.selected = c.set,
                              !.saving = IF c.after THEN FALSE ELSE @]
    /\ UNCHANGED <<attached, asked, events, awaiting>>

\* A request or its answer is lost.
PanelCallFails(c) ==
    /\ panelCalls' = panelCalls \ {c}
    /\ panel' = IF ~c.ours THEN panel ELSE
                [panel EXCEPT !.loading = IF c.op = "reload" THEN FALSE ELSE @,
                              !.saving = IF c.op = "sync" \/ c.after THEN FALSE ELSE @,
                              !.lost = @ \/ c.st = "ok"]
    /\ UNCHANGED <<attached, asked, events, awaiting>>

PanelInit ==
    /\ attached \in IF focus = "panels" THEN SUBSET Conns ELSE {{}}
    /\ panel = PanelClosed /\ panelCalls = {}
    /\ asked = 0 /\ events = 0 /\ awaiting = {}

PanelNext ==
    \/ LoadEvents
    \/ \E id \in awaiting : EventsReply(id)
    \/ OpenPanel \/ ClosePanel \/ Select \/ SaveAttachments
    \/ \E c \in panelCalls : ServeSync(c) \/ SyncReply(c) \/ ReloadReply(c) \/ PanelCallFails(c)

-----------------------------------------------------------------------------

vars == <<focus, pageVars, panelVars>>

Init == focus \in {"page", "form", "panels"} /\ PageInit /\ PanelInit

Next ==
    \/ focus = "page" /\ PageNext /\ UNCHANGED <<focus, panelVars>>
    \/ focus = "form" /\ FormNext /\ UNCHANGED <<focus, panelVars>>
    \/ focus = "panels" /\ PanelNext /\ UNCHANGED <<focus, pageVars>>

Spec == Init /\ [][Next]_vars

StudioType == studio = None \/ studio \in Studio

\* The lists and forms the page holds are lists and forms, and Studio is never at work
\* on a profile other than the one its key names.
GuardTypeOK ==
    /\ stored \in [Profiles -> StudioForm \cup {None}]
    /\ profiles \in [Profiles -> StudioForm \cup {None}]
    /\ StudioType
    /\ studio # None /\ studio.key \in Profiles => studio.savedId = studio.key
    /\ panel.selected \subseteq Conns /\ events \in 0..asked /\ awaiting \subseteq 1..asked

\* The badge "Saved" tells the truth: a Studio with an id and no unsaved change, and no
\* save under way, shows what the server has stored, or the profile was deleted, unless
\* the answer to a save was lost or came after its Studio was gone (Studio.tsx onSave), or
\* of two lists the older one was answered last (load of GuardProfilesPage).
SavedMeansStored ==
    /\ studio # None /\ ~unsure
    /\ studio.savedId # None /\ ~Dirty(studio)
    /\ \A c \in calls : c.op \notin {"create", "update"}
    => stored[studio.savedId] \in {studio.form, None}

\* What the editor read out of the line and the message is what the server refused: it
\* is not for "sudo nohup x", "X=1 x", a quoted name, the second call of a line, the code
\* of a bash -c, nor for an argument that holds a blank or a keyword that holds a sign.
ReadsAlike(line, v) ==
    /\ v.rule \in ByName \cup {"sql-not-allowed"} => extractCommandName(line) = v.program
    /\ v.rule = "arg-not-allowed" => ArgIn[v.program, v.word] = <<v.program, v.word>>
    /\ v.rule = "sql-not-allowed" => SqlIn[v.word] = v.word

\* The editor takes the target for what the server takes it for, as it does not for an
\* IPv6 address or a range; and no entry is reported under this name that was typed in
\* other letters.
ListsAlike(form, target, v) ==
    /\ v.rule = "not-in-whitelist" => (target \in Ipv4 <=> target \in Addresses)
    /\ v.rule = "blacklist:" =>
         \A x \in form.egress.hosts \cup form.egress.cidrs : Reported[x] = v.program => x = v.program

\* The fix offered for a blocked command or destination, applied to the rules that blocked
\* it, gets it past that rule, wherever editor and server read it alike: then the fixes
\* of suggestAllowCommand undo what guard.Evaluate refused, those for a capability in any
\* case, and the fixes of suggestAllowHost what EgressPolicy.Evaluate refused.
FixHelps ==
    studio # None =>
      /\ \A line \in Lines :
           LET v == CommandVerdict(studio.form, line)
           IN  HasAllowFix(line, v) /\ ReadsAlike(line, v) =>
                 CommandVerdict(suggestAllowCommand(studio.form, line, v), line) # v
      /\ \A h \in Targets :
           LET v == HostVerdict(studio.form, h)
           IN  v # Ok /\ ListsAlike(studio.form, h, v) =>
                 HostVerdict(suggestAllowHost(studio.form, h, v), h) # v

\* The list of recent activity never goes back to the answer of an earlier request,
\* whatever the order in which the polls are answered (reqIdRef of RecentActivity).
ActivityNeverGoesBack == [][events' >= events]_vars

\* When AttachmentsPanel has nothing to save, it shows the connections the server has
\* attached, unless an answer was lost or a save of an earlier panel came in.
AttachmentsSettle ==
    /\ panel.open /\ ~panel.loading /\ ~panel.saving /\ ~panel.lost
    /\ panel.selected = panel.initial
    => panel.selected = attached
=============================================================================
