# Verification of mantis: plan runs, chat generations and the web client

Mantis is a self-hosted agent: chat messages and plan nodes are answered by a
language model that works in sandboxes, and a web client shows and configures all
of it. This directory holds TLA+ modules of the parts of the program in which
concurrent steps meet on shared state: on the server the execution of plans and
the generation of chat answers, in the browser the screens whose requests are
answered late, out of order or not at all. TLC configurations check them on small
instances, and TLAPS proofs establish the most important safety properties for
every instance.

Paths below are relative to `src/`.

## 1. The system

### 1.1 Components

| Part | State | Operations | What makes it correct |
|---|---|---|---|
| Plan graphs (`apps/plans/runner.go`, pure functions) | none | validateGraph, findStartNodes, findNextNode, findEdgeTarget, parseDecision, initSteps, markStaleSteps, skipPending | a walk follows edges; steps are updated and never added |
| Plan runner (`apps/plans/runner.go`) | rows of `plan_runs`; the goroutine's copy of its run; the maps `cancels` and `done` | TriggerRun, execute, executeNode with retries, CancelRun, RecoverStaleRuns | whoever writes a row last, it is consistent; a run ends; a cancel takes effect |
| plan_create tool (`core/agents/tools.go`) | none | stepsToGraph | the runner walks the graph as the tool tells the agent |
| Plan scheduler (`apps/plans/app.go`) | cron entries | Start, syncPlans, executePlan | every enabled plan has one entry |
| Message workflow (`core/workflows/message`) | rows of `chat_messages` | Execute, Regenerate | a pending row has a generation |
| Request pipeline (`core/plugins/pipeline/pipeline.go`) | the generation's context, the buffer, the row | Execute, fail, classifyStop, finalizeMessage, saveMessage, cleanBuffer | every ending settles the row and cleans the buffer |
| Cancellation registry (`core/plugins/pipeline/cancellations.go`) | one entry per session | Begin, release, Cancel | Stop reaches the one live generation |
| Chat use cases (`apps/chat/use_cases`) | - | stop, regenerate, list with the sweep of stale rows, delete, clear | nothing deleted comes back, nothing stays pending |
| Session rows (policy, summarizer, titles) | rows of `chat_sessions` | ensure, compact, autoTitle, update, reset | no update is lost; no message falls between summary and history |
| Agent loop (`core/plugins/agent`) | the stream, the iteration | Execute | events in order, stream closed once |
| Artifacts (`shared/artifacts.go`) | files, quota, outgoing queue | Put, MarkToSend, TakeOutgoing, prune | quota respected; what is queued is sent |
| Telegram (`apps/telegram`, `infrastructure/adapters/channel`) | bots by id, batches, streamed messages | SyncBots, batching, sender | one bot per channel; each message handled once |
| Sandbox runtime (`apps/runtime`) | jobs, connection rows, containers | bootstrap, provision, health | a sandbox's row names the container that runs |
| Guard, egress, auth, configuration, metadata, gonka, logs, adapters, HTTP layer | small or none | - | - |
| Web shell (`frontend/src/App.tsx`, `components/ChatSidebar.tsx`) | user, needsSetup, open chat, route, list of sessions | sign in and out, boot, navigate, poll, rename, delete | no blank screen that waits for nothing; the sidebar catches up |
| Guard profile pages (`frontend/src/pages/guard-profiles`) | list, draft with its badge, tester, attachments, activity | edit, save, clone, delete, try, fix, toggle, poll | Saved is true; a fix gets past the verdict it was offered for, where editor and server read a command alike |
| AI engine page (`frontend/src/pages/llm`) | tables as last read, dialogs, rows being checked | load, limits, create, edit, remove, route | no row checks for ever; models go before their endpoint |
| Chat views (`frontend/src/pages/chat`, `WinXpChatWindow.tsx`) | messages, busy flags, position in the history | load, poll, older page, send, regenerate, stop, switch | no stuck button; nothing dropped comes back |
| XP desktop (`frontend/src/pages/chat-winxp`) | windows, their order and geometry, icons and their places | open, close, minimise, maximise, drag, resize, arrange, delete | stack and windows agree; maximised windows fill the screen; each icon has a place |
| Setup wizard (`frontend/src/pages/wizard`, XP `wizard-steps`) | step, draft, temporary connections, linked account | walk, load models, wallet requests, link, save, close | only complete drafts are saved, once; a temporary connection stays on the server only if a request failed; the account is the token's |
| Plans pages (`frontend/src/pages/PlansPage.tsx`, `components/plans`) | list, active plan, drawing, panel of runs | load, open, draw, save, toggle, delete, trigger | the drawing is the user's; the graph is sound |

`PROJECT.json` lists every component with its status and the reason where it is
left out, and every hazard with its line.

### 1.2 How they interact

`TriggerRun` creates a row in `plan_runs` and starts `execute` in a goroutine.
For each node `execute` calls `workflow.Execute`, which creates a user and an
assistant message in the run's session and starts the pipeline in a second
goroutine; `execute` waits on a channel the pipeline's `Finally` closes, or on
its own context. A chat message takes the same road from `SendMessage`, except
that its workflow has a cancellation registry: `Begin` cancels the session's
previous generation and takes its place. `StopGeneration` goes to `CancelRun` for
a session of a plan and to the registry for any other. The row of a message is
written by its pipeline, by the sweep in `ListMessages`, and by deletions; the
row of a run by its goroutine, by `CancelRun`, by `RecoverStaleRuns` and by the
cascade from `plans`. No writer locks a row; every update overwrites all of it.

In the browser every screen is sequential, but each request is a suspended
function that goes on when its answer comes: with the values it closed over, in a
component that may show something else by then or be gone. Screens are kept up to
date by polling, by reloading after a write and by effects that run again when
their inputs change. Screens share no state but the server's.

### 1.3 What is hard

Interleaved read-modify-writes of one row; a cancel that races registration,
completion, supersession or its own five-second timeout; store operations that
fail and are only logged; a restart that loses every goroutine and keeps every
row; sweeps and recoveries acting on what they read earlier; a bounded walk of
cyclic graphs; two pieces of code that interpret one graph. In the client:
answers that come late, in another order, to another screen, or are lost after
the server did the work; polls that overlap writes; sequences of requests that
fail halfway; effects that fire under an open editor; two implementations of one
rule, here and on the server. The `hazards` of `PROJECT.json` name the line where
each bites and the properties that cover it.

## 2. The modules

| Module | Models | Extends |
|---|---|---|
| `PlanGraph` | pure functions of the runner | - |
| `PlanRunner` | runs, cancels, recovery | `PlanGraph` |
| `PlanSteps` | stepsToGraph, walked with the runner's functions | `PlanGraph`, `Filters` |
| `ChatGeneration` | workflow, pipeline, registry, buffer, chat use cases | - |
| `WebShell` | App, LoginPage, router, ChatSidebar | `Filters` |
| `GuardRules` | rules of a guard profile, the fixes, and the server's verdict (`guard.go`, `core/types/egress.go`) | `Filters` |
| `GuardStudio` | the guard profiles page, its editor and panels | `GuardRules` |
| `LlmPage` | the AI engine page and the tables behind it | - |
| `ChatView` | the messages of ChatPage and WinXpChatWindow | `Filters` |
| `WinXpShell` | windows of the XP desktop | `Filters` |
| `DesktopIcons` | its icons | `Filters` |
| `SetupFlow` | what a setup wizard promises | - |
| `SetupWizard` | both shells of the wizard; instantiates `SetupFlow` | - |
| `TelegramStep` | linking an account, in both shells | - |
| `PlansPage` | the page of plans | - |
| `PlanCanvas` | the graph being drawn | `Filters` |
| `MCPlanRunner`, `MCPlanSteps`, `MCChatGeneration`, `MCWebShell` | instances for TLC | the above |
| `MCAdminPages` | `GuardStudio` beside `LlmPage` | both |
| `MCChatView` | `ChatView` beside `WinXpShell` | both |
| `MCScreens` | `SetupWizard`, `TelegramStep`, `DesktopIcons`, `PlansPage`, `PlanCanvas` side by side | all five |
| `Filters` | Array.prototype.filter, as positions that are kept | - |
| `FilterLemmas` | counting positions, repeating a step, and what filtering keeps: elements, order, uniqueness, length | `Filters`, TLAPS |
| `PlanRunnerProofs` | theorems about `PlanRunner` | `PlanRunner`, TLAPS |
| `PlanStepsProofs` | theorems about `PlanSteps` | `PlanSteps`, `FilterLemmas` |
| `ChatGenerationProofs`, `WebShellProofs` | theorems about the module each is named after | that module |
| `AdminPagesProofs` | theorems about `LlmPage` and `GuardStudio` | both, `FilterLemmas` |
| `ChatDesktopProofs` | theorems about `ChatView` and `WinXpShell` | both, `FilterLemmas` |
| `ScreensProofs` | theorems about `SetupWizard`, `TelegramStep`, `PlansPage`, `PlanCanvas` and `DesktopIcons` | all five, `FilterLemmas` |

Operators named `X_Something` with a comment that begins "Mutant" are faulty versions
of X that no specification uses: each breaks a property, which shows that the
property depends on the code X models.

### 2.1 PlanRunner

A step is one access to the run store, one critical section on `Runner.mu`, or
one wait. `row` is the table, `mem` the goroutine's copy, `csnap` and `rsnap` the
copies CancelRun and RecoverStaleRuns hold between their read and their write.
`pc` is the position in `execute`:

| `pc` | code |
|---|---|
| spawned, ensure | registration, `sessionPolicy.Execute` |
| top, mark | the checks at the head of the loop, `markStepRunning` |
| attempt, await | `executeNode`: `workflow.Execute`, the select and the read of the message |
| nodeError, stepDone | the error branch, the switch on the node's type |
| skip, finish | `skipPending` with its save, `finishRun` |
| unregister, close | the deferred function, before and after the unlock |
| done, dead | returned; killed by a restart |

The generation is `pipes` (alive) and `msg` (its outcome). It runs under a
context of its own, so a cancelled run may leave it behind: `PipelineEnds` is
independent of `pc`. A saved step list is a function from node ids to statuses;
results and time stamps are left out. Node ids are distinct: the editor and
plan_create generate them. The buffer's set of active sessions is changed right
after registration and right before the deregistration of the same goroutine and
is represented by `registered`.

### 2.2 PlanSteps

The state is one list of steps, the graph made of it, and the node a walk is at.
All lists within the bounds are initial states, so the invariants compare the
graph with the list for every list. A step has at most two edges; those of step i
are at 2i - 1 and 2i of `AllEdges`, and the ones that lead nowhere are filtered out.
`Meant` reads off the list which steps a reference may name: ids may clash with
each other and with the names n1, n2, ... of the nodes.

### 2.3 ChatGeneration

A generation is named by its assistant message. `pc` follows
`Workflow.Execute`/`Regenerate` (created), `RequestHandlePipeline.Execute`
(resolve, generate, classify, save, send) and the release of the registry's entry
(release, close). `cause` is the first thing that ended the generation's context;
`result` is how the stream ended and then what `classifyStop` made of it.
`ListMessages`, `RegenerateLast` and the deletions are split where they read and
where they write. `old` holds the messages older than `pendingTimeout`. Pages of
messages (20 in `RegenerateLast`, the client's limit in `ListMessages`) are longer
than any session of the model. What the pipeline does between the stream and the
save (token counts, files, memory) touches other state.

### 2.4 The web client

All modules of the client treat requests alike. A handler is cut where it awaits:
one action up to the request, which puts a record in a set (`calls`, `asks`,
`loads`, `requests`), and one for the answer, which takes any record out of it:
answers come in any order. A record holds what the closure read and, for a
reading, what the server had when it was asked. A writing is done when it is sent
or when it is served; where a property depends on it the model has both kinds of
failure, refused and done with the answer lost (saves and attachments of the guard
pages, removals of the AI engine page, temporary connections of the wizard). A component that is gone keeps its requests and
none of its state. React's batching makes the assignments of one handler, and the
effects that follow from them, one step.

* `WebShell`: `user`, `needsSetup`, `activeSessionId` and the route are variables;
  `Screen` is what App renders. `BootEffect` is the effect that finds or creates
  the first chat; any 401 runs `SignOut`.
* `GuardRules` and `GuardStudio`: a form is a record of capabilities, rules and
  the egress policy. A command line is read twice by the program: the server parses it
  as a shell does (`checkCommand`, `checkCallExpr`), the editor splits it at the blanks
  (`extractCommandName`) or reads the message of the verdict. So it has two parts with no
  relation assumed between them: `words`, and `steps`, what the server checks in turn,
  constructs, wrappers, calls and queries. `ArgIn` and `SqlIn` are what the editor's
  expressions find in a message; `Ipv4` are the targets that its expression takes for an
  address, `Addresses` those that net.ParseIP does; `Matched` are the entries that stand
  for a target, `Reported` is how a verdict spells an entry. `Reread` is
  what saving and loading make of a form. Studio is mounted under a key, and
  keeps its draft as long as the key stays.
* `LlmPage`: `engine` is the server's four tables, `page` the component's state.
  `removeEndpoint` is a request that works off the models listed when it was
  confirmed, one deletion per step.
* `ChatView`: `kind` says whether the page or the window is modelled; the merges
  of answers into the list are those of each. Message ids grow with createdAt.
  `dropped`, for the property only, holds the answers that a regeneration took out of
  a view in which nothing was pending (section 4 says why the others are not in it).
* `WinXpShell`: windows of all kinds are ids; `zStack`, `open`, `minimized`,
  `maximized`, `geo` and `prevs` are the states that the code keeps per kind.
* `DesktopIcons`: a place is the set of grid cells an icon covers there.
* `SetupWizard`: a field is whether it holds what the buttons ask for. `Effects`
  are the effects that follow a change of step or form; `loads` are the calls of
  loadModels, each with its temporary connection in `temps`. `lost`, for the property
  only, holds those whose creation was not answered or whose deletion failed, which
  loadModels swallows: they stay on the server.
* `TelegramStep`: a bot stands for the token it was verified with. `LeaveStep` and
  `EnterStep` are Back and Next: the step is unmounted, its bot and `ignored` are gone, and
  a new mount verifies the token in the field. `linkedAt` is what the server remembers
  (`apps/telegram/use_cases/wizard.go`), `Forgets` its clean-up. `linkedOf`, `gaveUp` and
  `leftSince` record, for the properties only, the token an account was reported for, the
  account that a Re-link gave up, and whether the step was left since.
* `PlansPage`: a graph is a token; `PlanCanvas` has the graph itself, its ids and
  the counter they come from.

Lists that the code filters (sidebar rows, the stack of windows, the rules of a
form, nodes and edges, the steps of the wizard, the messages that stay in view) are filtered with `Kept(list, set)` of
`Filters`, which names the positions that stay: `SelectSeq` has no
definition that the proof system can expand.

`SetupFlow` is the abstract specification: a wizard is open, saving, done, closed,
or closed while saving; it submits only a complete draft. `SetupWizard` implements
it with `Stage` and `Complete`, whichever path the steps take (`ImplementsSetupFlow`).
A resumed wizard skips the steps that are done and is mapped to a complete draft.

## 3. The runs

| Run | Instance | Question |
|---|---|---|
| `plan_safety` | 1 run of 6 graphs, 2 cancellers, 3 transitions, 1 fault, 1 restart | is the row consistent whoever writes it? |
| `plan_live` | the same graphs, 1 canceller, 1 restart | does a run end, and does a cancel free the runner? |
| `plan_cancel_sticks` | 2 graphs, 1 canceller | **violated**: a recorded cancel can be forgotten |
| `plan_steps` | all lists of 1 to 3 steps, an id that clashes with a name, 5 references | does the runner follow the list? |
| `plan_steps_end` | the same | **violated**: a branch to `end` does not end |
| `chat_registry` | 3 generations of a session, 1 stopper, 1 fault | does Stop reach the live one and wait for its row? |
| `chat_races` | 2 generations, regenerate, sweep, deletion, 1 fault, 1 restart | do rows stay owned and deleted rows deleted? |
| `chat_live` | 2 generations in a chat and a plan session, 1 restart | does every answer settle? |
| `web_shell` | 2 chats and one of a plan, 2 acts or failures | does a blank screen wait for something, and does the sidebar catch up? |
| `admin_pages` | 2 profiles, 3 programs, 4 command lines, a host name, an IPv4 and an IPv6 address; 2 endpoints, 2 models, 1 profile, 2 writings | is Saved true, do fixes help, do panels settle; do spinners end, do models go before their endpoint? |
| `chat_view` | 2 sessions, 4 messages, pages of 2, 1 poll under way in the page and 2 in the window; 2 chat windows, a terminal, notepad, wizard, 2 viewports | are buttons busy exactly while a request is out, does a dropped answer stay away; do stack, windows and viewport agree? |
| `screens` | both modes of the wizard, 2 loads, 1 lost answer; 2 tokens and accounts, 2 answers under way; 3 icons on 3 cells; 1 plan and a new one; 2 nodes and edges | does the wizard implement SetupFlow and clean up what it can; is the account the token's and does one that was given up stay away; does each icon have a place; is the drawing the user's and sound? |

Runs that check several screens have a variable (`focus`, `screen`) that says
which of them a behaviour is about; the others stay in one initial state, so the
state spaces are added, not multiplied. Screens share nothing but the server, and
what another screen does there is in each module's own actions.

Deadlock is not checked: all runs may be over and nobody has to trigger, send or
cancel anything, a screen may be left for good, and the bounds on what users do
run out; that work in progress continues is what the liveness runs check.

### 3.1 Bounds and why they are enough

* Runs share nothing but the plan they belong to, and every property speaks of
  one run, so one run is enough for TLC; the proofs are for any number.
* The graphs are chosen for the branches of the code: a loop, a decision
  with two ends, a retry and a negative retry count, a dangling edge reached by
  fallback, a ring without a start node, an unknown node type, and a graph
  that validation refuses. `MaxTransitions = 3` (50 in the code) is less than a
  walk of the loop may need and more than the branches need.
* Two cancellers: one may overwrite what the other or the goroutine wrote.
* One fault and one restart suffice for every pair of a lost write and a later
  writer; two of them only repeat the same situations.
* Three generations of one session are the least in which a generation is
  superseded while the one before it is still winding down; sessions do not share
  state except through deletion.
* Three steps are the least with a step before, at and after a decision.
* Generations and cancellers are interchangeable, so the safety runs use
  symmetry; the liveness runs do not.

* In the client, two requests of a kind are the least that overtake each other,
  and two tokens, sessions, endpoints, profiles or viewports the least that can be
  mistaken for one another. `MaxActs`, `MaxEdits`, `MaxSaves`, `MaxWrites` bound
  what the user does, not what is answered. `MaxSaves = 3` for the guard pages: a
  profile that is saved twice while the list that was asked for after its first save
  is still under way is the least in which an older list is answered last.
* Pages of two messages, of four, make an older page, and a poll that overlaps
  both the page and a new message. Only the window cancels polls, and two of them
  are the least of which one brings something pending into view while the other
  carries what a regeneration dropped. The page begins with a chat that has
  messages, the window also with an empty one.
* Three cells for three icons fill the grid, so that a newcomer meets a dropped
  icon that covers two cells.
* Lines to try: a wrapper that both readings skip (`sudo ls w`), two queries of an SQL
  client, `sudo nohup ls`, of which the editor takes nohup for the program, and a
  `bash -c` whose code has a pipe and an argument with a blank, of which it sees nothing.
  A host is listed in two spellings. The three capabilities of the wrappers and of the
  shell are missing in one of the stored profiles and there in the other. Each of the
  five clauses of `ReadsAlike` and `ListsAlike` is needed: without it the run fails.
* `MaxLost = 1`: what is lost stays lost, so a second one adds nothing to the first.
  Of the resumed wizards that have steps to skip, the run takes those that skip the
  choice of the provider or the openai step, with others or alone; the proofs are for all.
* The Telegram step begins with or without a token, with an account already linked, and
  skipped or not; it may be left and entered any number of times.
* `MaxEdges = 2` is less than a decision with a third way out needs, so that clause of
  `DrawnGraphIsSound` cannot fail in the run; the theorem covers it.
* Chats and viewports of the desktop are interchangeable (symmetry).

### 3.2 Fairness

`PlanRunner.LiveSpec`: goroutines that can take a step do (`Execute`,
`CancelRun`), and start-up lists and writes the stale runs. That a pipeline ends
(`PipelinesEnd`, justified by `limits.PlanStepTimeout`, under which it runs) is
assumed only by `RunsSettle`; `CancelReleasesRunner` holds without it.

`ChatGeneration.LiveSpec`: pipelines go on (each call is bounded by `in.Timeout`),
time passes, and somebody lists the messages of a session now and then: the chat
window polls `listMessages` (`frontend/src/pages/chat-winxp/WinXpChatWindow.tsx`).
Without a reader nothing settles the row of a generation that died with its
process; that is the design, and the reason the assumption is stated. Store
operations do not fail in the liveness runs: after a failed save of the last
status nothing in the program tries again until a restart or a listing.

`WebShell.LiveSpec`: a request in flight is served and answered, or fails, and the
sidebar's interval goes on firing while it is mounted (`setInterval` in
ChatSidebar). `SidebarCatchesUp` says nothing of a user who keeps leaving.

The other client modules are checked for safety only. Their "eventually" is
stated as a state in which somebody owes an answer (`SpinnersEnd`,
`BusyMeansInFlight`, `BlankIsWaiting`): the browser ends every request.

Nobody is obliged to trigger, send, cancel, stop, regenerate, delete or crash.

## 4. What the checks found

1. A cancel that arrives between the creation of a run's row and the registration
   of its goroutine is written to the row and then overwritten: the run completes
   (`plan_cancel_sticks`).
2. In a plan made by plan_create, a branch to `end` follows the other branch's edge
   (`plan_steps_end`).

Everything else that the runs state holds. Known divergences that the models
reproduce and no run keeps checking:

* An omitted NO branch goes on to the next step, where plan_create says that it
  ends (`core/agents/tools.go:911`; `OmittedNoEnds` of `PlanSteps`), and a branch
  back to the first step makes a plan that cannot start (`PlanCanStart`).
* The sweep of stale messages waits ten minutes and generations may take fifteen,
  so a live one is shown as failed and can be regenerated
  (`RegeneratesOnlyFinished` of `ChatGeneration`).
* A plan node stopped by `MANTIS_PLAN_STEP_TIMEOUT` reports
  `MANTIS_SUPERVISOR_TIMEOUT` (`MarkerNamesTheLimit`).
* Deleting a profile says "Routing slots using this profile will reset to none."
  (`frontend/src/pages/llm/LlmPage.tsx:466`), but neither the page nor the server
  touches the routing: the settings keep the id (`removeProfile` of `LlmPage`).

* In the XP wizard the account that a Re-link gave up is to be ignored "until a DIFFERENT
  account sends the code" (`frontend/src/pages/chat-winxp/wizard-steps/TelegramStep.tsx:22`).
  Its id is kept by the step, which Back unmounts: after Re-link, Back and Next the token is
  verified again, nothing is ignored, and the server's answer links the account again by
  itself (`LeaveStep`, `EnterStep`; the exception of `GivenUpStaysGivenUp`).

The editor of guard profiles and the server read a command and a destination with parsers of
their own, and the fix misses what was refused where they differ (the exceptions of
`FixHelps`, named by `ReadsAlike` and `ListsAlike`):

* a fix about a program is for the first word, or the second after one sudo or nohup: for
  `sudo nohup x`, `X=1 x`, a quoted name, the second call of a line and the code of a
  `bash -c` that is another program than the one refused. The fix of an SQL
  keyword may so add a rule of a program it was not meant for, and turn a rule that
  allowed the program with any argument into one that does not;
* a fix about an argument is read out of the message: an argument that holds a blank is
  split at its last blank, and a keyword with a sign in it is cut off;
* an IPv6 address is put among the host names, where the server never looks for
  one; `10.0.0.0/8` as a target goes to the ranges, and the server takes it for a name.
  The fix of a closed network puts an address among the host names too;
* a blacklisted host that was typed with capitals is reported in small letters
  (`core/types/egress.go:150`) and not found in the list to be removed.

Weaknesses of the client that no document speaks of, and which the models allow:
the temporary connection of the setup wizard stays on the server when its deletion fails,
which is swallowed, or when its creation was done but not answered
(`frontend/src/pages/wizard/SetupWizard.tsx:80` and `:86`, `useWizardController.ts:83` and `:104`);
of two quick changes of the routing the server keeps one (`updateRouting`); of two
lists of guard profiles that overlap, the one answered last is shown, even if it is the
older one, and a profile opened from it is marked Saved (`LoadReply` of `GuardStudio`); in
the XP window an answer that was regenerated may be shown again by a poll, until the next
one, when a message sent elsewhere came into view, pending, before the answer to the
regeneration: the effect that cancels polls runs when something becomes pending, and
something already was (`Cleanup` of `ChatView`); the answer of a save closes
whatever dialog of its kind is open then (`WriteReply`); a model added elsewhere survives the removal of its endpoint; Save on a plan that
was never saved, pressed twice, stores it twice; toggling a plan in the list
writes the whole plan back as it was listed; the answer to a trigger leads to the
run's chat wherever the user is by then.

## 5. The proofs

The safety properties that the passing runs check are also theorems, for every set of
runs, plans, graphs, callers, generations, sessions, windows, profiles and tokens and
every bound on transitions, faults, restarts, requests and user actions. What is only
model-checked is named at the end of this section.

Assumptions: `RunnerAssumption` (the bounds are natural numbers; a graph is two
sequences with known node types and distinct, non-empty node ids) and
`GenerationAssumption` (the sets are as their names say, and `None` is neither a
generation nor a session); `StepsAssumption` (the names of the nodes differ, and none is
`NoNode`); `LlmAssumption` (no id is `NoId`, and the tables to
begin with are tables), `LinkAssumption` (`Nothing` is no token and no user, the bound is a number), the
`ShellAssumption`s (`Placed` is no viewport, the ids of windows differ; the lists of
sessions to begin with are lists), `RulesAssumption` and `StudioAssumption` (what was
stored is a form or nothing, lines are words and steps, what the editor finds in a
message is a program with an argument or a keyword, a target is matched by itself among
others, and `None` and the keys of Studio are no profiles), `SetupAssumption`,
`PlansAssumption` (the special plans are no plans), `CanvasAssumption` (plans were
stored with sound graphs), `ViewAssumption` (pages and polls ask for some messages, and
`None` is neither a session nor a message) and `IconsAssumption` (the grid has a cell, and
places are sets of cells). TLC evaluates each of them in the runs of its module.

* **Rows of runs** (`PlanRunnerProofs`). That a settled row has no running step
  does not follow from itself: the next writer might hold a bad copy. The
  invariant `MemInv` relates the goroutine's copy to its position (while it walks,
  every step but the current one is pending or completed; at `finish` none is
  running, and all are completed or skipped if the verdict is completed), and `RowsAreGood` says of the row and of every
  copy a writer holds that it is good whatever its status. Every write then is
  either the goroutine's copy or `markStaleSteps` of a copy, which is good for any
  argument.
* **Registry of runs** (`PlanRunnerProofs`). `RegistryInv` ties the
  registration to the position, `SettledInv` says that without faults a goroutine
  past `finishRun` has a terminal row and that only such goroutines have a closed
  channel, `PipeInv` counts the generations by position.
* **Walks** (`PlanRunnerProofs`). `CopiesFollow` and `WalkFollows`: every copy is a
  walk and the current node is led to by it; the induction uses that no step goes
  from executed back to pending. `BoundInv` bounds transitions and attempts.
* **plan_create** (`PlanStepsProofs`). The graph never changes (`GraphInv`), so the
  theorems are about the function that makes it. `Slots` says which step a slot
  of `AllEdges` belongs to, `GraphEdges` that the graph has the slots that lead to a step,
  `OutOfStep` which edges leave a node; so a branch that names a step is the only edge of
  its node with its label (`BranchIsFollowed`). The runner falls back on another edge
  only when the branch itself leads nowhere, which is where the tool and the runner part.
* **Chat** (`ChatGenerationProofs`). `RegistryInv` for Stop, `CallsOK` for the
  callers' local variables; `RowSteps` shows that a row once created is only ever
  left alone, settled or deleted, from which `DeletedStaysDeleted` and
  `PendingHasOwner` follow; `DoneInv` connects a caller that saw the channel
  closed with a finished generation, and with `PendingHasOwner` gives
  `StoppedMeansSettled`.

* **Filtered lists** (`FilterLemmas`). The k-th position of a finite set exists and the
  positions are counted in their order: the least number with k positions at or below
  it is one of them (well-foundedness of < on Nat stands in for induction). From this
  follow what `Kept` has, its order, its length, and that what was there once stays
  there once.
* **Web shell** (`WebShellProofs`). `BlankIsWaiting` and `NoChatMeansOpening` need the
  types of every request in flight (`CallsOK`: the rows an answer brings are sessions
  the server gave an id, and a request failed only if a failure was counted) and
  `Asked`: what App does not know yet is being asked for. Each answer that ends one wait
  either settles it or starts the next, through the effects that `Render` runs.
* **AI engine page** (`AdminPagesProofs`). `SpinnersEnd` is inductive once a page that
  was left is known to check nothing (`AwayIsIdle`). `ListedModelsGoFirst` needs
  `PassedAreGone`: what a removal has passed is gone. It survives other writings
  because a model that is gone is never updated and its id is not given again, and
  because only `RemoveLast` shrinks the table of endpoints.
* **Guard profiles** (`AdminPagesProofs`). `SavedMeansStored` rests on `SavedInv`: a save
  that will be answered to a Studio is the one save the mounted Studio waits for
  (`Linked`), and a form in the list or a baseline is what the server has, was deleted,
  or has been replaced by a save whose answer is still to come (`Known`, `Served`). Proving
  it showed a case that smaller bounds had hidden: when two lists are under way and the
  older one is answered last, Studio is opened with a form the server has replaced. The
  property names this exception, and the model records it (`Outdated`). `AttachInv` says that the panel has at most one request
  of its own, and in which of its states that request is a save or a reload.
  `FixHelps` needs no invariant but the type of the form: it follows from what
  `addCommandRule`, `AddWord` and the fixes of the capabilities make of any form, and
  from which rule the server's verdict names (`CommandFix`, `HostFix`). Lines may be any
  pair of a word list and a step list: the first step that is refused is found with
  `Nth`, and a form that changes the verdict of that step changes the verdict of the line. The order of answers makes
  `ActivityNeverGoesBack` inductive with the numbers of the polls.
* **Chat views** (`ChatDesktopProofs`). `BusyMeansInFlight` is inductive once each
  button is held by at most one request (`HeldOnce`): an answer that releases a button
  then leaves none that still holds it. `DroppedStaysDropped` needs `WindowInv`: a live
  poll of the window carries no dropped message unless it is still there. Dropping one
  makes the view pending, which cancels every poll sent before; and a dropped message that
  is still there stays, because the server removes only its newest message and something
  newer than the dropped one exists (`Passed`). A message that is created later has a new
  id. `SortedIsList`, `MergeIds` and `ListedIds` say what the sorted and merged lists
  contain, `NewestIsLast` which message the server takes for its last.
* **Windows** (`ChatDesktopProofs`). `MaximizedFills` is inductive with the types of
  the geometry and the viewport; the assumption that `Placed` is no viewport is what
  separates a window that was restored from one that fills the screen. `StackInv` says
  that the stack is a list without repetition of the windows on screen; `KeptOnce` and
  `OnceCounts` turn this into the two conjuncts of `StackIsShown`.
* **Wizard** (`ScreensProofs`). `SubmitInv` states the submission as a set that
  is empty or a singleton, from which the bound on its cardinality follows.
  `TempsAreAccountedFor` is inductive with the shape of a load's record: the number
  in it stays while its state moves on, and only the deletion takes it away. A load that
  ends otherwise puts its connection in `lost` or never had one; a new load takes a number
  that no connection has.
* **Refinement** (`ScreensProofs`). Every step of the wizard is a step of `SetupFlow` or
  leaves `Stage` and `Complete` alone. That only a complete draft is submitted is the
  point: `DraftInv` says that a full wizard in one of its late steps has a complete
  draft, which `goNext` establishes step by step and no edit possible there undoes.
* **Telegram** (`ScreensProofs`). `LiveAnswersAreCurrent`: a status answer that
  still counts was asked for with the token in the field and passes over the account
  that the step ignores now; retyping, giving an account up and leaving the step cancel
  the rest. `GivenUpIsIgnored`: in the XP shell that is the account of the last Re-link as
  long as the step was not left, so no answer that counts can bring it.
* **Plans pages** (`ScreensProofs`). `DrawingIsTheUsers` is an action property; its
  invariant gives the types of the editor and of the answers that still belong to it.
* **Canvas** (`ScreensProofs`). `CanvasInv` adds to `DrawnGraphIsSound` that the counter
  is at or above every id. A node takes the next number, so its id is new and, since
  edges join nodes that are there, it has no edges; filtering maps the ways out of a
  node injectively into those it had; the greatest id exists because a list is finite.
* **Icons** (`ScreensProofs`). `IconsInv` says that positions and what was stored are
  functions to places. Laying out is a recursive function of the number of icons laid;
  that the k-th value covers the first k icons is proved with `Climbs` and `Iterates`
  of `FilterLemmas`: induction stated for a set of numbers, which needs no operator for a
  parameter.

The strengthened invariants were checked with TLC before they were proved, those of
the server's modules on `plan_safety`, `PageOK` and `SavedInv` on `admin_pages`, `WindowInv` on `chat_view`.

Only model-checked:

* the liveness properties: fairness is beyond the prover;
* the two violations, whose counterexamples are behaviours.

## 6. Not modelled

Text (prompts, markers' wording, histories), the HTTP layer, adapters to models,
Docker, DNS, the firewall and the chain, and one-statement metadata operations
have no interleaving of their own to check.

Stateful parts of the server that are left out: session rows and their compaction,
the agent loop with its stream and ticker, artifacts, the table of Telegram bots
and the batching of messages, the login rate limiter, provisioning. They share
state by read-modify-write or by timers, and no document says what should win, so
there is little to hold them to; `ChatGeneration` treats the loop as a generation
that ends in one way or another.

Of the client: pages that load a list, edit one row in a dialog and load again
(hosts, skills, channels), which is a part of what `LlmPage` models; the rendering
of messages, logs and markdown; the list of runs with its messages, cron texts
and parameters; suggestions, speech and attachments of the composer.

## 7. Plan

1. `PlanGraph`, `PlanRunner`, `PlanSteps`, their runs and proofs - done.
2. `ChatGeneration`, its runs and proofs - done.
3. The web client: shell, guard profiles, AI engine, chat views, XP desktop, setup
   wizard with its abstract specification, plans - done.
4. Proofs about the client: `LlmPage`, `GuardStudio`, `WebShell`, `ChatView`,
   `WinXpShell`, `SetupWizard` and its refinement, `TelegramStep`, `PlansPage`,
   `PlanCanvas` - done.
5. `PlanSteps` with its edges by positions, `DesktopIcons` with an induction over sets,
   and the window of `ChatView` - done: every safety property that a passing run checks
   is a theorem.
6. Left: the chain of a refinement on the server, a run as its row promises it
   (scheduled, running, settled) that `PlanRunner` implements; `ViewTypeOK` and the other
   type invariants that no theorem needed.
