---------------------------- MODULE ChatGeneration ----------------------------
(***************************************************************************)
(* The generations of assistant messages: the message workflow starts one  *)
(* per message (core/workflows/message), the request pipeline runs it      *)
(* (core/plugins/pipeline/pipeline.go), the cancellation registry keeps    *)
(* one entry per session (cancellations.go), and the chat use cases stop,  *)
(* regenerate, list and delete messages meanwhile (apps/chat/use_cases).   *)
(*                                                                         *)
(* A generation is named by its assistant message.  A step of the model is *)
(* one access to the message store, one critical section on the registry's *)
(* lock, one change of the shared buffer, or one wait.  What the agent     *)
(* says is abstracted to how it ends; what the pipeline does between the   *)
(* end of the stream and the save (artifacts, token counts) touches other  *)
(* state and is left out.                                                  *)
(***************************************************************************)
EXTENDS Integers, Sequences

CONSTANTS
  Gens,          \* assistant message ids (uuids)
  Sessions,
  PlanSessions,  \* sessions of plan runs: their workflow has no registry
  Stoppers,      \* concurrent callers of StopGeneration
  Callers,       \* concurrent callers of RegenerateLast
  Aging,         \* messages that may get older than pendingTimeout
  DeleteScopes,  \* sets of sessions deleted by one call
  MaxFaults,     \* bound: store operations that fail
  MaxCrashes,    \* bound: restarts of the process
  None

ASSUME GenerationAssumption ==
  /\ PlanSessions \subseteq Sessions
  /\ Aging \subseteq Gens /\ DeleteScopes \subseteq SUBSET Sessions
  /\ MaxFaults \in Nat /\ MaxCrashes \in Nat
  /\ None \notin Gens /\ None \notin Sessions

VARIABLES
  session,       \* the session of a generation
  msg,           \* chat_messages: the status of the assistant's row
  log,           \* assistant messages in the order of created_at
  asked,         \* generations whose question, the user's row, exists
  old,           \* messages older than pendingTimeout (10 minutes)
  pc,            \* where the generation's goroutine is
  result,        \* how the agent's stream ended; then what was made of it
  cause,         \* why the generation's context ended, the first cause
  entry,         \* Cancellations.entries
  closed,        \* generations whose entry's done channel is closed
  buf,           \* Buffer.data
  spc, sgen,     \* StopGeneration calls in progress
  gpc, gold, gsess,   \* RegenerateLast calls in progress
  sweep,         \* ListMessages: copies about to be written as stale
  doomed,        \* DeleteSession, ClearHistory: ids about to be deleted
  faults, crashes

store == <<msg, log, asked, old>>
task == <<pc, result, cause>>
registry == <<entry, closed>>
stopVars == <<spc, sgen>>
regenVars == <<gpc, gold, gsess>>
callers == <<stopVars, regenVars, sweep, doomed>>
vars == <<session, store, task, registry, buf, callers, faults, crashes>>

Settled == {"ok", "error", "cancelled"}
PC == {"none", "created", "resolve", "generate", "classify", "save", "send", "release",
       "close", "done", "dead"}

\* Between Begin and the release of the registry entry.
Begun == {"resolve", "generate", "classify", "save", "send", "release"}
\* The answer is still being made.
Generating == {"resolve", "generate", "classify", "save"}

Goto(g, label) == pc' = [pc EXCEPT ![g] = label]
StoreFails == faults < MaxFaults /\ faults' = faults + 1

\* Ending a context: only the first cause counts (ctx.Err()).
EndContext(g, why) == [cause EXCEPT ![g] = IF @ = "none" THEN why ELSE @]

\* Mutant of Update: an upsert.
Update_Inserts(g, s) == [msg EXCEPT ![g] = s]

\* Postgres.Update: WHERE id = ...; no row, no effect and no error.
Update(g, s) == [msg EXCEPT ![g] = IF @ = "absent" THEN "absent" ELSE s]
-----------------------------------------------------------------------------
Init ==
  /\ session = [g \in Gens |-> None]
  /\ msg = [g \in Gens |-> "absent"]
  /\ log = <<>> /\ asked = {}
  /\ old = {}
  /\ pc = [g \in Gens |-> "none"]
  /\ result = [g \in Gens |-> "none"]
  /\ cause = [g \in Gens |-> "none"]
  /\ entry = [s \in Sessions |-> None]
  /\ closed = {}
  /\ buf = {}
  /\ spc = [c \in Stoppers |-> "idle"] /\ sgen = [c \in Stoppers |-> None]
  /\ gpc = [c \in Callers |-> "idle"]
  /\ gold = [c \in Callers |-> None] /\ gsess = [c \in Callers |-> None]
  /\ sweep = {} /\ doomed = {}
  /\ faults = 0 /\ crashes = 0

(***************************************************************************)
(* Workflow.Execute and Workflow.Regenerate: the rows are created, the     *)
(* assistant's as pending; then Begin registers the generation and the     *)
(* goroutine starts.                                                       *)
(***************************************************************************)
CreatePending(g, s) ==
  /\ pc[g] = "none"
  /\ session' = [session EXCEPT ![g] = s]
  /\ msg' = [msg EXCEPT ![g] = "pending"]
  /\ log' = Append(log, g)
  /\ Goto(g, "created")

Send(g, s) ==
  /\ CreatePending(g, s)
  /\ asked' = asked \cup {g}
  /\ UNCHANGED <<old, result, cause, registry, buf, callers, faults, crashes>>

\* Cancellations.Begin, one critical section: the previous generation of
\* the session is cancelled, not waited for.
Begin(g) ==
  /\ pc[g] = "created"
  /\ LET s == session[g] IN
     IF s \in PlanSessions THEN UNCHANGED <<entry, cause>>
     ELSE /\ entry' = [entry EXCEPT ![s] = g]
          /\ cause' = IF entry[s] = None THEN cause ELSE EndContext(entry[s], "user")
  /\ Goto(g, "resolve")
  /\ UNCHANGED <<session, store, result, closed, buf, callers, faults, crashes>>
-----------------------------------------------------------------------------
(***************************************************************************)
(* RequestHandlePipeline.Execute.                                          *)
(***************************************************************************)
\* The deadline of in.Timeout passes.
Expire(g) ==
  /\ pc[g] \in {"resolve", "generate", "classify"}
  /\ cause[g] = "none"
  /\ cause' = EndContext(g, "deadline")
  /\ UNCHANGED <<session, store, pc, result, registry, buf, callers, faults, crashes>>

\* modelResolver; without a model the pipeline fails before it has a buffer.
ResolveModel(g) ==
  /\ pc[g] = "resolve"
  /\ \/ Goto(g, "generate") /\ buf' = buf \cup {g} /\ UNCHANGED result
     \/ Goto(g, "classify") /\ result' = [result EXCEPT ![g] = "error"] /\ UNCHANGED buf
  /\ UNCHANGED <<session, store, cause, registry, callers, faults, crashes>>

\* collectStream: the last error event decides, and one of the errors is the
\* limit on iterations.
Outcomes == {"ok", "error", "maxIterations"}

\* Compaction, the agent's stream, and the one retry after an overflow.
Generate(g) ==
  /\ pc[g] = "generate"
  /\ \E o \in Outcomes : result' = [result EXCEPT ![g] = o]
  /\ Goto(g, "classify")
  /\ UNCHANGED <<session, store, cause, registry, buf, callers, faults, crashes>>

\* classifyStop: a stopped generation is remembered by its marker, which
\* names the limit that stopped it, or the user.
Limits == {"MANTIS_SUPERVISOR_TIMEOUT", "MANTIS_PLAN_STEP_TIMEOUT",
           "MANTIS_SUPERVISOR_MAX_ITERATIONS"}

Classify(g) ==
  CASE cause[g] = "deadline" -> "MANTIS_SUPERVISOR_TIMEOUT"
    [] cause[g] = "user" -> "user"
    [] cause[g] = "none" /\ result[g] = "maxIterations" -> "MANTIS_SUPERVISOR_MAX_ITERATIONS"
    [] OTHER -> result[g]

\* finalizeMessage.
Status(o) == IF o \in {"ok", "error"} THEN o ELSE "cancelled"

Finalize(g) ==
  /\ pc[g] = "classify"
  /\ result' = [result EXCEPT ![g] = Classify(g)]
  /\ Goto(g, "save")
  /\ UNCHANGED <<session, store, cause, registry, buf, callers, faults, crashes>>

\* Mutant of SaveMessage: the save runs under the generation's context.
SaveMessage_UnderContext(g) ==
  /\ pc[g] = "save"
  /\ msg' = IF cause[g] = "none" THEN Update(g, Status(result[g])) ELSE msg
  /\ Goto(g, "send")
  /\ UNCHANGED <<session, log, asked, old, result, cause, registry, buf, callers,
                 faults, crashes>>

\* saveMessage: an error of the store is logged and forgotten.
SaveMessage(g) ==
  /\ pc[g] = "save"
  /\ \/ msg' = Update(g, Status(result[g])) /\ UNCHANGED faults
     \/ StoreFails /\ UNCHANGED msg
  /\ Goto(g, "send")
  /\ UNCHANGED <<session, log, asked, old, result, cause, registry, buf, callers, crashes>>

\* Mutant of SendAndClean: a failed generation leaves its buffer behind.
SendAndClean_OnlyOk(g) ==
  /\ pc[g] = "send"
  /\ buf' = IF result[g] = "ok" THEN buf \ {g} ELSE buf
  /\ result' = [result EXCEPT ![g] = "none"]
  /\ Goto(g, "release")
  /\ UNCHANGED <<session, store, cause, registry, callers, faults, crashes>>

\* send, cleanBuffer, then the deferred Finally; the Result is dropped.
SendAndClean(g) ==
  /\ pc[g] = "send"
  /\ buf' = buf \ {g}
  /\ result' = [result EXCEPT ![g] = "none"]
  /\ Goto(g, "release")
  /\ UNCHANGED <<session, store, cause, registry, callers, faults, crashes>>

\* Mutant of Release: the entry is deleted whoever owns it.
Release_AnyOwner(g) ==
  /\ pc[g] = "release"
  /\ entry' = [entry EXCEPT ![session[g]] = None]
  /\ Goto(g, "close")
  /\ UNCHANGED <<session, store, result, cause, closed, buf, callers, faults, crashes>>

\* Mutant of Release: only the context is released.
Release_KeepsEntry(g) ==
  /\ pc[g] = "release"
  /\ Goto(g, "close")
  /\ UNCHANGED <<session, store, result, cause, registry, buf, callers, faults, crashes>>

\* release(): the entry is deleted only if it still is this generation's ...
Release(g) ==
  /\ pc[g] = "release"
  /\ entry' = [entry EXCEPT ![session[g]] = IF @ = g THEN None ELSE @]
  /\ Goto(g, "close")
  /\ UNCHANGED <<session, store, result, cause, closed, buf, callers, faults, crashes>>

\* ... then the context is cancelled and the done channel closed.
CloseDone(g) ==
  /\ pc[g] = "close"
  /\ cause' = EndContext(g, "user")
  /\ closed' = closed \cup {g}
  /\ Goto(g, "done")
  /\ UNCHANGED <<session, store, result, entry, buf, callers, faults, crashes>>

Pipeline(g) ==
  \/ Begin(g) \/ ResolveModel(g) \/ Generate(g) \/ Finalize(g)
  \/ SaveMessage(g) \/ SendAndClean(g) \/ Release(g) \/ CloseDone(g)
-----------------------------------------------------------------------------
(***************************************************************************)
(* StopGeneration on a chat session: Cancellations.Cancel.                 *)
(***************************************************************************)
StopLookup(c, s) ==
  /\ spc[c] = "idle"
  /\ entry[s] # None
  /\ spc' = [spc EXCEPT ![c] = "cancel"]
  /\ sgen' = [sgen EXCEPT ![c] = entry[s]]
  /\ UNCHANGED <<session, store, task, registry, buf, regenVars, sweep, doomed, faults,
                 crashes>>

StopCancel(c) ==
  /\ spc[c] = "cancel"
  /\ cause' = EndContext(sgen[c], "user")
  /\ spc' = [spc EXCEPT ![c] = "wait"]
  /\ UNCHANGED <<session, store, pc, result, registry, buf, sgen, regenVars, sweep,
                 doomed, faults, crashes>>

StopSeesDone(c) ==
  /\ spc[c] = "wait"
  /\ sgen[c] \in closed
  /\ spc' = [spc EXCEPT ![c] = "stopped"]
  /\ UNCHANGED <<session, store, task, registry, buf, sgen, regenVars, sweep, doomed,
                 faults, crashes>>

\* Back from "stopped", or after cancelWaitTimeout.
StopReturns(c) ==
  /\ spc[c] \in {"wait", "stopped"}
  /\ spc' = [spc EXCEPT ![c] = "idle"]
  /\ sgen' = [sgen EXCEPT ![c] = None]
  /\ UNCHANGED <<session, store, task, registry, buf, regenVars, sweep, doomed, faults,
                 crashes>>
-----------------------------------------------------------------------------
(***************************************************************************)
(* RegenerateLast: list, refuse a pending answer, delete it, make another. *)
(***************************************************************************)
Rows(s) == {i \in DOMAIN log : session[log[i]] = s /\ msg[log[i]] # "absent"}
Last(I) == CHOOSE i \in I : \A j \in I : j <= i
LastAssistant(s) == log[Last(Rows(s))]

\* userMsg: a question was asked before the last answer.
HasQuestion(s) ==
  \E i \in DOMAIN log : session[log[i]] = s /\ log[i] \in asked /\ i <= Last(Rows(s))

RegenerateList(c, s) ==
  /\ gpc[c] = "idle"
  /\ Rows(s) # {}
  /\ msg[LastAssistant(s)] # "pending"
  /\ HasQuestion(s)
  /\ gpc' = [gpc EXCEPT ![c] = "delete"]
  /\ gold' = [gold EXCEPT ![c] = LastAssistant(s)]
  /\ gsess' = [gsess EXCEPT ![c] = s]
  /\ UNCHANGED <<session, store, task, registry, buf, stopVars, sweep, doomed, faults,
                 crashes>>

RegenerateDelete(c) ==
  /\ gpc[c] = "delete"
  /\ msg' = [msg EXCEPT ![gold[c]] = "absent"]
  /\ gpc' = [gpc EXCEPT ![c] = "create"]
  /\ UNCHANGED <<session, log, asked, old, task, registry, buf, stopVars, gold, gsess,
                 sweep, doomed, faults, crashes>>

RegenerateReturn(c) ==
  /\ gpc' = [gpc EXCEPT ![c] = "idle"]
  /\ gold' = [gold EXCEPT ![c] = None]
  /\ gsess' = [gsess EXCEPT ![c] = None]
  /\ UNCHANGED <<stopVars, sweep, doomed>>

RegenerateCreate(c, g) ==
  /\ gpc[c] = "create"
  /\ CreatePending(g, gsess[c])
  /\ RegenerateReturn(c)
  /\ UNCHANGED <<asked, old, result, cause, registry, buf, faults, crashes>>

\* The delete or the create fails: the caller gets the error.
RegenerateFails(c) ==
  /\ gpc[c] \in {"delete", "create"}
  /\ StoreFails
  /\ RegenerateReturn(c)
  /\ UNCHANGED <<session, store, task, registry, buf, crashes>>
-----------------------------------------------------------------------------
(***************************************************************************)
(* ListMessages writes what it read as pending and finds too old.          *)
(***************************************************************************)
\* Time passes; only the age of a pending message is ever looked at.
Age(g) ==
  /\ g \in Aging
  /\ msg[g] = "pending" /\ g \notin old
  /\ old' = old \cup {g}
  /\ UNCHANGED <<session, msg, log, asked, task, registry, buf, callers, faults, crashes>>

ListMessages(s) ==
  /\ sweep = {}
  /\ sweep' = {g \in old : session[g] = s /\ msg[g] = "pending"}
  /\ sweep' # {}
  /\ UNCHANGED <<session, store, task, registry, buf, stopVars, regenVars, doomed,
                 faults, crashes>>

\* Mutant of SweepStale: the sweep changes what it lists, not what it stores.
SweepStale_Displays(g) ==
  /\ g \in sweep
  /\ sweep' = sweep \ {g}
  /\ UNCHANGED <<session, store, task, registry, buf, stopVars, regenVars, doomed,
                 faults, crashes>>

SweepStale(g) ==
  /\ g \in sweep
  /\ \/ msg' = Update(g, "error") /\ sweep' = sweep \ {g} /\ UNCHANGED faults
     \/ StoreFails /\ sweep' = {} /\ UNCHANGED msg
  /\ UNCHANGED <<session, log, asked, old, task, registry, buf, stopVars, regenVars,
                 doomed, crashes>>

(***************************************************************************)
(* DeleteSession and ClearHistory list the messages, then delete what they *)
(* listed.  Neither touches the generations.                               *)
(***************************************************************************)
DeleteList(S) ==
  /\ doomed = {}
  /\ doomed' = {g \in Gens : session[g] \in S /\ (msg[g] # "absent" \/ g \in asked)}
  /\ doomed' # {}
  /\ UNCHANGED <<session, store, task, registry, buf, stopVars, regenVars, sweep,
                 faults, crashes>>

DeleteWrite ==
  /\ doomed # {}
  /\ \/ /\ msg' = [g \in Gens |-> IF g \in doomed THEN "absent" ELSE msg[g]]
        /\ asked' = asked \ doomed
        /\ UNCHANGED faults
     \/ StoreFails /\ UNCHANGED <<msg, asked>>
  /\ doomed' = {}
  /\ UNCHANGED <<session, log, old, task, registry, buf, stopVars, regenVars, sweep,
                 crashes>>

\* A restart: the rows stay.
Crash ==
  /\ crashes < MaxCrashes
  /\ crashes' = crashes + 1
  /\ pc' = [g \in Gens |-> IF pc[g] \in {"none", "done", "dead"} THEN pc[g] ELSE "dead"]
  /\ result' = [g \in Gens |-> "none"]
  /\ cause' = [g \in Gens |-> "none"]
  /\ entry' = [s \in Sessions |-> None] /\ closed' = {}
  /\ buf' = {}
  /\ spc' = [c \in Stoppers |-> "idle"] /\ sgen' = [c \in Stoppers |-> None]
  /\ gpc' = [c \in Callers |-> "idle"]
  /\ gold' = [c \in Callers |-> None] /\ gsess' = [c \in Callers |-> None]
  /\ sweep' = {} /\ doomed' = {}
  /\ UNCHANGED <<session, store, faults>>

Next ==
  \/ \E g \in Gens, s \in Sessions : Send(g, s)
  \/ \E g \in Gens : Pipeline(g) \/ Expire(g) \/ Age(g) \/ SweepStale(g)
  \/ \E c \in Stoppers, s \in Sessions : StopLookup(c, s)
  \/ \E c \in Stoppers : StopCancel(c) \/ StopSeesDone(c) \/ StopReturns(c)
  \/ \E c \in Callers, s \in Sessions \ PlanSessions : RegenerateList(c, s)
  \/ \E c \in Callers : RegenerateDelete(c) \/ RegenerateFails(c)
  \/ \E c \in Callers, g \in Gens : RegenerateCreate(c, g)
  \/ \E s \in Sessions : ListMessages(s)
  \/ \E S \in DeleteScopes : DeleteList(S)
  \/ DeleteWrite
  \/ Crash

Spec == Init /\ [][Next]_vars

(***************************************************************************)
(* Fairness: goroutines run, a generation ends because it runs under       *)
(* in.Timeout, time passes, and a client keeps looking at the session (the *)
(* chat page polls it).  Nobody has to send, stop, regenerate or delete.   *)
(***************************************************************************)
LiveSpec ==
  /\ Spec
  /\ \A g \in Gens : WF_vars(Pipeline(g)) /\ WF_vars(Age(g)) /\ WF_vars(SweepStale(g))
  /\ \A s \in Sessions : WF_vars(ListMessages(s))
-----------------------------------------------------------------------------
(***************************************************************************)
(* Properties.                                                             *)
(***************************************************************************)
\* Every variable holds a value of its type.
TypeOK ==
  /\ session \in [Gens -> Sessions \cup {None}]
  /\ msg \in [Gens -> Settled \cup {"absent", "pending"}]
  /\ log \in Seq(Gens)
  /\ asked \subseteq Gens /\ old \subseteq Gens
  /\ pc \in [Gens -> PC]
  /\ result \in [Gens -> {"none", "user"} \cup Outcomes \cup Limits]
  /\ cause \in [Gens -> {"none", "user", "deadline"}]
  /\ entry \in [Sessions -> Gens \cup {None}]
  /\ closed \subseteq Gens /\ buf \subseteq Gens
  /\ spc \in [Stoppers -> {"idle", "cancel", "wait", "stopped"}]
  /\ sgen \in [Stoppers -> Gens \cup {None}]
  /\ gpc \in [Callers -> {"idle", "delete", "create"}]
  /\ gold \in [Callers -> Gens \cup {None}] /\ gsess \in [Callers -> Sessions \cup {None}]
  /\ sweep \subseteq Gens /\ doomed \subseteq Gens
  /\ faults \in Nat /\ crashes \in Nat

\* The registry's purpose: a chat generation whose context still lives is
\* the one the registry would cancel, so a session has at most one of them
\* and Stop always reaches it, however old generations linger.
RunningGenerationIsStoppable ==
  \A g \in Gens : pc[g] \in Begun /\ cause[g] = "none" /\ session[g] \notin PlanSessions =>
    entry[session[g]] = g

\* An entry belongs to a generation of its session that has not released
\* yet: the done channel Cancel waits for will be closed.
EntryWillBeReleased ==
  \A s \in Sessions : entry[s] # None => session[entry[s]] = s /\ pc[entry[s]] \in Begun

\* When Stop has seen the done channel closed, the stopped answer is in the
\* row, unless the save failed: the client's reload does not find it pending.
StoppedMeansSettled ==
  \A c \in Stoppers : spc[c] = "stopped" /\ faults = 0 => msg[sgen[c]] # "pending"

\* A pending row has a goroutine that will settle it, unless the process
\* crashed or a save failed.
PendingHasOwner ==
  \A g \in Gens : msg[g] = "pending" /\ faults = 0 =>
    pc[g] \in {"created", "dead"} \cup Generating

\* The buffer holds generations in progress only; nothing leaks, whichever
\* way a generation ends.
BufferIsTransient ==
  \A g \in buf : pc[g] \in {"generate", "classify", "save", "send"}

\* A message deleted with its session, or to be regenerated, does not come
\* back when the generation that was making it finishes.
DeletedStaysDeleted ==
  [][\A g \in Gens : pc[g] # "none" /\ msg[g] = "absent" => msg'[g] = "absent"]_vars

\* No answer stays pending for ever, not even one whose process died.
PendingSettles == \A g \in Gens : msg[g] = "pending" ~> msg[g] # "pending"

\* "assistant message is still generating; stop it first": the answer that
\* RegenerateLast is about to replace is not being generated.
RegeneratesOnlyFinished ==
  \A c \in Callers : gpc[c] = "delete" => pc[gold[c]] \notin Generating

\* "marked cancelled with a human-readable marker naming the env var to
\* raise": a plan node stopped by MANTIS_PLAN_STEP_TIMEOUT names it.
MarkerNamesTheLimit ==
  \A g \in Gens : pc[g] = "send" /\ result[g] \in Limits /\ cause[g] = "deadline" =>
    result[g] = IF session[g] \in PlanSessions THEN "MANTIS_PLAN_STEP_TIMEOUT"
                ELSE "MANTIS_SUPERVISOR_TIMEOUT"
=============================================================================
