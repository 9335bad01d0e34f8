------------------------------ MODULE PlanRunner ------------------------------
(***************************************************************************)
(* The life of plan runs (apps/plans/runner.go): TriggerRun creates a row  *)
(* and starts a goroutine, which walks the plan's graph and writes its own *)
(* copy of the run over the whole row after every change; CancelRun        *)
(* cancels the goroutine's context, waits for it at most five seconds and  *)
(* then reads and perhaps overwrites the row; a restart loses everything   *)
(* in memory and RecoverStaleRuns fails the rows it lists as running.      *)
(* None of these writers holds a lock on the row.                          *)
(*                                                                         *)
(* A step of the model is one access to the run store, one critical        *)
(* section on Runner.mu or one wait, so every interleaving of the store's  *)
(* readers and writers is a behaviour.  The generation a node runs         *)
(* (workflow.Execute and the pipeline goroutine it starts) is seen from    *)
(* here as a pipeline that ends with a good or a bad assistant message.    *)
(***************************************************************************)
EXTENDS PlanGraph

CONSTANTS
  Runs,            \* run ids (uuids: a new one for every TriggerRun)
  Plans,           \* plan ids
  Graphs,          \* the graphs a plan may have when it is triggered
  Cancellers,      \* concurrent callers of CancelRun
  MaxTransitions,  \* maxTransitions
  MaxFaults,       \* bound: store operations that fail
  MaxCrashes,      \* bound: restarts of the process
  NoRow            \* no such row in plan_runs

ASSUME RunnerAssumption ==
  /\ MaxTransitions \in Nat
  /\ MaxFaults \in Nat
  /\ MaxCrashes \in Nat
  /\ \A g \in Graphs : GraphOK(g) /\ NoNode \notin NodeIds(g)

VARIABLES
  planIds,      \* the rows of plans
  row,          \* plan_runs, by run id
  plan, graph,  \* what execute was given: the plan's id and its graph
  mem,          \* execute's own copy of the run
  pc, cur, transitions, attempt, verdict,   \* where execute is
  pipes, msg,   \* the node's pipelines alive, and the latest one's outcome
  registered,   \* the keys of Runner.cancels and Runner.done; execute marks the
                \* run's session active and inactive in the buffer with them
  cancelled,    \* runs whose context has been cancelled
  closed,       \* runs whose done channel is closed
  cpc, crun, csnap,   \* the CancelRun calls in progress
  rpc, rsnap,         \* RecoverStaleRuns
  faults, crashes

runnerVars == <<plan, graph, mem, pc, cur, transitions, attempt, verdict, pipes, msg>>
cancelVars == <<cpc, crun, csnap>>
recoverVars == <<rpc, rsnap>>
regVars == <<registered, cancelled, closed>>
vars == <<planIds, row, runnerVars, regVars, cancelVars, recoverVars, faults, crashes>>

Terminal == {"completed", "failed", "cancelled"}
RunStatus == Terminal \cup {"running"}

PC == {"none", "spawned", "ensure", "top", "mark", "attempt", "await", "nodeError",
       "stepDone", "skip", "finish", "unregister", "close", "done", "dead"}

\* The goroutine of the run exists.
Alive(r) == pc[r] \notin {"none", "done", "dead"}

RowOf(status, steps) == [status |-> status, steps |-> steps]

\* Postgres.Update: WHERE id = ...; no row, no effect and no error.
Overwrite(r, m) == IF row[r] = NoRow THEN row ELSE [row EXCEPT ![r] = m]

StoreFails == faults < MaxFaults /\ faults' = faults + 1

Goto(r, label) == pc' = [pc EXCEPT ![r] = label]
-----------------------------------------------------------------------------
Init ==
  /\ planIds = Plans
  /\ row = [r \in Runs |-> NoRow]
  /\ plan \in [Runs -> Plans]
  /\ graph \in [Runs -> Graphs]
  /\ mem = [r \in Runs |-> RowOf("running", InitSteps(graph[r]))]
  /\ pc = [r \in Runs |-> "none"]
  /\ cur = [r \in Runs |-> NoNode]
  /\ transitions = [r \in Runs |-> 0]
  /\ attempt = [r \in Runs |-> 0]
  /\ verdict = [r \in Runs |-> "none"]
  /\ pipes = [r \in Runs |-> 0]
  /\ msg = [r \in Runs |-> "none"]
  /\ registered = {} /\ cancelled = {} /\ closed = {}
  /\ cpc = [c \in Cancellers |-> "idle"]
  /\ crun = [c \in Cancellers |-> NoRow]
  /\ csnap = [c \in Cancellers |-> NoRow]
  /\ rpc = "boot"
  /\ rsnap = [r \in Runs |-> NoRow]
  /\ faults = 0 /\ crashes = 0

(***************************************************************************)
(* TriggerRun: an unknown plan or an invalid graph is refused; otherwise   *)
(* the row is created as running and only then the goroutine is started.   *)
(***************************************************************************)
TriggerRun(r) ==
  /\ pc[r] = "none"
  /\ plan[r] \in planIds
  /\ ValidateGraph(graph[r])
  /\ row' = [row EXCEPT ![r] = mem[r]]
  /\ Goto(r, "spawned")
  /\ UNCHANGED <<planIds, plan, graph, mem, cur, transitions, attempt, verdict, pipes, msg,
                 regVars, cancelVars, recoverVars, faults, crashes>>

\* DeletePlan: plan_runs.plan_id REFERENCES plans ON DELETE CASCADE.
DeletePlan(p) ==
  /\ p \in planIds
  /\ planIds' = planIds \ {p}
  /\ row' = [r \in Runs |-> IF plan[r] = p THEN NoRow ELSE row[r]]
  /\ UNCHANGED <<runnerVars, regVars, cancelVars, recoverVars, faults, crashes>>
-----------------------------------------------------------------------------
(***************************************************************************)
(* execute.  Save is saveRun: the whole row is overwritten with the        *)
(* goroutine's copy; a store error is logged and forgotten.                *)
(***************************************************************************)
Save(r, m) ==
  /\ mem' = [mem EXCEPT ![r] = m]
  /\ \/ row' = Overwrite(r, m) /\ UNCHANGED faults
     \/ StoreFails /\ UNCHANGED row

SaveStep(r, s) == Save(r, RowOf(mem[r].status, SetStep(mem[r].steps, cur[r], s)))

\* Mutant of FailStep: a return without finishRun.
FailStep_ForgetsFinish(r, v) ==
  /\ SaveStep(r, "failed")
  /\ verdict' = [verdict EXCEPT ![r] = v]
  /\ Goto(r, "unregister")

\* failStep followed by the return through finishRun(v).
FailStep(r, v) ==
  /\ SaveStep(r, "failed")
  /\ verdict' = [verdict EXCEPT ![r] = v]
  /\ Goto(r, "finish")

outside == <<planIds, plan, graph, cancelVars, recoverVars, crashes>>

Register(r) ==
  /\ pc[r] = "spawned"
  /\ registered' = registered \cup {r}
  /\ Goto(r, "ensure")
  /\ UNCHANGED <<outside, row, mem, cur, transitions, attempt, verdict, pipes, msg,
                 cancelled, closed, faults>>

\* sessionPolicy.Execute(ModeEnsure) under the run's context.
EnsureSession(r) ==
  /\ pc[r] = "ensure"
  /\ r \notin cancelled
  /\ cur' = [cur EXCEPT ![r] = StartNode(graph[r])]
  /\ IF StartNode(graph[r]) = NoNode
     THEN Goto(r, "finish") /\ verdict' = [verdict EXCEPT ![r] = "failed"]
     ELSE Goto(r, "top") /\ UNCHANGED verdict
  /\ UNCHANGED <<outside, row, mem, transitions, attempt, pipes, msg, regVars, faults>>

EnsureFails(r) ==
  /\ pc[r] = "ensure"
  /\ \/ r \in cancelled /\ UNCHANGED faults
     \/ r \notin cancelled /\ StoreFails
  /\ verdict' = [verdict EXCEPT ![r] = "failed"]
  /\ Goto(r, "finish")
  /\ UNCHANGED <<outside, row, mem, cur, transitions, attempt, pipes, msg, regVars>>

\* Mutant of LoopTop: the bound on transitions is off by one.
LoopTop_OffByOne(r) ==
  /\ pc[r] = "top"
  /\ transitions[r] <= MaxTransitions
  /\ r \notin cancelled
  /\ cur[r] \in NodeIds(graph[r])
  /\ transitions' = [transitions EXCEPT ![r] = @ + 1]
  /\ Goto(r, "mark")
  /\ UNCHANGED <<outside, row, mem, cur, attempt, verdict, pipes, msg, regVars, faults>>

\* The checks at the head of the loop, in the order of the code.
LoopTop(r) ==
  /\ pc[r] = "top"
  /\ transitions[r] < MaxTransitions
  /\ r \notin cancelled
  /\ cur[r] \in NodeIds(graph[r])
  /\ transitions' = [transitions EXCEPT ![r] = @ + 1]
  /\ Goto(r, "mark")
  /\ UNCHANGED <<outside, row, mem, cur, attempt, verdict, pipes, msg, regVars, faults>>

LoopExit(r) ==
  /\ pc[r] = "top"
  /\ \/ transitions[r] >= MaxTransitions /\ FailStep(r, "failed")
     \/ /\ transitions[r] < MaxTransitions /\ r \in cancelled
        /\ FailStep(r, "cancelled")
     \/ /\ transitions[r] < MaxTransitions /\ r \notin cancelled
        /\ cur[r] \notin NodeIds(graph[r])
        /\ FailStep(r, "failed")
  /\ transitions' = [transitions EXCEPT ![r] = @ + 1]
  /\ UNCHANGED <<outside, cur, attempt, pipes, msg, regVars>>

MarkStepRunning(r) ==
  /\ pc[r] = "mark"
  /\ SaveStep(r, "running")
  /\ attempt' = [attempt EXCEPT ![r] = 0]
  /\ Goto(r, "attempt")
  /\ UNCHANGED <<outside, cur, transitions, verdict, pipes, msg, regVars>>

\* The tail of executeWithRetry's loop after a failed attempt.
Retry(r) ==
  IF attempt[r] < MaxRetries(graph[r], cur[r])
  THEN attempt' = [attempt EXCEPT ![r] = @ + 1] /\ Goto(r, "attempt")
  ELSE Goto(r, "nodeError") /\ UNCHANGED attempt

\* Mutant of BeginAttempt: a retry does not look at the context.
BeginAttempt_IgnoresCancel(r) ==
  /\ pc[r] = "attempt"
  /\ pipes' = [pipes EXCEPT ![r] = @ + 1]
  /\ msg' = [msg EXCEPT ![r] = "pending"]
  /\ Goto(r, "await")
  /\ UNCHANGED <<outside, row, mem, cur, transitions, attempt, verdict, regVars, faults>>

\* executeNode: workflow.Execute stores the messages under the run's
\* context, then starts the pipeline under a context of its own.
BeginAttempt(r) ==
  /\ pc[r] = "attempt"
  /\ r \notin cancelled
  /\ pipes' = [pipes EXCEPT ![r] = @ + 1]
  /\ msg' = [msg EXCEPT ![r] = "pending"]
  /\ Goto(r, "await")
  /\ UNCHANGED <<outside, row, mem, cur, transitions, attempt, verdict, regVars, faults>>

AttemptFails(r) ==
  /\ pc[r] = "attempt"
  /\ \/ r \in cancelled /\ Goto(r, "nodeError") /\ UNCHANGED <<attempt, faults>>
     \/ r \notin cancelled /\ StoreFails /\ Retry(r)
  /\ UNCHANGED <<outside, row, mem, cur, transitions, verdict, pipes, msg, regVars>>

\* The pipeline saves its message, then its Finally closes executeNode's
\* channel.  "bad": status error, a limit's marker, "[ERROR]:" in the text,
\* or the message cannot be read, or is gone, when executeNode looks at it.
PipelineEnds(r) ==
  /\ pipes[r] > 0
  /\ pipes' = [pipes EXCEPT ![r] = @ - 1]
  /\ \E o \in {"ok", "bad"} : msg' = [msg EXCEPT ![r] = o]
  /\ UNCHANGED <<outside, row, mem, pc, cur, transitions, attempt, verdict, regVars,
                 faults>>

\* The select on done and ctx.Done(), then messageStore.Get under the context.
AwaitDone(r) ==
  /\ pc[r] = "await"
  /\ msg[r] = "ok" /\ r \notin cancelled
  /\ Goto(r, "stepDone")
  /\ UNCHANGED <<outside, row, mem, cur, transitions, attempt, verdict, pipes, msg,
                 regVars, faults>>

\* Mutant of AwaitFails: the select has no ctx.Done() case.
AwaitFails_WaitsForDone(r) ==
  /\ pc[r] = "await"
  /\ msg[r] = "bad"
  /\ Retry(r)
  /\ UNCHANGED <<outside, row, mem, cur, transitions, verdict, pipes, msg, regVars, faults>>

AwaitFails(r) ==
  /\ pc[r] = "await"
  /\ msg[r] = "bad" \/ r \in cancelled
  /\ Retry(r)
  /\ UNCHANGED <<outside, row, mem, cur, transitions, verdict, pipes, msg, regVars, faults>>

NodeError(r) ==
  /\ pc[r] = "nodeError"
  /\ FailStep(r, IF r \in cancelled THEN "cancelled" ELSE "failed")
  /\ UNCHANGED <<outside, cur, transitions, attempt, pipes, msg, regVars>>

\* completeStep / setStepResult, and the choice of the next node.
CompleteStep(r, next) ==
  /\ SaveStep(r, "completed")
  /\ IF next = NoNode
     THEN Goto(r, "skip") /\ UNCHANGED cur
     ELSE Goto(r, "top") /\ cur' = [cur EXCEPT ![r] = next]
  /\ UNCHANGED verdict

StepDone(r) ==
  /\ pc[r] = "stepDone"
  /\ LET type == NodeOf(graph[r], cur[r]).type IN
       \/ /\ type = "action"
          /\ CompleteStep(r, FindNextNode(graph[r], cur[r]))
       \/ /\ type = "decision"
          /\ \E reply \in Replies :
               CompleteStep(r, FindEdgeTarget(graph[r], cur[r], ParseDecision(reply)))
       \/ /\ type \notin {"action", "decision"}
          /\ FailStep(r, "failed")
          /\ UNCHANGED cur
  /\ UNCHANGED <<outside, transitions, attempt, pipes, msg, regVars>>

SkipAndSave(r) ==
  /\ pc[r] = "skip"
  /\ Save(r, RowOf(mem[r].status, SkipPending(mem[r].steps)))
  /\ verdict' = [verdict EXCEPT ![r] = "completed"]
  /\ Goto(r, "finish")
  /\ UNCHANGED <<outside, cur, transitions, attempt, pipes, msg, regVars>>

\* Mutant of FinishRun: the done channel is closed before the last save.
FinishRun_SignalsFirst(r) ==
  /\ pc[r] = "finish"
  /\ IF r \in closed
     THEN Save(r, RowOf(verdict[r], mem[r].steps)) /\ Goto(r, "unregister") /\ UNCHANGED closed
     ELSE closed' = closed \cup {r} /\ UNCHANGED <<mem, row, pc, faults>>
  /\ UNCHANGED <<outside, cur, transitions, attempt, verdict, pipes, msg, registered,
                 cancelled>>

FinishRun(r) ==
  /\ pc[r] = "finish"
  /\ Save(r, RowOf(verdict[r], mem[r].steps))
  /\ Goto(r, "unregister")
  /\ UNCHANGED <<outside, cur, transitions, attempt, verdict, pipes, msg, regVars>>

\* The deferred function: delete the entries under the lock ...
Unregister(r) ==
  /\ pc[r] = "unregister"
  /\ registered' = registered \ {r}
  /\ Goto(r, "close")
  /\ UNCHANGED <<outside, row, mem, cur, transitions, attempt, verdict, pipes, msg,
                 cancelled, closed, faults>>

\* ... then cancel the context and close the channel.
CloseDone(r) ==
  /\ pc[r] = "close"
  /\ cancelled' = cancelled \cup {r}
  /\ closed' = closed \cup {r}
  /\ Goto(r, "done")
  /\ UNCHANGED <<outside, row, mem, cur, transitions, attempt, verdict, pipes, msg,
                 registered, faults>>

Execute(r) ==
  \/ Register(r) \/ EnsureSession(r) \/ EnsureFails(r)
  \/ LoopTop(r) \/ LoopExit(r) \/ MarkStepRunning(r)
  \/ BeginAttempt(r) \/ AttemptFails(r) \/ AwaitDone(r) \/ AwaitFails(r)
  \/ NodeError(r) \/ StepDone(r) \/ SkipAndSave(r)
  \/ FinishRun(r) \/ Unregister(r) \/ CloseDone(r)
-----------------------------------------------------------------------------
(***************************************************************************)
(* CancelRun, called by the API, by the plan_stop tool and by              *)
(* StopGeneration on a plan session.                                       *)
(***************************************************************************)
rest == <<planIds, runnerVars, recoverVars, crashes>>

Return(c) ==
  /\ cpc' = [cpc EXCEPT ![c] = "idle"]
  /\ crun' = [crun EXCEPT ![c] = NoRow]
  /\ csnap' = [csnap EXCEPT ![c] = NoRow]

CancelLookup(c, r) ==
  /\ cpc[c] = "idle"
  /\ pc[r] # "none"
  /\ crun' = [crun EXCEPT ![c] = r]
  /\ IF r \in registered
     THEN cancelled' = cancelled \cup {r} /\ cpc' = [cpc EXCEPT ![c] = "wait"]
     ELSE cpc' = [cpc EXCEPT ![c] = "read"] /\ UNCHANGED cancelled
  /\ UNCHANGED <<rest, row, registered, closed, csnap, faults>>

CancelSeesDone(c) ==
  /\ cpc[c] = "wait"
  /\ crun[c] \in closed
  /\ cpc' = [cpc EXCEPT ![c] = "readAfterDone"]
  /\ UNCHANGED <<rest, row, regVars, crun, csnap, faults>>

\* Five seconds are over: a retry may be sleeping, a store call may be slow.
CancelTimesOut(c) ==
  /\ cpc[c] = "wait"
  /\ cpc' = [cpc EXCEPT ![c] = "read"]
  /\ UNCHANGED <<rest, row, regVars, crun, csnap, faults>>

\* A finished or missing run is returned as it is.
CancelRead(c) ==
  /\ cpc[c] \in {"read", "readAfterDone"}
  /\ IF row[crun[c]] # NoRow /\ row[crun[c]].status = "running"
     THEN /\ cpc' = [cpc EXCEPT ![c] = "write"]
          /\ csnap' = [csnap EXCEPT ![c] = row[crun[c]]]
          /\ UNCHANGED crun
     ELSE Return(c)
  /\ UNCHANGED <<rest, row, regVars, faults>>

Stale(status, m) == RowOf(status, MarkStaleSteps(m.steps))

CancelWrite(c) ==
  /\ cpc[c] = "write"
  /\ \/ row' = Overwrite(crun[c], Stale("cancelled", csnap[c])) /\ UNCHANGED faults
     \/ StoreFails /\ UNCHANGED row
  /\ Return(c)
  /\ UNCHANGED <<rest, regVars>>

\* CancelRun's Get fails: the error is returned.
CancelReadFails(c) ==
  /\ cpc[c] \in {"read", "readAfterDone"}
  /\ StoreFails
  /\ Return(c)
  /\ UNCHANGED <<rest, row, regVars>>

CancelRun(c) ==
  CancelSeesDone(c) \/ CancelTimesOut(c) \/ CancelRead(c) \/ CancelWrite(c) \/ CancelReadFails(c)
-----------------------------------------------------------------------------
(***************************************************************************)
(* A restart, and RecoverStaleRuns, which App.Start calls in a goroutine   *)
(* of its own while the other services come up.                            *)
(***************************************************************************)
Crash ==
  /\ crashes < MaxCrashes
  /\ crashes' = crashes + 1
  /\ pc' = [r \in Runs |-> IF Alive(r) THEN "dead" ELSE pc[r]]
  /\ pipes' = [r \in Runs |-> 0]
  /\ registered' = {} /\ cancelled' = {} /\ closed' = {}
  /\ cpc' = [c \in Cancellers |-> "idle"]
  /\ crun' = [c \in Cancellers |-> NoRow]
  /\ csnap' = [c \in Cancellers |-> NoRow]
  /\ rpc' = "boot"
  /\ rsnap' = [r \in Runs |-> NoRow]
  /\ UNCHANGED <<planIds, row, plan, graph, mem, cur, transitions, attempt, verdict,
                 msg, faults>>

\* Mutant of RecoverList: the filter asks for the wrong status.
RecoverList_WrongFilter ==
  /\ rpc = "boot"
  /\ rpc' = "recover"
  /\ rsnap' = [r \in Runs |-> IF row[r] # NoRow /\ row[r].status = "pending"
                             THEN row[r] ELSE NoRow]
  /\ UNCHANGED <<planIds, row, runnerVars, regVars, cancelVars, crashes, faults>>

RecoverList ==
  /\ rpc = "boot"
  /\ rpc' = "recover"
  /\ \/ /\ rsnap' = [r \in Runs |-> IF row[r] # NoRow /\ row[r].status = "running"
                                    THEN row[r] ELSE NoRow]
        /\ UNCHANGED faults
     \/ StoreFails /\ UNCHANGED rsnap
  /\ UNCHANGED <<planIds, row, runnerVars, regVars, cancelVars, crashes>>

RecoverStaleRun(r) ==
  /\ rpc = "recover"
  /\ rsnap[r] # NoRow
  /\ rsnap' = [rsnap EXCEPT ![r] = NoRow]
  /\ \/ row' = Overwrite(r, Stale("failed", rsnap[r])) /\ UNCHANGED faults
     \/ StoreFails /\ UNCHANGED row
  /\ UNCHANGED <<planIds, runnerVars, regVars, cancelVars, rpc, crashes>>

Next ==
  \/ \E r \in Runs : TriggerRun(r) \/ Execute(r) \/ PipelineEnds(r) \/ RecoverStaleRun(r)
  \/ \E p \in Plans : DeletePlan(p)
  \/ \E c \in Cancellers, r \in Runs : CancelLookup(c, r)
  \/ \E c \in Cancellers : CancelRun(c)
  \/ Crash
  \/ RecoverList

Spec == Init /\ [][Next]_vars

(***************************************************************************)
(* Fairness: goroutines that can run do run, and so does start-up.         *)
(* Nothing obliges anyone to trigger, delete, cancel or crash.  That a     *)
(* pipeline ends, because it runs under limits.PlanStepTimeout, is apart:  *)
(* a run is to be cancellable even if one never does.                      *)
(***************************************************************************)
LiveSpec ==
  /\ Spec
  /\ \A r \in Runs : WF_vars(Execute(r)) /\ WF_vars(RecoverStaleRun(r))
  /\ \A c \in Cancellers : WF_vars(CancelRun(c))
  /\ WF_vars(RecoverList)

PipelinesEnd == \A r \in Runs : WF_vars(PipelineEnds(r))
-----------------------------------------------------------------------------
(***************************************************************************)
(* Properties.                                                             *)
(***************************************************************************)
Steps(r) == [NodeIds(graph[r]) -> StepStatus]
Rows(r) == [status : RunStatus, steps : Steps(r)]

\* What a run was triggered with.
InputOK == planIds \subseteq Plans /\ plan \in [Runs -> Plans] /\ graph \in [Runs -> Graphs]

\* Every copy of a run has exactly the steps of the graph it was triggered with.
CopiesOK ==
  /\ DOMAIN row = Runs /\ \A r \in Runs : row[r] = NoRow \/ row[r] \in Rows(r)
  /\ DOMAIN mem = Runs /\ \A r \in Runs : mem[r] \in Rows(r)
  /\ DOMAIN rsnap = Runs /\ \A r \in Runs : rsnap[r] = NoRow \/ rsnap[r] \in Rows(r)
  /\ DOMAIN csnap = Cancellers
  /\ \A c \in Cancellers : cpc[c] = "write" => csnap[c] \in Rows(crun[c])

ControlOK ==
  /\ pc \in [Runs -> PC]
  /\ DOMAIN cur = Runs
  /\ transitions \in [Runs -> Nat] /\ attempt \in [Runs -> Nat]
  /\ verdict \in [Runs -> Terminal \cup {"none"}]
  /\ \A r \in Runs : pc[r] = "finish" => verdict[r] # "none"
  /\ pipes \in [Runs -> Nat] /\ msg \in [Runs -> {"none", "pending", "ok", "bad"}]
  /\ registered \subseteq Runs /\ cancelled \subseteq Runs /\ closed \subseteq Runs
  /\ cpc \in [Cancellers -> {"idle", "wait", "read", "readAfterDone", "write"}]
  /\ crun \in [Cancellers -> Runs \cup {NoRow}]
  /\ \A c \in Cancellers : cpc[c] # "idle" => crun[c] \in Runs
  /\ rpc \in {"boot", "recover"}
  /\ faults \in Nat /\ crashes \in Nat

\* Every variable holds what the code's types and constants allow.
TypeOK == InputOK /\ CopiesOK /\ ControlOK

NoneRunning(steps) == \A n \in DOMAIN steps : steps[n] # "running"

\* However the writers of a row interleave, and whichever of their writes
\* fail, a row whose run is over shows no step as still running.
SettledRunHasNoRunningStep ==
  \A r \in Runs : row[r] # NoRow /\ row[r].status \in Terminal => NoneRunning(row[r].steps)

\* A run reported as completed completed or skipped every step: no step of
\* it failed, and no step was forgotten in pending.
CompletedRunHasOnlyFinishedSteps ==
  \A r \in Runs : row[r] # NoRow /\ row[r].status = "completed" =>
    \A n \in DOMAIN row[r].steps : row[r].steps[n] \in {"completed", "skipped"}

Touched == {"running", "completed", "failed"}

\* The steps lead to node n: it is the start node, or the end of an edge
\* from an executed step.
Reached(g, steps, n) ==
  \/ n = StartNode(g)
  \/ \E e \in DOMAIN g.edges : /\ g.edges[e].target = n
                              /\ g.edges[e].source \in DOMAIN steps
                              /\ steps[g.edges[e].source] \in Touched

FollowsEdges(g, steps) ==
  \A n \in DOMAIN steps : steps[n] \in Touched => Reached(g, steps, n)

\* What the row shows as executed is a walk of the graph: it begins at the
\* start node, and a step was entered over an edge from an executed step.
ExecutedStepsFollowEdges ==
  \A r \in Runs : row[r] # NoRow => FollowsEdges(graph[r], row[r].steps)

\* CancelRun relies on it: once it has seen the done channel closed, the
\* goroutine's last word is in the row, unless a save of it failed, so
\* CancelRun does not overwrite the outcome.
DoneMeansSettled ==
  \A c \in Cancellers :
    cpc[c] = "readAfterDone" /\ faults = 0 /\ row[crun[c]] # NoRow =>
      row[crun[c]].status \in Terminal

\* A run that CancelRun cannot find in memory although its row says running
\* has not registered yet, or was left behind by a crash or a failed save.
UnregisteredRunIsStartingOrStale ==
  \A r \in Runs :
    row[r] # NoRow /\ row[r].status = "running" /\ r \notin registered /\ faults = 0 =>
      pc[r] \in {"spawned", "dead"}

\* The generations of a run share one chat session: there is never more
\* than one of them, retries included, and one that outlives the run's
\* goroutine belongs to a run that was cancelled.
OnePipelinePerRun ==
  \A r \in Runs :
    /\ pipes[r] <= 1
    /\ pipes[r] = 1 /\ pc[r] # "await" => r \in cancelled

\* maxTransitions bounds the walk of a cyclic graph, the retries of a node
\* its attempts.
WalkIsBounded ==
  \A r \in Runs :
    /\ transitions[r] <= MaxTransitions + 1
    /\ pc[r] \in {"attempt", "await"} => /\ transitions[r] \in 1 .. MaxTransitions
                                         /\ attempt[r] <= MaxRetries(graph[r], cur[r])

IsRunning(r) == row[r] # NoRow /\ row[r].status = "running"

\* As long as pipelines end, a run does not stay running for ever: it ends,
\* or the restart after a crash marks it (or its plan is deleted).
RunsSettle == PipelinesEnd => \A r \in Runs : IsRunning(r) ~> ~IsRunning(r)

\* A cancelled goroutine leaves the registry even if the generation it
\* waits for never ends.
CancelReleasesRunner == \A r \in Runs : r \in cancelled ~> r \notin registered

HasStatus(r, s) == row[r] # NoRow /\ row[r].status = s

\* "Stop (cancel) a running plan execution by run ID" (plan_stop): a run
\* that CancelRun has recorded as cancelled does not go on to complete.
CancelledRunNeverCompletes ==
  \A r \in Runs : [](HasStatus(r, "cancelled") => []~HasStatus(r, "completed"))
=============================================================================
