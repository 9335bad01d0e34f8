--------------------------- MODULE PlanRunnerProofs ---------------------------
(***************************************************************************)
(* Theorems about PlanRunner, for every set of runs, plans, graphs and     *)
(* cancellers and every bound on transitions, faults and crashes.          *)
(***************************************************************************)
EXTENDS PlanRunner, WellFoundedInduction, TLAPS

(***************************************************************************)
(* The helpers on steps keep the nodes and write statuses only.            *)
(***************************************************************************)
\* setStepResult and its kin keep the list of steps.
LEMMA SetStepType ==
  ASSUME NEW S, NEW steps \in [S -> StepStatus], NEW n, NEW s \in StepStatus
  PROVE  SetStep(steps, n, s) \in [S -> StepStatus]
BY DEF SetStep

\* skipPending keeps the list of steps.
LEMMA SkipPendingType ==
  ASSUME NEW S, NEW steps \in [S -> StepStatus]
  PROVE  SkipPending(steps) \in [S -> StepStatus]
BY DEF SkipPending, StepStatus

\* markStaleSteps keeps the list of steps, and leaves none of them running.
LEMMA MarkStaleStepsType ==
  ASSUME NEW S, NEW steps \in [S -> StepStatus]
  PROVE  /\ MarkStaleSteps(steps) \in [S -> StepStatus]
         /\ NoneRunning(MarkStaleSteps(steps))
<1>1. \A n \in S : /\ MarkStaleSteps(steps)[n] \in StepStatus
                   /\ MarkStaleSteps(steps)[n] # "running"
  BY DEF MarkStaleSteps, StepStatus
<1>2. MarkStaleSteps(steps) = [n \in S |-> MarkStaleSteps(steps)[n]]
  BY DEF MarkStaleSteps
<1>. QED BY <1>1, <1>2 DEF NoneRunning

\* A save of the goroutine's copy keeps the copies well typed.
LEMMA SaveType ==
  ASSUME TypeOK, NEW r \in Runs, NEW m \in Rows(r), Save(r, m),
         UNCHANGED <<graph, rsnap, csnap, cpc, crun>>
  PROVE  CopiesOK' /\ faults' \in Nat
<1>1. \A q : Rows(q)' = Rows(q)
  BY DEF Rows, Steps
<1>2. DOMAIN mem' = Runs /\ \A q \in Runs : mem'[q] \in Rows(q)
  BY DEF Save, TypeOK, CopiesOK
<1>3. DOMAIN row' = Runs /\ \A q \in Runs : row'[q] = NoRow \/ row'[q] \in Rows(q)
  BY DEF Save, TypeOK, CopiesOK, Overwrite
<1>4. faults' \in Nat
  BY DEF Save, StoreFails, TypeOK, ControlOK
<1>5. \A c \in Cancellers : cpc'[c] = "write" => csnap'[c] \in Rows(crun[c])
  BY DEF TypeOK, CopiesOK
<1>. QED BY <1>1, <1>2, <1>3, <1>4, <1>5 DEF TypeOK, CopiesOK

\* So does a save with one step set to a legal status.
LEMMA SaveStepType ==
  ASSUME TypeOK, NEW r \in Runs, NEW s \in StepStatus, SaveStep(r, s),
         UNCHANGED <<graph, rsnap, csnap, cpc, crun>>
  PROVE  CopiesOK' /\ faults' \in Nat
<1>1. mem[r] \in Rows(r)
  BY DEF TypeOK, CopiesOK
<1>2. SetStep(mem[r].steps, cur[r], s) \in Steps(r)
  BY <1>1, SetStepType DEF Rows, Steps
<1>3. RowOf(mem[r].status, SetStep(mem[r].steps, cur[r], s)) \in Rows(r)
  BY <1>1, <1>2 DEF RowOf, Rows
<1>. QED BY <1>3, SaveType DEF SaveStep

\* A step that leaves the copies alone.
LEMMA CopiesUnchanged ==
  ASSUME TypeOK, UNCHANGED <<graph, row, mem, rsnap, csnap>>,
         \A c \in Cancellers : cpc'[c] = "write" => cpc[c] = "write" /\ crun'[c] = crun[c]
  PROVE  CopiesOK'
<1>1. \A q : Rows(q)' = Rows(q)
  BY DEF Rows, Steps
<1>2. \A c \in Cancellers : cpc'[c] = "write" => csnap'[c] \in Rows(crun'[c])
  BY DEF TypeOK, CopiesOK
<1>. QED BY <1>1, <1>2 DEF TypeOK, CopiesOK

\* A write of a stale copy, by CancelRun or by RecoverStaleRuns.
LEMMA StaleType ==
  ASSUME NEW r \in Runs, NEW m \in Rows(r), NEW s \in RunStatus
  PROVE  Stale(s, m) \in Rows(r)
<1>1. MarkStaleSteps(m.steps) \in Steps(r)
  BY MarkStaleStepsType DEF Rows, Steps
<1>. QED BY <1>1 DEF Stale, RowOf, Rows
-----------------------------------------------------------------------------
\* TypeOK holds initially.
LEMMA TypeInit == Init => TypeOK
<1>. SUFFICES ASSUME Init PROVE TypeOK
  OBVIOUS
<1>1. InputOK
  BY DEF Init, InputOK
<1>2. \A r \in Runs : mem[r] \in Rows(r)
  BY DEF Init, Rows, Steps, RowOf, InitSteps, RunStatus, StepStatus
<1>3. CopiesOK
  BY <1>2 DEF Init, CopiesOK
<1>4. ControlOK
  BY DEF Init, ControlOK, PC, Terminal
<1>. QED BY <1>1, <1>3, <1>4 DEF TypeOK

\* Every step of execute keeps TypeOK.
LEMMA ExecuteType ==
  ASSUME TypeOK, NEW r \in Runs, Execute(r)
  PROVE  TypeOK'
<1>. USE DEF outside, cancelVars, recoverVars, regVars
<1>0. UNCHANGED <<planIds, plan, graph, rsnap, csnap, cpc, crun, rpc, crashes>>
  BY DEF Execute, Register, EnsureSession, EnsureFails, LoopTop, LoopExit, MarkStepRunning,
         BeginAttempt, AttemptFails, AwaitDone, AwaitFails, NodeError, StepDone, SkipAndSave,
         FinishRun, Unregister, CloseDone
<1>1. InputOK'
  BY <1>0 DEF TypeOK, InputOK
<1>. SUFFICES CopiesOK' /\ ControlOK'
  BY <1>1 DEF TypeOK
<1>2. CASE Register(r)
  <2>1. CopiesOK'
    BY <1>0, <1>2, CopiesUnchanged DEF Register
  <2>2. ControlOK'
    BY <1>0, <1>2 DEF Register, Goto, TypeOK, ControlOK, PC, Terminal
  <2>. QED BY <2>1, <2>2
<1>3. CASE EnsureSession(r)
  <2>1. CopiesOK'
    BY <1>0, <1>3, CopiesUnchanged DEF EnsureSession
  <2>2. ControlOK'
    BY <1>0, <1>3 DEF EnsureSession, Goto, TypeOK, ControlOK, PC, Terminal
  <2>. QED BY <2>1, <2>2
<1>4. CASE EnsureFails(r)
  <2>1. CopiesOK'
    BY <1>0, <1>4, CopiesUnchanged DEF EnsureFails
  <2>2. ControlOK'
    BY <1>0, <1>4 DEF EnsureFails, StoreFails, Goto, TypeOK, ControlOK, PC, Terminal
  <2>. QED BY <2>1, <2>2
<1>5. CASE LoopTop(r)
  <2>1. CopiesOK'
    BY <1>0, <1>5, CopiesUnchanged DEF LoopTop
  <2>2. ControlOK'
    BY <1>0, <1>5 DEF LoopTop, Goto, TypeOK, ControlOK, PC, Terminal
  <2>. QED BY <2>1, <2>2
<1>6. CASE BeginAttempt(r)
  <2>1. CopiesOK'
    BY <1>0, <1>6, CopiesUnchanged DEF BeginAttempt
  <2>2. ControlOK'
    BY <1>0, <1>6 DEF BeginAttempt, Goto, TypeOK, ControlOK, PC, Terminal
  <2>. QED BY <2>1, <2>2
<1>7. CASE AttemptFails(r)
  <2>1. CopiesOK'
    BY <1>0, <1>7, CopiesUnchanged DEF AttemptFails
  <2>2. ControlOK'
    BY <1>0, <1>7 DEF AttemptFails, StoreFails, Retry, Goto, TypeOK, ControlOK, PC, Terminal
  <2>. QED BY <2>1, <2>2
<1>8. CASE AwaitDone(r)
  <2>1. CopiesOK'
    BY <1>0, <1>8, CopiesUnchanged DEF AwaitDone
  <2>2. ControlOK'
    BY <1>0, <1>8 DEF AwaitDone, Goto, TypeOK, ControlOK, PC, Terminal
  <2>. QED BY <2>1, <2>2
<1>9. CASE AwaitFails(r)
  <2>1. CopiesOK'
    BY <1>0, <1>9, CopiesUnchanged DEF AwaitFails
  <2>2. ControlOK'
    BY <1>0, <1>9 DEF AwaitFails, Retry, Goto, TypeOK, ControlOK, PC, Terminal
  <2>. QED BY <2>1, <2>2
<1>10. CASE Unregister(r)
  <2>1. CopiesOK'
    BY <1>0, <1>10, CopiesUnchanged DEF Unregister
  <2>2. ControlOK'
    BY <1>0, <1>10 DEF Unregister, Goto, TypeOK, ControlOK, PC, Terminal
  <2>. QED BY <2>1, <2>2
<1>11. CASE CloseDone(r)
  <2>1. CopiesOK'
    BY <1>0, <1>11, CopiesUnchanged DEF CloseDone
  <2>2. ControlOK'
    BY <1>0, <1>11 DEF CloseDone, Goto, TypeOK, ControlOK, PC, Terminal
  <2>. QED BY <2>1, <2>2
<1>12. CASE LoopExit(r)
  <2>1. SaveStep(r, "failed")
    BY <1>12 DEF LoopExit, FailStep
  <2>2. CopiesOK' /\ faults' \in Nat
    BY <1>0, <2>1, SaveStepType DEF StepStatus
  <2>3. ControlOK'
    BY <1>0, <1>12, <2>2 DEF LoopExit, FailStep, Goto, TypeOK, ControlOK, PC, Terminal
  <2>. QED BY <2>2, <2>3
<1>13. CASE MarkStepRunning(r)
  <2>1. SaveStep(r, "running")
    BY <1>13 DEF MarkStepRunning
  <2>2. CopiesOK' /\ faults' \in Nat
    BY <1>0, <2>1, SaveStepType DEF StepStatus
  <2>3. ControlOK'
    BY <1>0, <1>13, <2>2 DEF MarkStepRunning, Goto, TypeOK, ControlOK, PC, Terminal
  <2>. QED BY <2>2, <2>3
<1>14. CASE NodeError(r)
  <2>1. SaveStep(r, "failed")
    BY <1>14 DEF NodeError, FailStep
  <2>2. CopiesOK' /\ faults' \in Nat
    BY <1>0, <2>1, SaveStepType DEF StepStatus
  <2>3. ControlOK'
    BY <1>0, <1>14, <2>2 DEF NodeError, FailStep, Goto, TypeOK, ControlOK, PC, Terminal
  <2>. QED BY <2>2, <2>3
<1>15. CASE StepDone(r)
  <2>1. \E s \in {"completed", "failed"} : SaveStep(r, s)
    BY <1>15 DEF StepDone, FailStep, CompleteStep
  <2>2. CopiesOK' /\ faults' \in Nat
    BY <1>0, <2>1, SaveStepType DEF StepStatus
  <2>3. /\ pc' \in [Runs -> PC] /\ DOMAIN cur' = Runs
        /\ verdict' \in [Runs -> Terminal \cup {"none"}]
        /\ \A q \in Runs : pc'[q] = "finish" => verdict'[q] # "none"
    BY <1>15 DEF StepDone, FailStep, CompleteStep, Goto, TypeOK, ControlOK, PC, Terminal
  <2>4. ControlOK'
    BY <1>0, <1>15, <2>2, <2>3 DEF StepDone, TypeOK, ControlOK
  <2>. QED BY <2>2, <2>4
<1>16. CASE SkipAndSave(r)
  <2>1. mem[r] \in Rows(r)
    BY DEF TypeOK, CopiesOK
  <2>2. SkipPending(mem[r].steps) \in Steps(r)
    BY <2>1, SkipPendingType DEF Rows, Steps
  <2>3. RowOf(mem[r].status, SkipPending(mem[r].steps)) \in Rows(r)
    BY <2>1, <2>2 DEF Rows, RowOf
  <2>4. CopiesOK' /\ faults' \in Nat
    BY <1>0, <1>16, <2>3, SaveType DEF SkipAndSave
  <2>5. ControlOK'
    BY <1>0, <1>16, <2>4 DEF SkipAndSave, Goto, TypeOK, ControlOK, PC, Terminal
  <2>. QED BY <2>4, <2>5
<1>17. CASE FinishRun(r)
  <2>1. mem[r] \in Rows(r)
    BY DEF TypeOK, CopiesOK
  <2>2. verdict[r] \in RunStatus
    BY <1>17 DEF FinishRun, TypeOK, ControlOK, RunStatus
  <2>3. RowOf(verdict[r], mem[r].steps) \in Rows(r)
    BY <2>1, <2>2 DEF Rows, RowOf
  <2>4. CopiesOK' /\ faults' \in Nat
    BY <1>0, <1>17, <2>3, SaveType DEF FinishRun
  <2>5. ControlOK'
    BY <1>0, <1>17, <2>4 DEF FinishRun, Goto, TypeOK, ControlOK, PC, Terminal
  <2>. QED BY <2>4, <2>5
<1>. QED BY <1>2, <1>3, <1>4, <1>5, <1>6, <1>7, <1>8, <1>9, <1>10, <1>11, <1>12, <1>13, <1>14,
  <1>15, <1>16, <1>17 DEF Execute

\* So does every step of the program.
LEMMA TypeNext == TypeOK /\ [Next]_vars => TypeOK'
<1>. SUFFICES ASSUME TypeOK, [Next]_vars PROVE TypeOK'
  OBVIOUS
<1>. USE DEF rest, runnerVars, cancelVars, recoverVars, regVars
<1>1. ASSUME NEW r \in Runs, TriggerRun(r) PROVE TypeOK'
  <2>1. InputOK'
    BY <1>1 DEF TriggerRun, TypeOK, InputOK
  <2>2. \A q : Rows(q)' = Rows(q)
    BY <1>1 DEF TriggerRun, Rows, Steps
  <2>3. CopiesOK'
    BY <1>1, <2>2 DEF TriggerRun, TypeOK, CopiesOK
  <2>4. ControlOK'
    BY <1>1 DEF TriggerRun, Goto, TypeOK, ControlOK, PC
  <2>. QED BY <2>1, <2>3, <2>4 DEF TypeOK
<1>2. ASSUME NEW r \in Runs, Execute(r) PROVE TypeOK'
  BY <1>2, ExecuteType
<1>3. ASSUME NEW r \in Runs, PipelineEnds(r) PROVE TypeOK'
  <2>1. InputOK'
    BY <1>3 DEF PipelineEnds, outside, TypeOK, InputOK
  <2>2. CopiesOK'
    BY <1>3, CopiesUnchanged DEF PipelineEnds, outside
  <2>3. ControlOK'
    BY <1>3 DEF PipelineEnds, outside, TypeOK, ControlOK
  <2>. QED BY <2>1, <2>2, <2>3 DEF TypeOK
<1>4. ASSUME NEW r \in Runs, RecoverStaleRun(r) PROVE TypeOK'
  <2>1. InputOK'
    BY <1>4 DEF RecoverStaleRun, TypeOK, InputOK
  <2>2. \A q : Rows(q)' = Rows(q)
    BY <1>4 DEF RecoverStaleRun, Rows, Steps
  <2>3. Stale("failed", rsnap[r]) \in Rows(r)
    BY <1>4, StaleType DEF RecoverStaleRun, TypeOK, CopiesOK, RunStatus, Terminal
  <2>4. CopiesOK'
    BY <1>4, <2>2, <2>3 DEF RecoverStaleRun, Overwrite, TypeOK, CopiesOK
  <2>5. ControlOK'
    BY <1>4 DEF RecoverStaleRun, StoreFails, TypeOK, ControlOK
  <2>. QED BY <2>1, <2>4, <2>5 DEF TypeOK
<1>5. ASSUME NEW p \in Plans, DeletePlan(p) PROVE TypeOK'
  <2>1. InputOK'
    BY <1>5 DEF DeletePlan, TypeOK, InputOK
  <2>2. \A q : Rows(q)' = Rows(q)
    BY <1>5 DEF DeletePlan, Rows, Steps
  <2>3. CopiesOK'
    BY <1>5, <2>2 DEF DeletePlan, TypeOK, CopiesOK
  <2>4. ControlOK'
    BY <1>5 DEF DeletePlan, TypeOK, ControlOK
  <2>. QED BY <2>1, <2>3, <2>4 DEF TypeOK
<1>6. ASSUME NEW c \in Cancellers, NEW r \in Runs, CancelLookup(c, r) PROVE TypeOK'
  <2>1. InputOK'
    BY <1>6 DEF CancelLookup, TypeOK, InputOK
  <2>2. CopiesOK'
    <3>1. \A d \in Cancellers :
            cpc'[d] = "write" => cpc[d] = "write" /\ crun'[d] = crun[d]
      BY <1>6 DEF CancelLookup, TypeOK, ControlOK
    <3>. QED BY <1>6, <3>1, CopiesUnchanged DEF CancelLookup
  <2>3. ControlOK'
    BY <1>6 DEF CancelLookup, TypeOK, ControlOK
  <2>. QED BY <2>1, <2>2, <2>3 DEF TypeOK
<1>7. ASSUME NEW c \in Cancellers, CancelRun(c) PROVE TypeOK'
  <2>1. InputOK'
    BY <1>7 DEF CancelRun, CancelSeesDone, CancelTimesOut, CancelRead, CancelWrite,
                CancelReadFails, TypeOK, InputOK
  <2>2. CASE CancelSeesDone(c) \/ CancelTimesOut(c) \/ CancelReadFails(c)
    <3>1. \A d \in Cancellers :
            cpc'[d] = "write" => cpc[d] = "write" /\ crun'[d] = crun[d]
      BY <2>2 DEF CancelSeesDone, CancelTimesOut, CancelReadFails, Return, TypeOK, ControlOK
    <3>2. UNCHANGED <<graph, row, mem, rsnap>>
      BY <2>2 DEF CancelSeesDone, CancelTimesOut, CancelReadFails
    <3>3. DOMAIN csnap' = Cancellers /\ \A d \in Cancellers : cpc'[d] = "write" => csnap'[d] = csnap[d]
      BY <2>2 DEF CancelSeesDone, CancelTimesOut, CancelReadFails, Return, TypeOK, CopiesOK,
                  ControlOK
    <3>4. \A q : Rows(q)' = Rows(q)
      BY <3>2 DEF Rows, Steps
    <3>5. \A d \in Cancellers : cpc'[d] = "write" => csnap'[d] \in Rows(crun'[d])
      BY <3>1, <3>3 DEF TypeOK, CopiesOK
    <3>6. CopiesOK'
      BY <3>2, <3>3, <3>4, <3>5 DEF TypeOK, CopiesOK
    <3>7. ControlOK'
      BY <2>2 DEF CancelSeesDone, CancelTimesOut, CancelReadFails, Return, StoreFails,
                  TypeOK, ControlOK
    <3>. QED BY <2>1, <3>6, <3>7 DEF TypeOK
  <2>3. CASE CancelRead(c)
    <3>1. \A q : Rows(q)' = Rows(q)
      BY <2>3 DEF CancelRead, Rows, Steps
    <3>2. crun[c] \in Runs
      BY <2>3 DEF CancelRead, TypeOK, ControlOK
    <3>3. \A d \in Cancellers : cpc'[d] = "write" => csnap'[d] \in Rows(crun'[d])
      BY <2>3, <3>2 DEF CancelRead, Return, TypeOK, CopiesOK, ControlOK
    <3>4. CopiesOK'
      BY <2>3, <3>1, <3>3 DEF CancelRead, Return, TypeOK, CopiesOK
    <3>5. ControlOK'
      BY <2>3 DEF CancelRead, Return, TypeOK, ControlOK
    <3>. QED BY <2>1, <3>4, <3>5 DEF TypeOK
  <2>4. CASE CancelWrite(c)
    <3>1. \A q : Rows(q)' = Rows(q)
      BY <2>4 DEF CancelWrite, Rows, Steps
    <3>2. crun[c] \in Runs /\ csnap[c] \in Rows(crun[c])
      BY <2>4 DEF CancelWrite, TypeOK, CopiesOK, ControlOK
    <3>3. Stale("cancelled", csnap[c]) \in Rows(crun[c])
      BY <3>2, StaleType DEF RunStatus, Terminal
    <3>4. DOMAIN row' = Runs /\ \A q \in Runs : row'[q] = NoRow \/ row'[q] \in Rows(q)
      BY <2>4, <3>2, <3>3 DEF CancelWrite, Overwrite, TypeOK, CopiesOK
    <3>5. \A d \in Cancellers : cpc'[d] = "write" => csnap'[d] \in Rows(crun'[d])
      BY <2>4 DEF CancelWrite, Return, TypeOK, CopiesOK, ControlOK
    <3>6. CopiesOK'
      BY <2>4, <3>1, <3>4, <3>5 DEF CancelWrite, Return, TypeOK, CopiesOK
    <3>7. ControlOK'
      BY <2>4 DEF CancelWrite, Return, StoreFails, TypeOK, ControlOK
    <3>. QED BY <2>1, <3>6, <3>7 DEF TypeOK
  <2>. QED BY <1>7, <2>2, <2>3, <2>4 DEF CancelRun
<1>8. CASE Crash
  <2>1. InputOK'
    BY <1>8 DEF Crash, TypeOK, InputOK
  <2>2. \A q : Rows(q)' = Rows(q)
    BY <1>8 DEF Crash, Rows, Steps
  <2>3. CopiesOK'
    BY <1>8, <2>2 DEF Crash, TypeOK, CopiesOK
  <2>4. ControlOK'
    BY <1>8 DEF Crash, Alive, TypeOK, ControlOK, PC
  <2>. QED BY <2>1, <2>3, <2>4 DEF TypeOK
<1>9. CASE RecoverList
  <2>1. InputOK'
    BY <1>9 DEF RecoverList, TypeOK, InputOK
  <2>2. \A q : Rows(q)' = Rows(q)
    BY <1>9 DEF RecoverList, Rows, Steps
  <2>3. CopiesOK'
    BY <1>9, <2>2 DEF RecoverList, TypeOK, CopiesOK
  <2>4. ControlOK'
    BY <1>9 DEF RecoverList, StoreFails, TypeOK, ControlOK
  <2>. QED BY <2>1, <2>3, <2>4 DEF TypeOK
<1>10. CASE UNCHANGED vars
  <2>1. InputOK' /\ ControlOK'
    BY <1>10 DEF vars, TypeOK, InputOK, ControlOK
  <2>2. CopiesOK'
    BY <1>10, CopiesUnchanged DEF vars
  <2>. QED BY <2>1, <2>2 DEF TypeOK
<1>. QED BY <1>1, <1>2, <1>3, <1>4, <1>5, <1>6, <1>7, <1>8, <1>9, <1>10 DEF Next

\* Whatever the runs, plans, graphs and callers, and however often the store
\* or the process fails, every copy of a run keeps the steps of its graph.
THEOREM TypeCorrect == Spec => []TypeOK
BY TypeInit, TypeNext, PTL DEF Spec
-----------------------------------------------------------------------------
(***************************************************************************)
(* What a row may show once its run is over.  The goroutine's own copy is  *)
(* the key: only the current step of it runs, only while the node is being *)
(* executed; no step of it fails before the walk has ended; and its status *)
(* stays running up to finishRun.                                          *)
(***************************************************************************)
InStep == {"attempt", "await", "nodeError", "stepDone"}
Walking == {"none", "spawned", "ensure", "top", "mark", "skip"} \cup InStep

WalkingCopy(r) ==
  /\ mem[r].status = "running"
  /\ \A n \in DOMAIN mem[r].steps :
       \/ mem[r].steps[n] \in {"pending", "completed"}
       \/ mem[r].steps[n] = "running" /\ n = cur[r] /\ pc[r] \in InStep

FinalCopy(r) ==
  /\ mem[r].status = "running"
  /\ NoneRunning(mem[r].steps)
  /\ verdict[r] = "completed" =>
       \A n \in DOMAIN mem[r].steps : mem[r].steps[n] \in {"completed", "skipped"}

MemInv ==
  \A r \in Runs : /\ pc[r] \in Walking => WalkingCopy(r)
                  /\ pc[r] = "finish" => FinalCopy(r)

\* The copy and the row of a run that a step does not concern.
LEMMA MemUnchanged ==
  ASSUME MemInv, NEW q \in Runs,
         mem'[q] = mem[q], pc'[q] = pc[q], cur'[q] = cur[q], verdict'[q] = verdict[q]
  PROVE  /\ pc'[q] \in Walking => WalkingCopy(q)'
         /\ pc'[q] = "finish" => FinalCopy(q)'
BY DEF MemInv, WalkingCopy, FinalCopy, NoneRunning

\* A step of execute keeps what is known of its copy.
LEMMA ExecuteMem ==
  ASSUME TypeOK, MemInv, NEW r \in Runs, Execute(r)
  PROVE  MemInv'
<1>. USE DEF outside, cancelVars, recoverVars, regVars
<1>1. \A q \in Runs \ {r} : /\ mem'[q] = mem[q] /\ pc'[q] = pc[q]
                            /\ cur'[q] = cur[q] /\ verdict'[q] = verdict[q]
  BY DEF Execute, Register, EnsureSession, EnsureFails, LoopTop, LoopExit, MarkStepRunning,
         BeginAttempt, AttemptFails, AwaitDone, AwaitFails, NodeError, StepDone, SkipAndSave,
         FinishRun, Unregister, CloseDone,
         Retry, CompleteStep, FailStep, SaveStep, Save, Goto, TypeOK, CopiesOK, ControlOK
<1>2. pc[r] \in PC /\ mem[r] \in Rows(r) /\ r \in DOMAIN pc /\ r \in DOMAIN mem
      /\ r \in DOMAIN cur /\ r \in DOMAIN verdict
  BY DEF TypeOK, CopiesOK, ControlOK
<1>. SUFFICES /\ pc'[r] \in Walking => WalkingCopy(r)'
              /\ pc'[r] = "finish" => FinalCopy(r)'
  BY <1>1, MemUnchanged DEF MemInv
<1>. USE DEF Goto, MemInv, WalkingCopy, FinalCopy, NoneRunning, Walking, InStep
<1>3. CASE Register(r)
  BY <1>2, <1>3 DEF Register, Rows, Steps
<1>4. CASE EnsureSession(r)
  BY <1>2, <1>4 DEF EnsureSession, Rows, Steps
<1>5. CASE EnsureFails(r)
  BY <1>2, <1>5 DEF EnsureFails, StoreFails, Rows, Steps
<1>6. CASE LoopTop(r)
  BY <1>2, <1>6 DEF LoopTop, Rows, Steps
<1>7. CASE LoopExit(r)
  BY <1>2, <1>7 DEF LoopExit, FailStep, SaveStep, Save, SetStep, RowOf, Rows, Steps
<1>8. CASE MarkStepRunning(r)
  BY <1>2, <1>8 DEF MarkStepRunning, SaveStep, Save, SetStep, RowOf, Rows, Steps
<1>9. CASE BeginAttempt(r)
  BY <1>2, <1>9 DEF BeginAttempt, Rows, Steps
<1>10. CASE AttemptFails(r)
  BY <1>2, <1>10 DEF AttemptFails, StoreFails, Retry, Rows, Steps
<1>11. CASE AwaitDone(r)
  BY <1>2, <1>11 DEF AwaitDone, Rows, Steps
<1>12. CASE AwaitFails(r)
  BY <1>2, <1>12 DEF AwaitFails, Retry, Rows, Steps
<1>13. CASE NodeError(r)
  BY <1>2, <1>13 DEF NodeError, FailStep, SaveStep, Save, SetStep, RowOf, Rows, Steps
<1>14. CASE StepDone(r)
  BY <1>2, <1>14 DEF StepDone, CompleteStep, FailStep, SaveStep, Save, SetStep, RowOf, Rows, Steps
<1>15. CASE SkipAndSave(r)
  BY <1>2, <1>15 DEF SkipAndSave, Save, SkipPending, RowOf, Rows, Steps
<1>16. CASE FinishRun(r)
  BY <1>2, <1>16 DEF FinishRun, Save, RowOf, Rows, Steps
<1>17. CASE Unregister(r)
  BY <1>2, <1>17 DEF Unregister, Rows, Steps
<1>18. CASE CloseDone(r)
  BY <1>2, <1>18 DEF CloseDone, Rows, Steps
<1>. QED BY <1>3, <1>4, <1>5, <1>6, <1>7, <1>8, <1>9, <1>10, <1>11, <1>12, <1>13, <1>14, <1>15,
  <1>16, <1>17, <1>18 DEF Execute

\* Every step of the program keeps it: the others do not touch the copy,
\* and after a crash nobody reads it.
LEMMA MemNext == TypeOK /\ MemInv /\ [Next]_vars => MemInv'
<1>. SUFFICES ASSUME TypeOK, MemInv, [Next]_vars PROVE MemInv'
  OBVIOUS
<1>. USE DEF rest, outside, runnerVars, cancelVars, recoverVars, regVars
<1>1. CASE \E r \in Runs : Execute(r)
  BY <1>1, ExecuteMem
<1>2. CASE \E r \in Runs : TriggerRun(r)
  BY <1>2 DEF TriggerRun, Goto, TypeOK, ControlOK, MemInv, WalkingCopy, FinalCopy, Walking, InStep
<1>3. CASE Crash
  BY <1>3 DEF Crash, Alive, MemInv, WalkingCopy, FinalCopy, Walking, InStep
<1>4. CASE UNCHANGED <<mem, pc, cur, verdict>>
  BY <1>4 DEF MemInv, WalkingCopy, FinalCopy
<1>. QED
  BY <1>1, <1>2, <1>3, <1>4
  DEF Next, PipelineEnds, RecoverStaleRun, DeletePlan, CancelLookup, CancelRun, CancelSeesDone,
      CancelTimesOut, CancelRead, CancelWrite, CancelReadFails, RecoverList, vars

\* A row with which a save may overwrite another.
GoodRow(m) ==
  /\ m.status \in Terminal => NoneRunning(m.steps)
  /\ m.status = "completed" => \A n \in DOMAIN m.steps : m.steps[n] \in {"completed", "skipped"}

RowsAreGood == \A r \in Runs : row[r] # NoRow => GoodRow(row[r])

\* The two properties of the rows, together.
LEMMA GoodRows ==
  RowsAreGood <=> SettledRunHasNoRunningStep /\ CompletedRunHasOnlyFinishedSteps
BY DEF RowsAreGood, GoodRow, SettledRunHasNoRunningStep, CompletedRunHasOnlyFinishedSteps, Terminal

\* A stale copy is written as failed or cancelled, with no step running.
LEMMA StaleIsGood ==
  ASSUME NEW r \in Runs, NEW m \in Rows(r), NEW s \in {"failed", "cancelled"}
  PROVE  GoodRow(Stale(s, m))
<1>1. NoneRunning(MarkStaleSteps(m.steps))
  BY MarkStaleStepsType DEF Rows, Steps
<1>. QED BY <1>1 DEF GoodRow, Stale, RowOf

\* A save during the walk, or of the verdict at its end, is good.
LEMMA ExecuteRows ==
  ASSUME TypeOK, MemInv, MemInv', RowsAreGood, NEW r \in Runs, Execute(r)
  PROVE  RowsAreGood'
<1>. USE DEF outside, cancelVars, recoverVars, regVars
<1>1. CASE FinishRun(r)
  <2>1. pc[r] = "finish" /\ FinalCopy(r)
    BY <1>1 DEF FinishRun, MemInv
  <2>2. GoodRow(RowOf(verdict[r], mem[r].steps))
    BY <2>1 DEF FinalCopy, GoodRow, RowOf
  <2>. QED BY <1>1, <2>2 DEF FinishRun, Save, Overwrite, RowsAreGood, TypeOK, CopiesOK
<1>2. ASSUME NEW m, Save(r, m), m.status = "running" PROVE RowsAreGood'
  BY <1>2 DEF Save, Overwrite, RowsAreGood, GoodRow, Terminal, TypeOK, CopiesOK
<1>3. CASE UNCHANGED row
  BY <1>3 DEF RowsAreGood
<1>4. CASE LoopExit(r) \/ MarkStepRunning(r) \/ NodeError(r) \/ StepDone(r) \/ SkipAndSave(r)
  <2>1. mem[r].status = "running"
    BY <1>4 DEF LoopExit, MarkStepRunning, NodeError, StepDone, SkipAndSave, MemInv, WalkingCopy,
                Walking, InStep
  <2>2. \/ \E s : SaveStep(r, s)
        \/ Save(r, RowOf(mem[r].status, SkipPending(mem[r].steps)))
    BY <1>4 DEF LoopExit, MarkStepRunning, NodeError, StepDone, SkipAndSave, FailStep, CompleteStep
  <2>3. CASE \E s : SaveStep(r, s)
    <3>1. PICK s : Save(r, RowOf(mem[r].status, SetStep(mem[r].steps, cur[r], s)))
      BY <2>3 DEF SaveStep
    <3>2. RowOf(mem[r].status, SetStep(mem[r].steps, cur[r], s)).status = "running"
      BY <2>1 DEF RowOf
    <3>. QED BY <1>2, <3>1, <3>2
  <2>4. CASE Save(r, RowOf(mem[r].status, SkipPending(mem[r].steps)))
    <3>1. RowOf(mem[r].status, SkipPending(mem[r].steps)).status = "running"
      BY <2>1 DEF RowOf
    <3>. QED BY <1>2, <2>4, <3>1
  <2>. QED BY <2>2, <2>3, <2>4
<1>. QED
  BY <1>1, <1>3, <1>4
  DEF Execute, Register, EnsureSession, EnsureFails, LoopTop, BeginAttempt, AttemptFails,
      AwaitDone, AwaitFails, Unregister, CloseDone

\* No writer of a row, in any order, leaves a bad one.
LEMMA RowsNext == TypeOK /\ MemInv /\ RowsAreGood /\ [Next]_vars => RowsAreGood'
<1>. SUFFICES ASSUME TypeOK, MemInv, RowsAreGood, [Next]_vars PROVE RowsAreGood'
  OBVIOUS
<1>. USE DEF rest, outside, runnerVars, cancelVars, recoverVars, regVars
<1>1. CASE \E r \in Runs : Execute(r)
  BY <1>1, MemNext, ExecuteRows
<1>2. ASSUME NEW r \in Runs, TriggerRun(r) PROVE RowsAreGood'
  <2>1. mem[r].status = "running"
    BY <1>2 DEF TriggerRun, MemInv, WalkingCopy, Walking
  <2>. QED BY <1>2, <2>1 DEF TriggerRun, RowsAreGood, GoodRow, Terminal, TypeOK, CopiesOK
<1>3. ASSUME NEW r \in Runs, RecoverStaleRun(r) PROVE RowsAreGood'
  <2>1. GoodRow(Stale("failed", rsnap[r]))
    BY <1>3, StaleIsGood DEF RecoverStaleRun, TypeOK, CopiesOK
  <2>. QED BY <1>3, <2>1 DEF RecoverStaleRun, Overwrite, RowsAreGood, TypeOK, CopiesOK
<1>4. ASSUME NEW c \in Cancellers, CancelWrite(c) PROVE RowsAreGood'
  <2>1. crun[c] \in Runs /\ csnap[c] \in Rows(crun[c])
    BY <1>4 DEF CancelWrite, TypeOK, CopiesOK, ControlOK
  <2>2. GoodRow(Stale("cancelled", csnap[c]))
    BY <2>1, StaleIsGood
  <2>. QED BY <1>4, <2>1, <2>2 DEF CancelWrite, Overwrite, RowsAreGood, TypeOK, CopiesOK
<1>5. CASE \E p \in Plans : DeletePlan(p)
  BY <1>5 DEF DeletePlan, RowsAreGood
<1>6. CASE UNCHANGED row
  BY <1>6 DEF RowsAreGood
<1>. QED
  BY <1>1, <1>2, <1>3, <1>4, <1>5, <1>6
  DEF Next, PipelineEnds, CancelLookup, CancelRun, CancelSeesDone, CancelTimesOut, CancelRead,
      CancelReadFails, Crash, RecoverList, vars

\* The copy and the rows are good at the start.
LEMMA SettleInit == Init => MemInv /\ RowsAreGood
BY DEF Init, MemInv, WalkingCopy, FinalCopy, RowOf, InitSteps, RowsAreGood

\* However execute, CancelRun, RecoverStaleRuns, the deletion of plans, store
\* errors and crashes interleave: a run that is over has no running step.
THEOREM SettledRuns == Spec => []SettledRunHasNoRunningStep
<1>1. TypeOK /\ MemInv /\ RowsAreGood /\ [Next]_vars => (TypeOK /\ MemInv /\ RowsAreGood)'
  BY TypeNext, MemNext, RowsNext
<1>2. Init => TypeOK /\ MemInv /\ RowsAreGood
  BY TypeInit, SettleInit
<1>3. RowsAreGood => SettledRunHasNoRunningStep
  BY GoodRows
<1>. QED BY <1>1, <1>2, <1>3, PTL DEF Spec

\* ... and a run reported as completed has completed or skipped every step.
THEOREM CompletedRuns == Spec => []CompletedRunHasOnlyFinishedSteps
<1>1. TypeOK /\ MemInv /\ RowsAreGood /\ [Next]_vars => (TypeOK /\ MemInv /\ RowsAreGood)'
  BY TypeNext, MemNext, RowsNext
<1>2. Init => TypeOK /\ MemInv /\ RowsAreGood
  BY TypeInit, SettleInit
<1>3. RowsAreGood => CompletedRunHasOnlyFinishedSteps
  BY GoodRows
<1>. QED BY <1>1, <1>2, <1>3, PTL DEF Spec

-----------------------------------------------------------------------------
(***************************************************************************)
(* Theorems about the run registry and the pipelines of PlanRunner: what   *)
(* CancelRun may conclude from finding a run in memory, from not finding   *)
(* it there, and from seeing its done channel closed.                      *)
(***************************************************************************)
(***************************************************************************)
(* The registry follows the goroutine; a goroutine past finishRun has      *)
(* settled its row, as long as no save has failed.                         *)
(***************************************************************************)
InRegistry == {"ensure", "top", "mark", "attempt", "await", "nodeError", "stepDone", "skip",
               "finish", "unregister"}
Over == {"unregister", "close", "done"}

RegistryInv ==
  /\ \A r \in Runs : r \in registered <=> pc[r] \in InRegistry
  /\ \A r \in Runs : r \in closed => pc[r] = "done"
  /\ \A c \in Cancellers : cpc[c] = "readAfterDone" => crun[c] \in closed

SettledInv ==
  faults = 0 => \A r \in Runs : /\ pc[r] = "none" => row[r] = NoRow
                                /\ pc[r] \in Over /\ row[r] # NoRow => row[r].status \in Terminal

\* Registration and the done channel through every step.
LEMMA RegistryNext == TypeOK /\ RegistryInv /\ [Next]_vars => RegistryInv'
<1>. SUFFICES ASSUME TypeOK, RegistryInv, [Next]_vars PROVE RegistryInv'
  OBVIOUS
<1>. USE DEF rest, outside, runnerVars, cancelVars, recoverVars, regVars
<1>1. ASSUME NEW r \in Runs, Execute(r) PROVE RegistryInv'
  <2>1. UNCHANGED <<cpc, crun>>
    BY <1>1 DEF Execute, Register, EnsureSession, EnsureFails, LoopTop, LoopExit, MarkStepRunning,
         BeginAttempt, AttemptFails, AwaitDone, AwaitFails, NodeError, StepDone, SkipAndSave,
         FinishRun, Unregister, CloseDone
  <2>. USE DEF Goto, TypeOK, ControlOK, RegistryInv, InRegistry
  <2>2. CASE Register(r)
    BY <2>1, <2>2 DEF Register
  <2>3. CASE Unregister(r)
    BY <2>1, <2>3 DEF Unregister
  <2>4. CASE CloseDone(r)
    BY <2>1, <2>4 DEF CloseDone
  <2>5. CASE /\ UNCHANGED <<registered, closed>>
             /\ pc[r] \in InRegistry
             /\ \E l \in InRegistry : pc' = [pc EXCEPT ![r] = l]
    BY <2>1, <2>5
  <2>6. CASE EnsureSession(r) \/ EnsureFails(r) \/ LoopTop(r) \/ BeginAttempt(r) \/ AwaitDone(r)
    BY <2>5, <2>6 DEF EnsureSession, EnsureFails, LoopTop, BeginAttempt, AwaitDone
  <2>7. CASE LoopExit(r) \/ MarkStepRunning(r) \/ AttemptFails(r) \/ AwaitFails(r) \/ NodeError(r)
    BY <2>5, <2>7 DEF LoopExit, MarkStepRunning, AttemptFails, AwaitFails, Retry, NodeError,
                      FailStep
  <2>8. CASE StepDone(r) \/ SkipAndSave(r) \/ FinishRun(r)
    BY <2>5, <2>8 DEF StepDone, CompleteStep, FailStep, SkipAndSave, FinishRun
  <2>. QED BY <1>1, <2>2, <2>3, <2>4, <2>6, <2>7, <2>8 DEF Execute
<1>2. ASSUME NEW r \in Runs, TriggerRun(r) PROVE RegistryInv'
  BY <1>2 DEF TriggerRun, Goto, TypeOK, ControlOK, RegistryInv, InRegistry
<1>3. ASSUME NEW c \in Cancellers, NEW r \in Runs, CancelLookup(c, r) PROVE RegistryInv'
  BY <1>3 DEF CancelLookup, TypeOK, ControlOK, RegistryInv
<1>4. ASSUME NEW c \in Cancellers, CancelRun(c) PROVE RegistryInv'
  BY <1>4 DEF CancelRun, CancelSeesDone, CancelTimesOut, CancelRead, CancelWrite, CancelReadFails,
              Return, TypeOK, ControlOK, RegistryInv
<1>5. CASE Crash
  BY <1>5 DEF Crash, Alive, TypeOK, ControlOK, PC, RegistryInv, InRegistry
<1>6. CASE UNCHANGED <<pc, registered, closed, cpc, crun>>
  BY <1>6 DEF RegistryInv
<1>. QED
  BY <1>1, <1>2, <1>3, <1>4, <1>5, <1>6
  DEF Next, PipelineEnds, RecoverStaleRun, DeletePlan, RecoverList, vars

\* A save by the goroutine of run r: its own row only, and only if it exists.
LEMMA SaveSettles ==
  ASSUME TypeOK, SettledInv, NEW r \in Runs, NEW m, Save(r, m), NEW l, Goto(r, l),
         pc[r] \notin Over, l # "none", l \in Over => m.status \in Terminal
  PROVE  SettledInv'
BY DEF Save, StoreFails, Overwrite, Goto, TypeOK, CopiesOK, ControlOK, SettledInv

\* Rows of finished runs through every step.
LEMMA SettledNext == TypeOK /\ SettledInv /\ [Next]_vars => SettledInv'
<1>. SUFFICES ASSUME TypeOK, SettledInv, [Next]_vars PROVE SettledInv'
  OBVIOUS
<1>. USE DEF rest, outside, runnerVars, cancelVars, recoverVars, regVars
<1>1. ASSUME NEW r \in Runs, Execute(r) PROVE SettledInv'
  <2>1. CASE /\ UNCHANGED row /\ (faults' = faults \/ StoreFails)
             /\ pc[r] # "none"
             /\ \E l \in PC : /\ pc' = [pc EXCEPT ![r] = l] /\ l # "none"
                              /\ l \in Over => pc[r] \in Over
    BY <2>1 DEF StoreFails, TypeOK, ControlOK, SettledInv
  <2>2. CASE Register(r) \/ EnsureSession(r) \/ EnsureFails(r) \/ LoopTop(r)
    BY <2>1, <2>2 DEF Register, EnsureSession, EnsureFails, LoopTop, Goto, PC, Over
  <2>3. CASE BeginAttempt(r) \/ AttemptFails(r) \/ AwaitDone(r) \/ AwaitFails(r)
    BY <2>1, <2>3 DEF BeginAttempt, AttemptFails, AwaitDone, AwaitFails, Retry, Goto, PC, Over
  <2>4. CASE Unregister(r) \/ CloseDone(r)
    BY <2>1, <2>4 DEF Unregister, CloseDone, Goto, PC, Over
  <2>5. CASE FinishRun(r)
    <3>1. verdict[r] \in Terminal /\ pc[r] = "finish"
      BY <2>5 DEF FinishRun, TypeOK, ControlOK
    <3>2. Save(r, RowOf(verdict[r], mem[r].steps)) /\ Goto(r, "unregister")
      BY <2>5 DEF FinishRun
    <3>3. RowOf(verdict[r], mem[r].steps).status \in Terminal
      BY <3>1 DEF RowOf
    <3>. QED BY <3>1, <3>2, <3>3, SaveSettles DEF Over
  <2>6. CASE LoopExit(r) \/ MarkStepRunning(r) \/ NodeError(r) \/ StepDone(r) \/ SkipAndSave(r)
    <3>1. pc[r] \notin Over
      BY <2>6 DEF LoopExit, MarkStepRunning, NodeError, StepDone, SkipAndSave, Over
    <3>2. \E m : Save(r, m)
      BY <2>6 DEF LoopExit, MarkStepRunning, NodeError, StepDone, SkipAndSave, FailStep,
                  CompleteStep, SaveStep
    <3>3. \E l : Goto(r, l) /\ l # "none" /\ l \notin Over
      BY <2>6 DEF LoopExit, MarkStepRunning, NodeError, StepDone, SkipAndSave, FailStep,
                  CompleteStep, Over
    <3>. QED BY <3>1, <3>2, <3>3, SaveSettles
  <2>. QED BY <1>1, <2>2, <2>3, <2>4, <2>5, <2>6 DEF Execute
<1>2. ASSUME NEW r \in Runs, TriggerRun(r) PROVE SettledInv'
  BY <1>2 DEF TriggerRun, Goto, Over, TypeOK, CopiesOK, ControlOK, SettledInv
<1>3. ASSUME NEW r \in Runs, RecoverStaleRun(r) PROVE SettledInv'
  BY <1>3 DEF RecoverStaleRun, StoreFails, Overwrite, Stale, RowOf, Terminal,
              TypeOK, CopiesOK, ControlOK, SettledInv
<1>4. ASSUME NEW c \in Cancellers, CancelWrite(c) PROVE SettledInv'
  BY <1>4 DEF CancelWrite, StoreFails, Overwrite, Stale, RowOf, Terminal,
              TypeOK, CopiesOK, ControlOK, SettledInv
<1>5. CASE \E p \in Plans : DeletePlan(p)
  BY <1>5 DEF DeletePlan, SettledInv
<1>6. CASE Crash
  BY <1>6 DEF Crash, Alive, Over, TypeOK, ControlOK, SettledInv
<1>7. CASE UNCHANGED <<row, pc>> /\ (faults' = faults \/ StoreFails)
  BY <1>7 DEF StoreFails, TypeOK, ControlOK, SettledInv
<1>. QED
  BY <1>1, <1>2, <1>3, <1>4, <1>5, <1>6, <1>7
  DEF Next, PipelineEnds, CancelLookup, CancelRun, CancelSeesDone, CancelTimesOut, CancelRead,
      CancelReadFails, RecoverList, vars

\* Nobody is registered at the start.
LEMMA RegistryInit == Init => RegistryInv /\ SettledInv
BY DEF Init, RegistryInv, InRegistry, SettledInv, Over

\* CancelRun never overwrites the outcome of a run whose end it has seen:
\* whatever the interleaving, the row is settled before the channel closes.
THEOREM DoneIsSettled == Spec => []DoneMeansSettled
<1>1. TypeOK /\ RegistryInv /\ SettledInv => DoneMeansSettled
  BY DEF TypeOK, ControlOK, RegistryInv, SettledInv, DoneMeansSettled, Over
<1>. QED
  BY <1>1, RegistryInit, RegistryNext, SettledNext, TypeInit, TypeNext, PTL DEF Spec

\* A running row that CancelRun cannot find in memory is starting or stale.
THEOREM UnregisteredIsStartingOrStale == Spec => []UnregisteredRunIsStartingOrStale
<1>1. TypeOK /\ RegistryInv /\ SettledInv => UnregisteredRunIsStartingOrStale
  BY DEF TypeOK, ControlOK, PC, RegistryInv, InRegistry, SettledInv, Over, Terminal,
         UnregisteredRunIsStartingOrStale
<1>. QED
  BY <1>1, RegistryInit, RegistryNext, SettledNext, TypeInit, TypeNext, PTL DEF Spec
-----------------------------------------------------------------------------
(***************************************************************************)
(* The pipelines.  One that is alive is the one executeNode waits for, or  *)
(* its run has been cancelled, and a cancelled run starts no other.        *)
(***************************************************************************)
PipeInv ==
  \A r \in Runs : /\ pipes[r] <= 1
                  /\ pipes[r] > 0 => r \in cancelled \/ (pc[r] = "await" /\ msg[r] = "pending")

\* The pipelines through every step.
LEMMA PipeNext == TypeOK /\ PipeInv /\ [Next]_vars => PipeInv'
<1>. SUFFICES ASSUME TypeOK, PipeInv, [Next]_vars PROVE PipeInv'
  OBVIOUS
<1>. USE DEF rest, outside, runnerVars, cancelVars, recoverVars, regVars
<1>1. ASSUME NEW r \in Runs, Execute(r) PROVE PipeInv'
  <2>. USE DEF Goto, TypeOK, ControlOK, PipeInv
  <2>1. CASE BeginAttempt(r)
    BY <2>1 DEF BeginAttempt
  <2>2. CASE AwaitDone(r) \/ AwaitFails(r)
    BY <2>2 DEF AwaitDone, AwaitFails, Retry
  <2>3. CASE CloseDone(r)
    BY <2>3 DEF CloseDone
  <2>4. CASE /\ UNCHANGED <<pipes, msg, cancelled>>
             /\ pc[r] # "await" /\ \E l : pc' = [pc EXCEPT ![r] = l]
    BY <2>4
  <2>. QED
    BY <1>1, <2>1, <2>2, <2>3, <2>4
    DEF Execute, Register, EnsureSession, EnsureFails, LoopTop, LoopExit, MarkStepRunning,
        AttemptFails, Retry, NodeError, StepDone, CompleteStep, FailStep, SkipAndSave, FinishRun,
        Unregister
<1>2. ASSUME NEW r \in Runs, PipelineEnds(r) PROVE PipeInv'
  BY <1>2 DEF PipelineEnds, TypeOK, ControlOK, PipeInv
<1>3. ASSUME NEW r \in Runs, TriggerRun(r) PROVE PipeInv'
  BY <1>3 DEF TriggerRun, Goto, TypeOK, ControlOK, PipeInv
<1>4. ASSUME NEW c \in Cancellers, NEW r \in Runs, CancelLookup(c, r) PROVE PipeInv'
  BY <1>4 DEF CancelLookup, PipeInv
<1>5. CASE Crash
  BY <1>5 DEF Crash, PipeInv
<1>6. CASE UNCHANGED <<pc, pipes, msg, cancelled>>
  BY <1>6 DEF PipeInv
<1>. QED
  BY <1>1, <1>2, <1>3, <1>4, <1>5, <1>6
  DEF Next, RecoverStaleRun, DeletePlan, CancelRun, CancelSeesDone, CancelTimesOut, CancelRead,
      CancelWrite, CancelReadFails, RecoverList, vars

\* Two generations never write to the session of one run at a time.
THEOREM OnePipeline == Spec => []OnePipelinePerRun
<1>1. Init => PipeInv
  BY DEF Init, PipeInv
<1>2. TypeOK /\ PipeInv => OnePipelinePerRun
  BY DEF TypeOK, ControlOK, PipeInv, OnePipelinePerRun
<1>. QED BY <1>1, <1>2, PipeNext, TypeInit, TypeNext, PTL DEF Spec

-----------------------------------------------------------------------------
(* The walk: the rows only ever show a walk of the plan's graph, and the walk is *)
(* bounded on every graph.                                                       *)
(***************************************************************************)
(* Lemmas on graphs.                                                       *)
(***************************************************************************)
\* First picks an element, the least one.
LEMMA FirstElement ==
  ASSUME NEW I, I \subseteq Nat, I # {}
  PROVE  First(I) \in I
<1>. DEFINE R == {ss \in Nat \X Nat : ss[1] < ss[2]}
<1>1. IsWellFoundedOn(R, Nat)
  BY NatLessThanWellFounded DEF OpToRel
<1>2. \A j, i \in Nat : j < i => <<j, i>> \in R
  OBVIOUS
<1>. HIDE DEF R
<1>3. PICK i \in I : \A j \in I : ~(<<j, i>> \in R)
  BY <1>1, WFMin
<1>4. ASSUME NEW j \in I PROVE i <= j
  <2>1. i \in Nat /\ j \in Nat
    OBVIOUS
  <2>2. ~(j < i)
    BY <1>2, <1>3, <2>1
  <2>. QED BY <2>1, <2>2
<1>. QED BY <1>4 DEF First

Leads(g, n, t) == \E e \in DOMAIN g.edges : g.edges[e].source = n /\ g.edges[e].target = t

\* What the code picks from some of a node's edges is the end of an edge.
LEMMA FirstTargetLeads ==
  ASSUME NEW g, GraphOK(g), NEW n, NEW I \in SUBSET OutEdges(g, n), FirstTarget(g, I) # NoNode
  PROVE  Leads(g, n, FirstTarget(g, I))
<1>1. I # {} /\ FirstTarget(g, I) = g.edges[First(I)].target
  BY DEF FirstTarget
<1>2. I \subseteq DOMAIN g.edges /\ I \subseteq Nat /\ \A e \in I : g.edges[e].source = n
  BY DEF OutEdges, GraphOK
<1>3. First(I) \in I
  BY <1>1, <1>2, FirstElement
<1>. QED BY <1>1, <1>2, <1>3 DEF Leads

\* findNextNode and findEdgeTarget return "" or the end of one of the edges.
LEMMA SuccessorLeads ==
  ASSUME NEW g, GraphOK(g), NEW n
  PROVE  /\ FindNextNode(g, n) # NoNode => Leads(g, n, FindNextNode(g, n))
         /\ \A label : FindEdgeTarget(g, n, label) # NoNode =>
                         Leads(g, n, FindEdgeTarget(g, n, label))
<1>1. FindNextNode(g, n) # NoNode => Leads(g, n, FindNextNode(g, n))
  BY FirstTargetLeads DEF FindNextNode
<1>2. ASSUME NEW label, FindEdgeTarget(g, n, label) # NoNode
      PROVE  Leads(g, n, FindEdgeTarget(g, n, label))
  <2>. DEFINE labelled == {i \in OutEdges(g, n) : g.edges[i].label = label}
  <2>1. labelled \in SUBSET OutEdges(g, n)
    OBVIOUS
  <2>2. \/ FindEdgeTarget(g, n, label) = FirstTarget(g, labelled)
        \/ FindEdgeTarget(g, n, label) = FindNextNode(g, n)
    BY DEF FindEdgeTarget
  <2>. HIDE DEF labelled
  <2>. QED BY <1>1, <1>2, <2>1, <2>2, FirstTargetLeads
<1>. QED BY <1>1, <1>2

\* executeWithRetry's bound on the attempts is a natural number.
LEMMA MaxRetriesType ==
  ASSUME NEW g, GraphOK(g), NEW n \in NodeIds(g)
  PROVE  MaxRetries(g, n) \in Nat
<1>. DEFINE I == {i \in DOMAIN g.nodes : g.nodes[i].id = n}
<1>1. I # {} /\ I \subseteq Nat /\ I \subseteq DOMAIN g.nodes
  BY DEF NodeIds, GraphOK
<1>2. First(I) \in DOMAIN g.nodes
  BY <1>1, FirstElement
<1>3. NodeOf(g, n).retries \in Int
  BY <1>2 DEF NodeOf, GraphOK
<1>. QED BY <1>3 DEF MaxRetries
-----------------------------------------------------------------------------
(***************************************************************************)
(* Lemmas on steps that have been executed along the edges.                *)
(***************************************************************************)
\* Executing a node that has been reached keeps the walk, and what it leads to.
LEMMA SetStepFollows ==
  ASSUME NEW g, NEW steps, FollowsEdges(g, steps), NEW n, Reached(g, steps, n), NEW s \in Touched
  PROVE  /\ FollowsEdges(g, SetStep(steps, n, s))
         /\ \A m : Reached(g, steps, m) => Reached(g, SetStep(steps, n, s), m)
<1>1. \A m \in DOMAIN steps : steps[m] \in Touched => SetStep(steps, n, s)[m] \in Touched
  BY DEF SetStep
<1>2. DOMAIN SetStep(steps, n, s) = DOMAIN steps
  BY DEF SetStep
<1>3. \A m : Reached(g, steps, m) => Reached(g, SetStep(steps, n, s), m)
  BY <1>1, <1>2 DEF Reached
<1>4. \A m \in DOMAIN steps : SetStep(steps, n, s)[m] \in Touched => m = n \/ steps[m] \in Touched
  BY DEF SetStep
<1>. QED BY <1>2, <1>3, <1>4 DEF FollowsEdges

\* skipPending and markStaleSteps change no executed step into another kind.
LEMMA SweepFollows ==
  ASSUME NEW g, NEW steps, FollowsEdges(g, steps)
  PROVE  FollowsEdges(g, SkipPending(steps)) /\ FollowsEdges(g, MarkStaleSteps(steps))
<1>1. \A m \in DOMAIN steps : SkipPending(steps)[m] \in Touched <=> steps[m] \in Touched
  BY DEF SkipPending, Touched
<1>2. \A m \in DOMAIN steps : MarkStaleSteps(steps)[m] \in Touched <=> steps[m] \in Touched
  BY DEF MarkStaleSteps, Touched
<1>3. DOMAIN SkipPending(steps) = DOMAIN steps /\ DOMAIN MarkStaleSteps(steps) = DOMAIN steps
  BY DEF SkipPending, MarkStaleSteps
<1>. QED BY <1>1, <1>2, <1>3 DEF FollowsEdges, Reached
-----------------------------------------------------------------------------
(***************************************************************************)
(* Every copy of a run shows a walk, and the current node is where the     *)
(* walk in the goroutine's own copy leads.                                 *)
(***************************************************************************)
AtNode == {"mark"} \cup InStep

CopiesFollow ==
  /\ \A r \in Runs : row[r] # NoRow => FollowsEdges(graph[r], row[r].steps)
  /\ \A r \in Runs : rsnap[r] # NoRow => FollowsEdges(graph[r], rsnap[r].steps)
  /\ \A c \in Cancellers : cpc[c] = "write" => FollowsEdges(graph[crun[c]], csnap[c].steps)

WalkFollows ==
  \A r \in Runs : /\ FollowsEdges(graph[r], mem[r].steps)
                  /\ pc[r] \in {"top"} \cup AtNode => Reached(graph[r], mem[r].steps, cur[r])
                  /\ pc[r] \in AtNode => cur[r] \in NodeIds(graph[r])

\* The walk begins with nothing executed.
LEMMA WalkInit == Init => CopiesFollow /\ WalkFollows
<1>. SUFFICES ASSUME Init PROVE CopiesFollow /\ WalkFollows
  OBVIOUS
<1>1. \A r \in Runs : FollowsEdges(graph[r], mem[r].steps)
  BY DEF Init, RowOf, InitSteps, FollowsEdges, Touched
<1>. QED BY <1>1 DEF Init, CopiesFollow, WalkFollows, AtNode, InStep

\* A save of a walk of run r keeps the copies walks.
LEMMA SaveFollows ==
  ASSUME TypeOK, CopiesFollow, NEW r \in Runs, NEW m, Save(r, m), FollowsEdges(graph[r], m.steps),
         UNCHANGED <<graph, rsnap, csnap, cpc, crun>>
  PROVE  /\ CopiesFollow'
         /\ mem'[r] = m
BY DEF Save, Overwrite, TypeOK, CopiesOK, CopiesFollow

\* A step of execute keeps the walk.
LEMMA ExecuteWalk ==
  ASSUME TypeOK, CopiesFollow, WalkFollows, NEW r \in Runs, Execute(r)
  PROVE  CopiesFollow' /\ WalkFollows'
<1>. USE DEF outside, cancelVars, recoverVars, regVars
<1>1. UNCHANGED <<graph, rsnap, csnap, cpc, crun>>
  BY DEF Execute, Register, EnsureSession, EnsureFails, LoopTop, LoopExit, MarkStepRunning,
         BeginAttempt, AttemptFails, AwaitDone, AwaitFails, NodeError, StepDone, SkipAndSave,
         FinishRun, Unregister, CloseDone
<1>2. \A q \in Runs \ {r} : mem'[q] = mem[q] /\ pc'[q] = pc[q] /\ cur'[q] = cur[q]
  BY DEF Execute, Register, EnsureSession, EnsureFails, LoopTop, LoopExit, MarkStepRunning,
         BeginAttempt, AttemptFails, AwaitDone, AwaitFails, NodeError, StepDone, SkipAndSave,
         FinishRun, Unregister, CloseDone,
         Retry, CompleteStep, FailStep, SaveStep, Save, Goto, TypeOK, CopiesOK, ControlOK
<1>3. /\ mem[r] \in Rows(r) /\ graph[r] \in Graphs /\ GraphOK(graph[r])
      /\ r \in DOMAIN pc /\ r \in DOMAIN mem /\ r \in DOMAIN cur
  BY RunnerAssumption DEF TypeOK, InputOK, CopiesOK, ControlOK
<1>. DEFINE g == graph[r]
            Good(steps, label, n) ==
              /\ FollowsEdges(g, steps)
              /\ label \in {"top"} \cup AtNode => Reached(g, steps, n)
              /\ label \in AtNode => n \in NodeIds(g)
<1>4. Good(mem[r].steps, pc[r], cur[r])
  BY DEF WalkFollows
<1>5. ASSUME CopiesFollow', Good(mem'[r].steps, pc'[r], cur'[r]) PROVE CopiesFollow' /\ WalkFollows'
  BY <1>1, <1>2, <1>5 DEF WalkFollows
<1>6. ASSUME UNCHANGED <<row, mem>> PROVE CopiesFollow'
  BY <1>1, <1>6 DEF CopiesFollow
<1>7. ASSUME NEW s \in Touched, SaveStep(r, s), Reached(g, mem[r].steps, cur[r])
      PROVE  /\ CopiesFollow'
             /\ mem'[r].steps = SetStep(mem[r].steps, cur[r], s)
             /\ FollowsEdges(g, mem'[r].steps)
             /\ \A n : Reached(g, mem[r].steps, n) => Reached(g, mem'[r].steps, n)
  <2>. DEFINE m == RowOf(mem[r].status, SetStep(mem[r].steps, cur[r], s))
  <2>1. m.steps = SetStep(mem[r].steps, cur[r], s)
    BY DEF RowOf
  <2>2. /\ FollowsEdges(g, m.steps)
        /\ \A n : Reached(g, mem[r].steps, n) => Reached(g, m.steps, n)
    BY <1>4, <1>7, <2>1, SetStepFollows
  <2>3. Save(r, m)
    BY <1>7 DEF SaveStep
  <2>. HIDE DEF m
  <2>4. CopiesFollow' /\ mem'[r] = m
    BY <1>1, <2>2, <2>3, SaveFollows
  <2>. QED BY <2>1, <2>2, <2>4
<1>. USE DEF Goto, AtNode, InStep
<1>8. CASE Register(r) \/ EnsureFails(r) \/ LoopTop(r) \/ BeginAttempt(r) \/ AttemptFails(r)
           \/ AwaitDone(r) \/ AwaitFails(r) \/ Unregister(r) \/ CloseDone(r)
  BY <1>3, <1>4, <1>5, <1>6, <1>8
  DEF Register, EnsureFails, LoopTop, BeginAttempt, AttemptFails, AwaitDone, AwaitFails, Retry,
      Unregister, CloseDone
<1>9. CASE EnsureSession(r)
  BY <1>3, <1>4, <1>5, <1>6, <1>9 DEF EnsureSession, Reached
<1>10. CASE MarkStepRunning(r)
  <2>1. SaveStep(r, "running") /\ Reached(g, mem[r].steps, cur[r]) /\ cur[r] \in NodeIds(g)
    BY <1>4, <1>10 DEF MarkStepRunning
  <2>2. cur'[r] = cur[r]
    BY <1>10 DEF MarkStepRunning
  <2>. QED BY <1>5, <1>7, <2>1, <2>2 DEF Touched
<1>11. CASE LoopExit(r) \/ NodeError(r)
  <2>1. SaveStep(r, "failed") /\ Reached(g, mem[r].steps, cur[r]) /\ pc'[r] = "finish"
    BY <1>3, <1>4, <1>11 DEF LoopExit, NodeError, FailStep
  <2>. QED BY <1>5, <1>7, <2>1 DEF Touched
<1>12. CASE StepDone(r)
  <2>1. Reached(g, mem[r].steps, cur[r]) /\ cur[r] \in NodeIds(g)
    BY <1>4, <1>12 DEF StepDone
  <2>2. CASE FailStep(r, "failed")
    BY <1>3, <1>5, <1>7, <2>1, <2>2 DEF FailStep, Touched
  <2>3. ASSUME NEW next, CompleteStep(r, next),
               next # NoNode => Leads(g, cur[r], next)
        PROVE  CopiesFollow' /\ WalkFollows'
    <3>1. SaveStep(r, "completed")
      BY <2>3 DEF CompleteStep
    <3>2. /\ CopiesFollow'
          /\ FollowsEdges(g, mem'[r].steps)
          /\ mem'[r].steps = SetStep(mem[r].steps, cur[r], "completed")
      BY <1>7, <2>1, <3>1 DEF Touched
    <3>3. cur[r] \in DOMAIN mem'[r].steps /\ mem'[r].steps[cur[r]] \in Touched
      BY <1>3, <2>1, <3>2 DEF SetStep, Rows, Steps, Touched
    <3>4. next # NoNode => Reached(g, mem'[r].steps, next)
      BY <2>3, <3>3 DEF Leads, Reached
    <3>5. \/ next = NoNode /\ pc'[r] = "skip"
          \/ next # NoNode /\ pc'[r] = "top" /\ cur'[r] = next
      BY <1>3, <2>3 DEF CompleteStep
    <3>6. Good(mem'[r].steps, pc'[r], cur'[r])
      BY <3>2, <3>4, <3>5
    <3>. QED BY <1>5, <3>2, <3>6
  <2>4. /\ FindNextNode(g, cur[r]) # NoNode => Leads(g, cur[r], FindNextNode(g, cur[r]))
        /\ \A label : FindEdgeTarget(g, cur[r], label) # NoNode =>
                        Leads(g, cur[r], FindEdgeTarget(g, cur[r], label))
    BY <1>3, SuccessorLeads
  <2>5. \/ FailStep(r, "failed")
        \/ CompleteStep(r, FindNextNode(g, cur[r]))
        \/ \E label : CompleteStep(r, FindEdgeTarget(g, cur[r], label))
    BY <1>12 DEF StepDone
  <2>. HIDE DEF g
  <2>. QED BY <2>2, <2>3, <2>4, <2>5
<1>13. CASE SkipAndSave(r)
  <2>. DEFINE m == RowOf(mem[r].status, SkipPending(mem[r].steps))
  <2>1. m.steps = SkipPending(mem[r].steps)
    BY DEF RowOf
  <2>2. FollowsEdges(g, m.steps)
    BY <1>4, <2>1, SweepFollows
  <2>3. Save(r, m) /\ pc'[r] = "finish"
    BY <1>3, <1>13 DEF SkipAndSave
  <2>. HIDE DEF m
  <2>4. CopiesFollow' /\ mem'[r] = m
    BY <1>1, <2>2, <2>3, SaveFollows
  <2>. QED BY <1>5, <2>2, <2>3, <2>4
<1>14. CASE FinishRun(r)
  <2>. DEFINE m == RowOf(verdict[r], mem[r].steps)
  <2>1. m.steps = mem[r].steps
    BY DEF RowOf
  <2>2. FollowsEdges(g, m.steps)
    BY <1>4, <2>1
  <2>3. Save(r, m) /\ pc'[r] = "unregister"
    BY <1>3, <1>14 DEF FinishRun
  <2>. HIDE DEF m
  <2>4. CopiesFollow' /\ mem'[r] = m
    BY <1>1, <2>2, <2>3, SaveFollows
  <2>. QED BY <1>5, <2>2, <2>3, <2>4
<1>. QED BY <1>8, <1>9, <1>10, <1>11, <1>12, <1>13, <1>14 DEF Execute

\* So does every step of the program.
LEMMA WalkNext == TypeOK /\ CopiesFollow /\ WalkFollows /\ [Next]_vars => CopiesFollow' /\ WalkFollows'
<1>. SUFFICES ASSUME TypeOK, CopiesFollow, WalkFollows,
[Next]_vars PROVE CopiesFollow' /\ WalkFollows'
  OBVIOUS
<1>. USE DEF rest, outside, runnerVars, cancelVars, recoverVars, regVars
<1>1. CASE \E r \in Runs : Execute(r)
  BY <1>1, ExecuteWalk
<1>2. ASSUME NEW r \in Runs, TriggerRun(r) PROVE CopiesFollow' /\ WalkFollows'
  <2>1. CopiesFollow'
    BY <1>2 DEF TriggerRun, TypeOK, CopiesOK, CopiesFollow, WalkFollows
  <2>2. WalkFollows'
    BY <1>2 DEF TriggerRun, Goto, TypeOK, ControlOK, WalkFollows, AtNode, InStep
  <2>. QED BY <2>1, <2>2
<1>3. ASSUME NEW r \in Runs, RecoverStaleRun(r) PROVE CopiesFollow' /\ WalkFollows'
  <2>1. FollowsEdges(graph[r], Stale("failed", rsnap[r]).steps)
    BY <1>3, SweepFollows DEF RecoverStaleRun, Stale, RowOf, CopiesFollow
  <2>2. CopiesFollow'
    BY <1>3, <2>1 DEF RecoverStaleRun, Overwrite, TypeOK, CopiesOK, CopiesFollow
  <2>. QED BY <1>3, <2>2 DEF RecoverStaleRun, WalkFollows
<1>4. ASSUME NEW c \in Cancellers, CancelWrite(c) PROVE CopiesFollow' /\ WalkFollows'
  <2>1. crun[c] \in Runs
    BY <1>4 DEF CancelWrite, TypeOK, ControlOK
  <2>2. FollowsEdges(graph[crun[c]], Stale("cancelled", csnap[c]).steps)
    BY <1>4, SweepFollows DEF CancelWrite, Stale, RowOf, CopiesFollow
  <2>3. CopiesFollow'
    BY <1>4, <2>1, <2>2 DEF CancelWrite, Return, Overwrite, TypeOK, CopiesOK, ControlOK,
                            CopiesFollow
  <2>. QED BY <1>4, <2>3 DEF CancelWrite, WalkFollows
<1>5. ASSUME NEW c \in Cancellers, CancelRead(c) PROVE CopiesFollow' /\ WalkFollows'
  <2>1. crun[c] \in Runs
    BY <1>5 DEF CancelRead, TypeOK, ControlOK
  <2>2. CopiesFollow'
    BY <1>5, <2>1 DEF CancelRead, Return, TypeOK, CopiesOK, ControlOK, CopiesFollow
  <2>. QED BY <1>5, <2>2 DEF CancelRead, WalkFollows
<1>6. ASSUME NEW c \in Cancellers, CancelSeesDone(c) \/ CancelTimesOut(c) \/ CancelReadFails(c)
      PROVE  CopiesFollow' /\ WalkFollows'
  <2>1. CopiesFollow'
    BY <1>6 DEF CancelSeesDone, CancelTimesOut, CancelReadFails, Return, TypeOK, CopiesOK,
                ControlOK,
                CopiesFollow
  <2>. QED BY <1>6, <2>1 DEF CancelSeesDone, CancelTimesOut, CancelReadFails, WalkFollows
<1>7. ASSUME NEW c \in Cancellers, NEW r \in Runs, CancelLookup(c, r)
      PROVE  CopiesFollow' /\ WalkFollows'
  BY <1>7 DEF CancelLookup, TypeOK, ControlOK, CopiesFollow, WalkFollows
<1>8. CASE \E p \in Plans : DeletePlan(p)
  BY <1>8 DEF DeletePlan, CopiesFollow, WalkFollows
<1>9. CASE Crash
  BY <1>9 DEF Crash, Alive, CopiesFollow, WalkFollows, AtNode, InStep
<1>10. CASE RecoverList
  BY <1>10 DEF RecoverList, CopiesFollow, WalkFollows
<1>11. CASE UNCHANGED <<graph, row, mem, pc, cur, rsnap, csnap, cpc, crun>>
  BY <1>11 DEF CopiesFollow, WalkFollows
<1>. QED
  BY <1>1, <1>2, <1>3, <1>4, <1>5, <1>6, <1>7, <1>8, <1>9, <1>10, <1>11
  DEF Next, PipelineEnds, CancelRun, vars

\* On every graph, whichever writer wrote the row last: what it shows as
\* executed is a walk along the edges from the start node.
THEOREM RowsFollowEdges == Spec => []ExecutedStepsFollowEdges
<1>1. CopiesFollow => ExecutedStepsFollowEdges
  BY DEF CopiesFollow, ExecutedStepsFollowEdges
<1>2. TypeOK /\ CopiesFollow /\ WalkFollows /\ [Next]_vars => (TypeOK /\ CopiesFollow /\ WalkFollows)'
  BY TypeNext, WalkNext
<1>. QED BY <1>1, <1>2, TypeInit, WalkInit, PTL DEF Spec
-----------------------------------------------------------------------------
(***************************************************************************)
(* The bound on the walk: the counter is checked before the node is.       *)
(***************************************************************************)
BoundInv ==
  \A r \in Runs :
    /\ transitions[r] <= MaxTransitions + 1
    /\ pc[r] \in Walking => transitions[r] <= MaxTransitions
    /\ pc[r] \in AtNode => transitions[r] >= 1
    /\ pc[r] \in {"attempt", "await"} => attempt[r] <= MaxRetries(graph[r], cur[r])

\* Every step keeps the walk within its bounds.
LEMMA BoundNext == TypeOK /\ WalkFollows /\ BoundInv /\ [Next]_vars => BoundInv'
<1>. SUFFICES ASSUME TypeOK, WalkFollows, BoundInv, [Next]_vars PROVE BoundInv'
  OBVIOUS
<1>. USE DEF rest, outside, runnerVars, cancelVars, recoverVars, regVars
<1>1. ASSUME NEW r \in Runs, Execute(r) PROVE BoundInv'
  <2>1. MaxTransitions \in Nat /\ transitions[r] \in Nat /\ attempt[r] \in Nat /\ GraphOK(graph[r])
    BY RunnerAssumption DEF TypeOK, InputOK, ControlOK
  <2>2. pc[r] \in AtNode => MaxRetries(graph[r], cur[r]) \in Nat
    BY <2>1, MaxRetriesType DEF WalkFollows
  <2>. USE DEF Goto, TypeOK, ControlOK, BoundInv, Walking, InStep, AtNode
  <2>3. CASE LoopTop(r)
    BY <2>1, <2>3 DEF LoopTop
  <2>4. CASE LoopExit(r)
    BY <2>1, <2>4 DEF LoopExit, FailStep
  <2>5. CASE MarkStepRunning(r)
    BY <2>1, <2>2, <2>5 DEF MarkStepRunning
  <2>6. CASE AttemptFails(r) \/ AwaitFails(r)
    BY <2>1, <2>2, <2>6 DEF AttemptFails, AwaitFails, Retry
  <2>7. CASE BeginAttempt(r) \/ AwaitDone(r) \/ NodeError(r) \/ StepDone(r)
    BY <2>1, <2>7 DEF BeginAttempt, AwaitDone, NodeError, StepDone, CompleteStep, FailStep
  <2>8. CASE Register(r) \/ EnsureSession(r) \/ EnsureFails(r) \/ SkipAndSave(r) \/ FinishRun(r)
             \/ Unregister(r) \/ CloseDone(r)
    BY <2>1, <2>8 DEF Register, EnsureSession, EnsureFails, SkipAndSave, FinishRun, Unregister,
                      CloseDone
  <2>. QED BY <1>1, <2>3, <2>4, <2>5, <2>6, <2>7, <2>8 DEF Execute
<1>2. ASSUME NEW r \in Runs, TriggerRun(r) PROVE BoundInv'
  BY <1>2 DEF TriggerRun, Goto, TypeOK, ControlOK, BoundInv, Walking, AtNode, InStep
<1>3. CASE Crash
  BY <1>3 DEF Crash, Alive, BoundInv, Walking, AtNode, InStep
<1>4. CASE UNCHANGED <<graph, pc, cur, transitions, attempt>>
  BY <1>4 DEF BoundInv
<1>. QED
  BY <1>1, <1>2, <1>3, <1>4
  DEF Next, PipelineEnds, RecoverStaleRun, DeletePlan, CancelLookup, CancelRun, CancelSeesDone,
      CancelTimesOut, CancelRead, CancelWrite, CancelReadFails, RecoverList, vars

\* Whatever cycles the graph has, a run executes at most maxTransitions nodes,
\* each at most MaxRetries + 1 times.
THEOREM BoundedWalk == Spec => []WalkIsBounded
<1>1. Init => BoundInv
  BY RunnerAssumption DEF Init, BoundInv, AtNode, InStep
<1>2. TypeOK /\ BoundInv => WalkIsBounded
  BY RunnerAssumption DEF TypeOK, ControlOK, BoundInv, WalkIsBounded, Walking, AtNode, InStep
<1>3. /\ TypeOK /\ CopiesFollow /\ WalkFollows /\ BoundInv
      /\ [Next]_vars
      => (TypeOK /\ CopiesFollow /\ WalkFollows /\ BoundInv)'
  BY TypeNext, WalkNext, BoundNext
<1>. QED BY <1>1, <1>2, <1>3, TypeInit, WalkInit, PTL DEF Spec
=============================================================================
