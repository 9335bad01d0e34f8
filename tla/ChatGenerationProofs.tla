------------------------- MODULE ChatGenerationProofs -------------------------
(***************************************************************************)
(* Theorems about ChatGeneration, for every set of generations, sessions   *)
(* and callers, and every bound on store errors and crashes.               *)
(***************************************************************************)
EXTENDS ChatGeneration, TLAPS, WellFoundedInduction

(***************************************************************************)
(* The last of some rows exists: RegenerateLast picks one of them.         *)
(***************************************************************************)
LEMMA LastElement ==
  ASSUME NEW n \in Nat, NEW I, I \subseteq 1 .. n, I # {}
  PROVE  Last(I) \in I
<1>. DEFINE R == {ss \in Nat \X Nat : ss[1] < ss[2]}
            J == {n - i : i \in I}
<1>1. IsWellFoundedOn(R, Nat)
  BY NatLessThanWellFounded DEF OpToRel
<1>2. \A j, k \in Nat : j < k => <<j, k>> \in R
  OBVIOUS
<1>3. J \subseteq Nat /\ J # {}
  <2>1. \A i \in I : n - i \in Nat
    OBVIOUS
  <2>2. PICK i \in I : TRUE
    OBVIOUS
  <2>3. n - i \in J
    OBVIOUS
  <2>. QED BY <2>1, <2>3
<1>. HIDE DEF R
<1>4. PICK k \in J : \A j \in J : ~(<<j, k>> \in R)
  <2>. HIDE DEF J
  <2>. QED BY <1>1, <1>3, WFMin
<1>5. PICK i \in I : k = n - i
  BY <1>4
<1>6. ASSUME NEW j \in I PROVE j <= i
  <2>1. i \in Nat /\ j \in Nat /\ n - i \in Nat /\ n - j \in Nat
    OBVIOUS
  <2>2. ~(<<n - j, n - i>> \in R)
    BY <1>4, <1>5
  <2>3. ~(n - j < n - i)
    BY <1>2, <2>1, <2>2
  <2>. QED BY <2>1, <2>3
<1>. QED BY <1>6 DEF Last

\* The type invariant, and what every reference of a running call points to.
CallsOK ==
  /\ \A g \in Gens : pc[g] # "none" => session[g] \in Sessions
  /\ \A c \in Callers : gpc[c] # "idle" => gold[c] \in Gens /\ gsess[c] \in Sessions
  /\ \A c \in Stoppers : spc[c] # "idle" => sgen[c] \in Gens

\* What the pipeline makes of a generation is a final status.
LEMMA StatusSettled ==
  \A o : Status(o) \in Settled
BY DEF Status, Settled

\* The types hold at the start.
LEMMA TypeInit == Init => TypeOK /\ CallsOK
BY GenerationAssumption DEF Init, TypeOK, CallsOK, PC, Settled

\* Types through every step of a pipeline.
LEMMA PipelineType ==
  ASSUME TypeOK, CallsOK, NEW g \in Gens, Pipeline(g)
  PROVE  TypeOK' /\ CallsOK'
<1>. USE DEF store, task, registry, callers, stopVars, regenVars, Goto, TypeOK, CallsOK, PC, Limits,
             Outcomes
<1>1. CASE Begin(g)
  BY <1>1 DEF Begin, EndContext
<1>2. CASE ResolveModel(g)
  BY <1>2 DEF ResolveModel
<1>3. CASE Generate(g)
  BY <1>3 DEF Generate
<1>4. CASE Finalize(g)
  <2>1. Classify(g) \in {"none", "ok", "error", "maxIterations", "user"} \cup Limits
    BY DEF Classify
  <2>. QED BY <1>4, <2>1 DEF Finalize
<1>5. CASE SaveMessage(g)
  BY <1>5, StatusSettled DEF SaveMessage, StoreFails, Update
<1>6. CASE SendAndClean(g)
  BY <1>6 DEF SendAndClean
<1>7. CASE Release(g)
  BY <1>7 DEF Release
<1>8. CASE CloseDone(g)
  BY <1>8 DEF CloseDone, EndContext
<1>. QED BY <1>1, <1>2, <1>3, <1>4, <1>5, <1>6, <1>7, <1>8 DEF Pipeline

\* Types through every step.
LEMMA TypeNext == TypeOK /\ CallsOK /\ [Next]_vars => TypeOK' /\ CallsOK'
<1>. SUFFICES ASSUME TypeOK, CallsOK, [Next]_vars PROVE TypeOK' /\ CallsOK'
  OBVIOUS
<1>1. ASSUME NEW g \in Gens, Pipeline(g) PROVE TypeOK' /\ CallsOK'
  BY <1>1, PipelineType
<1>. USE DEF store, task, registry, callers, stopVars, regenVars, Goto, TypeOK, CallsOK
<1>2. ASSUME NEW g \in Gens, NEW s \in Sessions, Send(g, s) PROVE TypeOK' /\ CallsOK'
  BY <1>2 DEF Send, CreatePending, PC
<1>3. ASSUME NEW g \in Gens, Expire(g) PROVE TypeOK' /\ CallsOK'
  BY <1>3 DEF Expire, EndContext
<1>4. ASSUME NEW g \in Gens, Age(g) PROVE TypeOK' /\ CallsOK'
  BY <1>4 DEF Age
<1>5. ASSUME NEW g \in Gens, SweepStale(g) PROVE TypeOK' /\ CallsOK'
  BY <1>5 DEF SweepStale, StoreFails, Update, Settled
<1>6. ASSUME NEW c \in Stoppers, NEW s \in Sessions, StopLookup(c, s) PROVE TypeOK' /\ CallsOK'
  BY <1>6 DEF StopLookup
<1>7. ASSUME NEW c \in Stoppers, StopCancel(c) \/ StopSeesDone(c) \/ StopReturns(c)
      PROVE  TypeOK' /\ CallsOK'
  BY <1>7 DEF StopCancel, StopSeesDone, StopReturns, EndContext
<1>8. ASSUME NEW c \in Callers, NEW s \in Sessions, RegenerateList(c, s) PROVE TypeOK' /\ CallsOK'
  <2>1. Rows(s) \subseteq 1 .. Len(log) /\ Len(log) \in Nat /\ Rows(s) # {}
    BY <1>8 DEF RegenerateList, Rows
  <2>2. Last(Rows(s)) \in Rows(s)
    BY <2>1, LastElement
  <2>3. LastAssistant(s) \in Gens
    BY <2>1, <2>2 DEF LastAssistant
  <2>. QED BY <1>8, <2>3 DEF RegenerateList
<1>9. ASSUME NEW c \in Callers, RegenerateDelete(c) \/ RegenerateFails(c) PROVE TypeOK' /\ CallsOK'
  <2>1. CASE RegenerateDelete(c)
    <3>1. TypeOK'
      BY <2>1 DEF RegenerateDelete
    <3>2. CallsOK'
      BY <2>1 DEF RegenerateDelete
    <3>. QED BY <3>1, <3>2
  <2>2. CASE RegenerateFails(c)
    <3>1. TypeOK'
      BY <2>2 DEF RegenerateFails, RegenerateReturn, StoreFails
    <3>2. CallsOK'
      BY <2>2 DEF RegenerateFails, RegenerateReturn
    <3>. QED BY <3>1, <3>2
  <2>. QED BY <1>9, <2>1, <2>2
<1>10. ASSUME NEW c \in Callers, NEW g \in Gens, RegenerateCreate(c, g) PROVE TypeOK' /\ CallsOK'
  <2>1. gsess[c] \in Sessions
    BY <1>10 DEF RegenerateCreate
  <2>2. CreatePending(g, gsess[c]) /\ RegenerateReturn(c)
    BY <1>10 DEF RegenerateCreate
  <2>3. TypeOK'
    BY <1>10, <2>1, <2>2 DEF RegenerateCreate, RegenerateReturn, CreatePending, PC
  <2>4. CallsOK'
    BY <1>10, <2>1, <2>2 DEF RegenerateCreate, RegenerateReturn, CreatePending
  <2>. QED BY <2>3, <2>4
<1>11. ASSUME NEW s \in Sessions, ListMessages(s) PROVE TypeOK' /\ CallsOK'
  BY <1>11 DEF ListMessages
<1>12. ASSUME NEW S \in DeleteScopes, DeleteList(S) PROVE TypeOK' /\ CallsOK'
  BY <1>12 DEF DeleteList
<1>13. CASE DeleteWrite
  BY <1>13 DEF DeleteWrite, StoreFails
<1>14. CASE Crash
  BY <1>14 DEF Crash, PC
<1>15. CASE UNCHANGED vars
  BY <1>15 DEF vars
<1>. QED
  BY <1>1, <1>2, <1>3, <1>4, <1>5, <1>6, <1>7, <1>8, <1>9, <1>10, <1>11, <1>12, <1>13, <1>14, <1>15
  DEF Next

\* Every variable keeps its type.
THEOREM TypeCorrect == Spec => []TypeOK
BY TypeInit, TypeNext, PTL DEF Spec
-----------------------------------------------------------------------------
(***************************************************************************)
(* The registry.  The two properties are inductive together: a generation  *)
(* that is replaced is the one that had the entry, so Begin ends it; one   *)
(* that releases the entry owns it.                                        *)
(***************************************************************************)
RegistryInv == RunningGenerationIsStoppable /\ EntryWillBeReleased

\* The registry through every step.
LEMMA RegistryNext == TypeOK /\ CallsOK /\ RegistryInv /\ [Next]_vars => RegistryInv'
<1>. SUFFICES ASSUME TypeOK, CallsOK, RegistryInv, [Next]_vars PROVE RegistryInv'
  OBVIOUS
<1>. USE DEF store, task, registry, callers, stopVars, regenVars, Goto, RegistryInv,
             RunningGenerationIsStoppable, EntryWillBeReleased
<1>1. ASSUME NEW g \in Gens, NEW s \in Sessions, CreatePending(g, s), UNCHANGED <<entry, cause>>
      PROVE  RegistryInv'
  <2>1. \A t \in Sessions : entry[t] # g
    BY <1>1, GenerationAssumption DEF CreatePending, Begun
  <2>. QED BY <1>1, <2>1, GenerationAssumption DEF CreatePending, Begun, TypeOK
<1>2. ASSUME NEW g \in Gens, Begin(g) PROVE RegistryInv'
  <2>1. session[g] \in Sessions
    BY <1>2 DEF Begin, CallsOK
  <2>2. CASE session[g] \in PlanSessions
    BY <1>2, <2>2, GenerationAssumption DEF Begin, Begun, TypeOK
  <2>3. CASE session[g] \notin PlanSessions
    <3>1. entry' = [entry EXCEPT ![session[g]] = g] /\ pc' = [pc EXCEPT ![g] = "resolve"]
          /\ session' = session /\ pc[g] = "created"
      BY <1>2, <2>3 DEF Begin
    <3>2. EntryWillBeReleased'
      BY <2>1, <3>1 DEF Begun, TypeOK
    <3>3. \A q \in Gens : q # entry[session[g]] => cause'[q] = cause[q]
      BY <1>2, <2>3 DEF Begin, EndContext, TypeOK
    <3>4. entry[session[g]] # None => cause'[entry[session[g]]] # "none"
      BY <1>2, <2>1, <2>3 DEF Begin, EndContext, TypeOK
    <3>5. ASSUME NEW q \in Gens, pc'[q] \in Begun, cause'[q] = "none",
    session[q] \notin PlanSessions
          PROVE  entry'[session[q]] = q
      <4>1. CASE q = g
        BY <2>1, <3>1, <4>1 DEF TypeOK
      <4>2. CASE q # g
        <5>1. pc[q] \in Begun /\ q # entry[session[g]] /\ cause[q] = "none"
          BY <3>1, <3>3, <3>4, <3>5, <4>2, GenerationAssumption DEF TypeOK
        <5>2. entry[session[q]] = q
          BY <3>5, <5>1
        <5>3. session[q] # session[g]
          BY <5>1, <5>2
        <5>. QED BY <2>1, <3>1, <5>2, <5>3 DEF TypeOK
      <4>. QED BY <4>1, <4>2
    <3>. QED BY <3>1, <3>2, <3>5
  <2>. QED BY <2>2, <2>3
<1>3. ASSUME NEW g \in Gens, Release(g) PROVE RegistryInv'
  <2>1. session[g] \in Sessions
    BY <1>3 DEF Release, CallsOK
  <2>. QED BY <1>3, <2>1, GenerationAssumption DEF Release, Begun, TypeOK
<1>4. ASSUME UNCHANGED <<session, entry>>,
             \A q \in Gens : /\ pc'[q] \in Begun => pc[q] \in Begun
                             /\ pc[q] \in Begun => pc'[q] \in Begun
                             /\ cause'[q] = "none" => cause[q] = "none"
      PROVE  RegistryInv'
  <2>1. RunningGenerationIsStoppable'
    BY <1>4 DEF Begun
  <2>2. \A t \in Sessions : entry[t] # None => entry[t] \in Gens
    BY DEF TypeOK
  <2>3. \A t \in Sessions : entry[t] # None => pc'[entry[t]] \in Begun
    BY <1>4, <2>2
  <2>4. EntryWillBeReleased'
    BY <1>4, <2>3 DEF Begun
  <2>. QED BY <2>1, <2>4
<1>5. ASSUME NEW g \in Gens, ResolveModel(g) \/ Generate(g) \/ Finalize(g) \/ SaveMessage(g)
                             \/ SendAndClean(g) \/ CloseDone(g) \/ Expire(g) \/ Age(g)
      PROVE  RegistryInv'
  BY <1>4, <1>5
  DEF ResolveModel, Generate, Finalize, SaveMessage, SendAndClean, CloseDone, Expire, Age,
      EndContext, Begun, TypeOK
<1>6. ASSUME NEW c \in Stoppers, StopCancel(c) PROVE RegistryInv'
  BY <1>4, <1>6 DEF StopCancel, EndContext, TypeOK
<1>7. CASE Crash
  BY <1>7 DEF Crash, Begun
<1>8. CASE UNCHANGED <<session, entry, pc, cause>>
  BY <1>4, <1>8
<1>9. ASSUME NEW c \in Callers, NEW g \in Gens, RegenerateCreate(c, g) PROVE RegistryInv'
  BY <1>1, <1>9 DEF RegenerateCreate, CallsOK
<1>. QED
  BY <1>1, <1>2, <1>3, <1>5, <1>6, <1>7, <1>8, <1>9
  DEF Next, Pipeline, Send, SweepStale, StopLookup, StopSeesDone, StopReturns, RegenerateList,
      RegenerateDelete, RegenerateFails, ListMessages, DeleteList, DeleteWrite, vars

\* The registry is empty at the start.
LEMMA RegistryInit == Init => RegistryInv
BY DEF Init, RegistryInv, RunningGenerationIsStoppable, EntryWillBeReleased, Begun

\* Stop reaches the one live generation of a chat session, however many
\* older ones are still winding down.
THEOREM Stoppable == Spec => []RunningGenerationIsStoppable
<1>1. TypeOK /\ CallsOK /\ RegistryInv /\ [Next]_vars => (TypeOK /\ CallsOK /\ RegistryInv)'
  BY TypeNext, RegistryNext
<1>2. RegistryInv => RunningGenerationIsStoppable
  BY DEF RegistryInv
<1>. QED BY <1>1, <1>2, TypeInit, RegistryInit, PTL DEF Spec

\* The done channel that Cancel waits for belongs to a generation that will
\* still close it.
THEOREM WillBeReleased == Spec => []EntryWillBeReleased
<1>1. TypeOK /\ CallsOK /\ RegistryInv /\ [Next]_vars => (TypeOK /\ CallsOK /\ RegistryInv)'
  BY TypeNext, RegistryNext
<1>2. RegistryInv => EntryWillBeReleased
  BY DEF RegistryInv
<1>. QED BY <1>1, <1>2, TypeInit, RegistryInit, PTL DEF Spec
-----------------------------------------------------------------------------
(***************************************************************************)
(* The rows.  Only the generation itself, the sweep of ListMessages and a  *)
(* deletion write a row once it exists, and each of them settles it.       *)
(***************************************************************************)
\* A step that does not create the row of g: it stays, is settled or goes.
LEMMA RowSteps ==
  ASSUME TypeOK, CallsOK, [Next]_vars, NEW g \in Gens, pc[g] # "none"
  PROVE  \/ msg'[g] = msg[g]
         \/ msg'[g] = "absent"
         \/ msg[g] # "absent" /\ msg'[g] \in Settled
<1>. USE DEF store, task, registry, callers, stopVars, regenVars, TypeOK
<1>1. ASSUME NEW h \in Gens, NEW s, CreatePending(h, s) PROVE msg'[g] = msg[g]
  BY <1>1 DEF CreatePending
<1>2. ASSUME NEW h \in Gens, SaveMessage(h) \/ SweepStale(h)
      PROVE  msg'[g] = msg[g] \/ (msg[g] # "absent" /\ msg'[g] \in Settled)
  BY <1>2, StatusSettled DEF SaveMessage, SweepStale, Update, Settled
<1>3. ASSUME NEW c \in Callers, RegenerateDelete(c) PROVE msg'[g] \in {msg[g], "absent"}
  BY <1>3 DEF RegenerateDelete
<1>4. CASE DeleteWrite
  BY <1>4 DEF DeleteWrite
<1>5. CASE UNCHANGED msg
  BY <1>5
<1>. QED
  BY <1>1, <1>2, <1>3, <1>4, <1>5
  DEF Next, Pipeline, Send, Begin, ResolveModel, Generate, Finalize, SendAndClean, Release,
      CloseDone,
      Expire, Age, StopLookup, StopCancel, StopSeesDone, StopReturns, RegenerateList,
      RegenerateFails, RegenerateCreate, ListMessages, DeleteList, Crash, vars

\* A deleted message stays deleted, although neither the generation nor the
\* sweep looks whether the row still exists before it writes it.
THEOREM DeletedForGood == Spec => DeletedStaysDeleted
<1>1. TypeOK /\ CallsOK /\ [Next]_vars =>
        [\A g \in Gens : pc[g] # "none" /\ msg[g] = "absent" => msg'[g] = "absent"]_vars
  BY RowSteps
<1>. QED BY <1>1, TypeInit, TypeNext, PTL DEF Spec, DeletedStaysDeleted

\* The owner of a pending row through every step.
LEMMA OwnerNext == TypeOK /\ CallsOK /\ PendingHasOwner /\ [Next]_vars => PendingHasOwner'
<1>. SUFFICES ASSUME TypeOK, CallsOK, PendingHasOwner, [Next]_vars, NEW g \in Gens,
                     msg'[g] = "pending", faults' = 0
              PROVE  pc'[g] \in {"created", "dead"} \cup Generating
  BY DEF PendingHasOwner, Generating
<1>. USE DEF store, task, registry, callers, stopVars, regenVars, Goto
<1>1. faults = 0
  BY DEF Next, Pipeline, Send, Begin, ResolveModel, Generate, Finalize, SaveMessage, SendAndClean,
         Release, CloseDone, Expire, Age, SweepStale, StopLookup, StopCancel, StopSeesDone,
         StopReturns, RegenerateList, RegenerateDelete, RegenerateFails, RegenerateCreate,
         RegenerateReturn, ListMessages, DeleteList, DeleteWrite, Crash, StoreFails, vars, TypeOK
<1>2. CASE pc[g] = "none"
  <2>1. msg[g] = "pending" => FALSE
    BY <1>1, <1>2 DEF PendingHasOwner, Generating
  <2>2. CASE \E s : CreatePending(g, s)
    BY <2>2 DEF CreatePending, TypeOK
  <2>3. ASSUME NEW h \in Gens \ {g}, NEW s, CreatePending(h, s) PROVE msg'[g] = msg[g]
    BY <2>3 DEF CreatePending, TypeOK
  <2>4. ASSUME NEW h \in Gens,
  SaveMessage(h) \/ SweepStale(h) PROVE msg'[g] # "pending" \/ msg'[g] = msg[g]
    BY <2>4, StatusSettled DEF SaveMessage, SweepStale, Update, Settled, TypeOK
  <2>5. ASSUME NEW c \in Callers, RegenerateDelete(c) PROVE msg'[g] \in {msg[g], "absent"}
    BY <2>5 DEF RegenerateDelete, TypeOK
  <2>6. CASE DeleteWrite
    BY <2>1, <2>6 DEF DeleteWrite
  <2>7. CASE UNCHANGED msg
    BY <2>1, <2>7
  <2>. QED
    BY <2>1, <2>2, <2>3, <2>4, <2>5, <2>6, <2>7
    DEF Next, Pipeline, Send, Begin, ResolveModel, Generate, Finalize, SendAndClean, Release,
        CloseDone,
        Expire, Age, StopLookup, StopCancel, StopSeesDone, StopReturns, RegenerateList,
        RegenerateFails, RegenerateCreate, ListMessages, DeleteList, Crash, vars
<1>3. CASE pc[g] # "none"
  <2>1. msg[g] = "pending"
    BY <1>3, RowSteps DEF Settled
  <2>2. pc[g] \in {"created", "dead"} \cup Generating
    BY <1>1, <2>1 DEF PendingHasOwner
  <2>3. CASE Pipeline(g)
    <3>1. CASE SaveMessage(g)
      <4>1. msg' = Update(g, Status(result[g]))
        BY <1>1, <3>1 DEF SaveMessage, StoreFails
      <4>. QED BY <2>1, <4>1, StatusSettled DEF Update, Settled, TypeOK
    <3>2. CASE Begin(g) \/ Generate(g) \/ Finalize(g)
      BY <3>2 DEF Begin, Generate, Finalize, Generating, TypeOK
    <3>3. CASE ResolveModel(g)
      BY <3>3 DEF ResolveModel, Generating, TypeOK
    <3>4. CASE SendAndClean(g) \/ Release(g) \/ CloseDone(g)
      BY <2>2, <3>4 DEF SendAndClean, Release, CloseDone, Generating
    <3>. QED BY <2>3, <3>1, <3>2, <3>3, <3>4 DEF Pipeline
  <2>4. CASE Crash
    BY <2>2, <2>4 DEF Crash, Generating, TypeOK
  <2>5. CASE pc'[g] = pc[g]
    BY <2>2, <2>5
  <2>6. ASSUME NEW h \in Gens \ {g}, Pipeline(h) PROVE pc'[g] = pc[g]
    BY <2>6 DEF Pipeline, Begin, ResolveModel, Generate, Finalize, SaveMessage, SendAndClean,
                Release,
                CloseDone, TypeOK
  <2>7. ASSUME NEW h \in Gens, NEW s, CreatePending(h, s) PROVE pc'[g] = pc[g]
    BY <1>3, <2>7 DEF CreatePending, TypeOK
  <2>. QED
    BY <2>3, <2>4, <2>5, <2>6, <2>7
    DEF Next, Send, Expire, Age, SweepStale, StopLookup, StopCancel, StopSeesDone,
        StopReturns, RegenerateList, RegenerateDelete, RegenerateFails, RegenerateCreate,
        ListMessages, DeleteList, DeleteWrite, vars
<1>. QED BY <1>2, <1>3

\* A pending answer is being made, or the process or a save of it failed.
THEOREM PendingIsOwned == Spec => []PendingHasOwner
<1>1. Init => PendingHasOwner
  BY DEF Init, PendingHasOwner
<1>. QED BY <1>1, TypeInit, TypeNext, OwnerNext, PTL DEF Spec
-----------------------------------------------------------------------------
(***************************************************************************)
(* The end of a generation.  The done channel is closed by its last step,  *)
(* and only a caller that saw it closed is past its wait.                  *)
(***************************************************************************)
DoneInv ==
  /\ \A g \in closed : pc[g] = "done"
  /\ \A c \in Stoppers : spc[c] = "stopped" => sgen[c] \in closed

\* A closed channel and a finished generation, through every step.
LEMMA DoneNext == TypeOK /\ CallsOK /\ DoneInv /\ [Next]_vars => DoneInv'
<1>. SUFFICES ASSUME TypeOK, CallsOK, DoneInv, [Next]_vars PROVE DoneInv'
  OBVIOUS
<1>. USE DEF store, task, registry, callers, stopVars, regenVars, Goto
<1>1. ASSUME NEW g \in Gens, CloseDone(g) PROVE DoneInv'
  BY <1>1 DEF CloseDone, DoneInv, TypeOK
<1>2. ASSUME NEW g \in Gens, Pipeline(g), ~CloseDone(g) PROVE DoneInv'
  BY <1>2 DEF Pipeline, Begin, ResolveModel, Generate, Finalize, SaveMessage, SendAndClean, Release,
              DoneInv, TypeOK
<1>3. ASSUME NEW g \in Gens, NEW s, CreatePending(g, s), UNCHANGED <<closed, spc, sgen>>
      PROVE  DoneInv'
  BY <1>3 DEF CreatePending, DoneInv, TypeOK
<1>4. ASSUME NEW c \in Stoppers, StopCancel(c) \/ StopSeesDone(c) \/ StopReturns(c)
      PROVE  DoneInv'
  BY <1>4 DEF StopCancel, StopSeesDone, StopReturns, DoneInv, TypeOK
<1>5. ASSUME NEW c \in Stoppers, NEW s \in Sessions, StopLookup(c, s) PROVE DoneInv'
  BY <1>5 DEF StopLookup, DoneInv, TypeOK
<1>6. CASE Crash
  BY <1>6 DEF Crash, DoneInv, TypeOK
<1>7. CASE UNCHANGED <<pc, closed, spc, sgen>>
  BY <1>7 DEF DoneInv
<1>. QED
  BY <1>1, <1>2, <1>3, <1>4, <1>5, <1>6, <1>7
  DEF Next, Send, Expire, Age, SweepStale, RegenerateList, RegenerateDelete, RegenerateReturn,
      RegenerateFails, RegenerateCreate, ListMessages, DeleteList, DeleteWrite, vars

\* Whoever saw a stopped generation end finds its answer settled in the row.
THEOREM StopSettles == Spec => []StoppedMeansSettled
<1>1. Init => DoneInv /\ PendingHasOwner
  BY DEF Init, DoneInv, PendingHasOwner
<1>2. TypeOK /\ DoneInv /\ PendingHasOwner => StoppedMeansSettled
  BY DEF TypeOK, DoneInv, PendingHasOwner, StoppedMeansSettled, Generating
<1>. QED BY <1>1, <1>2, TypeInit, TypeNext, DoneNext, OwnerNext, PTL DEF Spec

\* The buffer through every step.
LEMMA BufferNext == TypeOK /\ CallsOK /\ BufferIsTransient /\ [Next]_vars => BufferIsTransient'
<1>. SUFFICES ASSUME TypeOK, CallsOK, BufferIsTransient, [Next]_vars PROVE BufferIsTransient'
  OBVIOUS
<1>. USE DEF store, task, registry, callers, stopVars, regenVars, Goto, BufferIsTransient
<1>1. ASSUME NEW g \in Gens, Pipeline(g) PROVE BufferIsTransient'
  <2>1. CASE ResolveModel(g)
    BY <2>1 DEF ResolveModel, TypeOK
  <2>2. CASE Begin(g) \/ Release(g) \/ CloseDone(g)
    BY <2>2 DEF Begin, Release, CloseDone, TypeOK
  <2>3. CASE Generate(g) \/ Finalize(g) \/ SaveMessage(g)
    BY <2>3 DEF Generate, Finalize, SaveMessage, TypeOK
  <2>4. CASE SendAndClean(g)
    BY <2>4 DEF SendAndClean, TypeOK
  <2>. QED BY <1>1, <2>1, <2>2, <2>3, <2>4 DEF Pipeline
<1>2. ASSUME NEW g \in Gens, NEW s, CreatePending(g, s), UNCHANGED buf PROVE BufferIsTransient'
  BY <1>2 DEF CreatePending, TypeOK
<1>3. CASE Crash
  BY <1>3 DEF Crash
<1>4. CASE UNCHANGED <<pc, buf>>
  BY <1>4
<1>. QED
  BY <1>1, <1>2, <1>3, <1>4
  DEF Next, Send, Expire, Age, SweepStale, StopLookup, StopCancel, StopSeesDone, StopReturns,
      RegenerateList, RegenerateDelete, RegenerateFails, RegenerateCreate, ListMessages,
      DeleteList, DeleteWrite, vars

\* No generation leaves its text and steps behind in the shared buffer.
THEOREM NothingLeaks == Spec => []BufferIsTransient
<1>1. Init => BufferIsTransient
  BY DEF Init, BufferIsTransient
<1>. QED BY <1>1, TypeInit, TypeNext, BufferNext, PTL DEF Spec
=============================================================================
