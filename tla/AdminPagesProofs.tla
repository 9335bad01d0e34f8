--------------------------- MODULE AdminPagesProofs ---------------------------
(***************************************************************************)
(* Proofs about the AI engine page and the guard studio: for any           *)
(* endpoints, models, presets, profiles and rules, and any number of       *)
(* saves, requests and lists.                                              *)
(***************************************************************************)
EXTENDS LlmPage, GuardStudio, FilterLemmas

-----------------------------------------------------------------------------
(* LlmPage. *)

LlmSpec == LlmInit /\ [][LlmNext]_llmVars

\* The records keep their fields, and the table of models its rows.
EngineShape(t) ==
    /\ t = [endpoints |-> t.endpoints, models |-> t.models, presets |-> t.presets, routing |-> t.routing]
    /\ t.models = [m \in Models |-> t.models[m]]

PageShape(p) ==
    p = [shown |-> p.shown, loading |-> p.loading, limitLoading |-> p.limitLoading,
         dialog |-> p.dialog, of |-> p.of, connectionId |-> p.connectionId]

Shapes == EngineShape(engine) /\ PageShape(page)

\* A removal works off models that were listed.
Removal(r) ==
    /\ r = [kind |-> "remove", n |-> r.n, endpoint |-> r.endpoint, listed |-> r.listed, left |-> r.left]
    /\ r.listed \subseteq Models /\ r.left \subseteq r.listed

RemovalsOK == \A r \in asks : r.kind = "remove" => Removal(r)

\* The models that a removal has passed are gone.
PassedAreGone ==
    \A r \in asks : r.kind = "remove" => \A m \in r.listed \ r.left : engine.models[m] = NoId

\* A page that was left checks nothing.
AwayIsIdle == ~here => page.limitLoading = {}

LlmInv == Shapes /\ RemovalsOK /\ PassedAreGone /\ AwayIsIdle /\ SpinnersEnd

-----------------------------------------------------------------------------
(* What the actions do to the parts of the invariant. *)

\* A dialog that closes leaves the spinners alone.
LEMMA ClosedKeeps ==
  ASSUME PageShape(page), NEW d
  PROVE  PageShape(Closed(page, d)) /\ Closed(page, d).limitLoading = page.limitLoading
  BY DEF PageShape, Closed

\* Rows of tables are changed in place.
LEMMA TablesKeep ==
  ASSUME EngineShape(engine), NEW v
  PROVE  /\ EngineShape([engine EXCEPT !.endpoints = v]) /\ [engine EXCEPT !.endpoints = v].models = engine.models
         /\ EngineShape([engine EXCEPT !.presets = v]) /\ [engine EXCEPT !.presets = v].models = engine.models
         /\ EngineShape([engine EXCEPT !.routing = v]) /\ [engine EXCEPT !.routing = v].models = engine.models
  BY DEF EngineShape

LEMMA RowsKeep ==
  ASSUME EngineShape(engine), NEW i, NEW v
  PROVE  /\ EngineShape([engine EXCEPT !.models[i] = v])
         /\ \A m \in Models : [engine EXCEPT !.models[i] = v].models[m] = IF m = i THEN v ELSE engine.models[m]
  BY DEF EngineShape

\* A writing adds a request that is no removal.
LEMMA PostsAdds ==
  ASSUME NEW d, NEW outcome, Posts(d, outcome)
  PROVE  asks \subseteq asks' /\ \A r \in asks' : r.kind = "remove" => r \in asks
  BY DEF Posts

\* A step that keeps the tables and the removals keeps what is said of them.
LEMMA SameRemovals ==
  ASSUME RemovalsOK, PassedAreGone, engine'.models = engine.models,
         \A r \in asks' : r.kind = "remove" => r \in asks
  PROVE  RemovalsOK' /\ PassedAreGone'
  BY DEF RemovalsOK, PassedAreGone, Removal

\* So does a step that takes no spinner's request away and keeps the spinners.
LEMMA SameSpinners ==
  ASSUME SpinnersEnd, AwayIsIdle, page'.limitLoading = page.limitLoading, here' = here,
         \A r \in asks : r.kind = "limit" => r \in asks'
  PROVE  SpinnersEnd' /\ AwayIsIdle'
  BY DEF SpinnersEnd, AwayIsIdle

\* The dialogs.
LEMMA OpensKeeps ==
  ASSUME LlmInv, NEW d, NEW of, NEW connection, Opens(d, of, connection)
  PROVE  LlmInv'
<1>1. Shapes' /\ page'.limitLoading = page.limitLoading
  BY DEF LlmInv, Shapes, PageShape, Opens
<1> QED
  BY <1>1, SameRemovals, SameSpinners DEF LlmInv, Opens

\* A writing adds a request that is no removal, and spinners stay.
LEMMA WritingKeeps ==
  ASSUME LlmInv, NEW d, NEW outcome, Posts(d, outcome), Shapes', PassedAreGone', here' = here,
         page'.limitLoading = page.limitLoading
  PROVE  LlmInv'
<1>1. RemovalsOK'
  BY PostsAdds DEF LlmInv, RemovalsOK
<1>2. SpinnersEnd' /\ AwayIsIdle'
  BY PostsAdds, SameSpinners DEF LlmInv
<1> QED
  BY <1>1, <1>2 DEF LlmInv

-----------------------------------------------------------------------------
(* One lemma per handler that writes, and per answer. *)

LEMMA SubmitEndpointKeeps ==
  ASSUME LlmInv, NEW e, NEW outcome, submitEndpoint(e, outcome)
  PROVE  LlmInv'
<1>1. Shapes' /\ engine'.models = engine.models
  BY TablesKeep DEF LlmInv, Shapes, submitEndpoint, Writes
<1>2. PassedAreGone'
  BY <1>1, PostsAdds DEF LlmInv, PassedAreGone, submitEndpoint
<1> QED
  BY <1>1, <1>2, WritingKeeps DEF submitEndpoint

LEMMA SubmitModelKeeps ==
  ASSUME LlmInv, NEW m \in Models, NEW outcome, submitModel(m, outcome)
  PROVE  LlmInv'
<1>1. /\ Shapes'
      /\ \A i \in Models \ {m} : engine'.models[i] = engine.models[i]
      /\ outcome = "refused" => engine' = engine
  BY RowsKeep DEF LlmInv, Shapes, submitModel, Writes
<1>2. ASSUME outcome # "refused", NEW r \in asks, r.kind = "remove"
      PROVE  m \notin r.listed \ r.left
  BY <1>2 DEF LlmInv, PassedAreGone, submitModel, NewModels
<1>3. PassedAreGone'
  BY <1>1, <1>2, PostsAdds DEF LlmInv, PassedAreGone, RemovalsOK, Removal, submitModel
<1> QED
  BY <1>1, <1>3, WritingKeeps DEF submitModel

LEMMA SubmitProfileKeeps ==
  ASSUME LlmInv, NEW p, NEW outcome, submitProfile(p, outcome)
  PROVE  LlmInv'
<1>1. Shapes' /\ engine'.models = engine.models
  BY TablesKeep DEF LlmInv, Shapes, submitProfile, Writes
<1>2. PassedAreGone'
  BY <1>1, PostsAdds DEF LlmInv, PassedAreGone, submitProfile
<1> QED
  BY <1>1, <1>2, WritingKeeps DEF submitProfile

LEMMA RemoveModelRowKeeps ==
  ASSUME LlmInv, NEW outcome, removeModel(outcome)
  PROVE  LlmInv'
<1>1. /\ page' = Closed(page, "delete model") /\ here' = here
      /\ Posts("delete model", outcome)
      /\ engine' = IF outcome = "refused" THEN engine ELSE [engine EXCEPT !.models[page.of] = NoId]
  BY DEF removeModel, Confirms, Writes
<1>2. Shapes' /\ page'.limitLoading = page.limitLoading
  BY <1>1, ClosedKeeps, RowsKeep, TablesKeep DEF LlmInv, Shapes
<1>3. \A i \in Models : engine'.models[i] \in {engine.models[i], NoId}
  <2>1. CASE outcome = "refused"
    BY <1>1, <2>1
  <2>2. CASE outcome # "refused"
    <3>1. \A i \in Models : engine'.models[i] = IF i = page.of THEN NoId ELSE engine.models[i]
      BY <1>1, <2>2, RowsKeep DEF LlmInv, Shapes
    <3> QED
      BY <3>1
  <2> QED
    BY <2>1, <2>2
<1>4. PassedAreGone'
  BY <1>1, <1>3, PostsAdds DEF LlmInv, PassedAreGone, RemovalsOK, Removal
<1> QED
  BY <1>1, <1>2, <1>4, WritingKeeps

LEMMA RemoveProfileKeeps ==
  ASSUME LlmInv, NEW outcome, removeProfile(outcome)
  PROVE  LlmInv'
<1>1. /\ page' = Closed(page, "delete profile") /\ here' = here
      /\ Posts("delete profile", outcome)
      /\ engine' = IF outcome = "refused" THEN engine ELSE [engine EXCEPT !.presets = @ \ {page.of}]
  BY DEF removeProfile, Confirms, Writes
<1>2. Shapes' /\ page'.limitLoading = page.limitLoading
  BY <1>1, ClosedKeeps, RowsKeep, TablesKeep DEF LlmInv, Shapes
<1>3. engine'.models = engine.models
  BY <1>1, TablesKeep DEF LlmInv, Shapes
<1>4. PassedAreGone'
  BY <1>1, <1>3, PostsAdds DEF LlmInv, PassedAreGone
<1> QED
  BY <1>1, <1>2, <1>4, WritingKeeps

LEMMA RemoveEndpointKeeps ==
  ASSUME LlmInv, removeEndpoint
  PROVE  LlmInv'
<1> DEFINE listed == OfEndpoint(page.shown, page.of)
           new == [kind |-> "remove", n |-> FreeNumber, endpoint |-> page.of, listed |-> listed, left |-> listed]
<1>1. /\ page' = Closed(page, "delete endpoint") /\ engine' = engine /\ here' = here
      /\ asks' = asks \cup {new}
  BY DEF removeEndpoint
<1>4. Removal(new) /\ new.listed = new.left
  BY DEF Removal, OfEndpoint
<1> HIDE DEF new
<1>2. Shapes' /\ page'.limitLoading = page.limitLoading
  BY <1>1, ClosedKeeps, RowsKeep, TablesKeep DEF LlmInv, Shapes
<1>3. RemovalsOK' /\ PassedAreGone'
  BY <1>1, <1>4 DEF LlmInv, RemovalsOK, PassedAreGone
<1> QED
  BY <1>1, <1>2, <1>3, SameSpinners DEF LlmInv

LEMMA RemoveModelKeeps ==
  ASSUME LlmInv, NEW r \in asks, NEW m \in Models, NEW outcome, RemoveModel(r, m, outcome)
  PROVE  LlmInv'
<1> DEFINE next == [r EXCEPT !.left = @ \ {m}]
<1>1. /\ r.kind = "remove" /\ Removal(r) /\ UNCHANGED <<here, page>>
      /\ asks' = IF outcome = "answered" THEN (asks \ {r}) \cup {next} ELSE asks \ {r}
      /\ engine' = IF outcome = "refused" THEN engine ELSE [engine EXCEPT !.models[m] = NoId]
  BY DEF LlmInv, RemovalsOK, RemoveModel, Proceeds, Writes
<1>2. Shapes'
  BY <1>1, RowsKeep DEF LlmInv, Shapes
<1>3. /\ \A i \in Models : engine'.models[i] \in {engine.models[i], NoId}
      /\ outcome = "answered" => engine'.models[m] = NoId
  <2>1. CASE outcome = "refused"
    BY <1>1, <2>1
  <2>2. CASE outcome # "refused"
    <3>1. \A i \in Models : engine'.models[i] = IF i = m THEN NoId ELSE engine.models[i]
      BY <1>1, <2>2, RowsKeep DEF LlmInv, Shapes
    <3> QED
      BY <3>1
  <2> QED
    BY <2>1, <2>2
<1>4. Removal(next) /\ next.kind = "remove" /\ next.listed = r.listed /\ next.left = r.left \ {m}
  BY <1>1 DEF Removal
<1> HIDE DEF next
<1>5. RemovalsOK'
  BY <1>1, <1>4 DEF LlmInv, RemovalsOK
<1>6. PassedAreGone'
  BY <1>1, <1>3, <1>4 DEF LlmInv, PassedAreGone, RemovalsOK, Removal
<1>7. SpinnersEnd' /\ AwayIsIdle'
  BY <1>1, SameSpinners DEF LlmInv
<1> QED
  BY <1>2, <1>5, <1>6, <1>7 DEF LlmInv

LEMMA RemoveLastKeeps ==
  ASSUME LlmInv, NEW r \in asks, NEW outcome, RemoveLast(r, outcome)
  PROVE  LlmInv'
<1> DEFINE new == [kind |-> "write", n |-> r.n, dialog |-> "delete endpoint", ok |-> outcome = "answered"]
<1>1. Shapes' /\ engine'.models = engine.models
  BY TablesKeep DEF LlmInv, Shapes, RemoveLast, Writes
<1>2. page' = page /\ here' = here /\ r.kind = "remove" /\ asks' = (asks \ {r}) \cup {new}
  BY DEF RemoveLast
<1>3. new.kind = "write"
  OBVIOUS
<1> HIDE DEF new
<1>4. \A q \in asks' : q.kind = "remove" => q \in asks
  BY <1>2, <1>3
<1>5. \A q \in asks : q.kind = "limit" => q \in asks'
  BY <1>2
<1> QED
  BY <1>1, <1>2, <1>4, <1>5, SameRemovals, SameSpinners DEF LlmInv

LEMMA UpdateRoutingKeeps ==
  ASSUME LlmInv, NEW slot, NEW p, updateRouting(slot, p)
  PROVE  LlmInv'
<1>1. Shapes' /\ page'.limitLoading = page.limitLoading
  BY DEF LlmInv, Shapes, PageShape, updateRouting
<1>2. /\ UNCHANGED <<engine, here>>
      /\ \A q \in asks' : q.kind = "remove" => q \in asks
      /\ \A q \in asks : q \in asks'
  BY DEF updateRouting
<1> QED
  BY <1>1, <1>2, SameRemovals, SameSpinners DEF LlmInv

LEMMA RoutePutKeeps ==
  ASSUME LlmInv, NEW r \in asks, NEW ok \in BOOLEAN, RoutePut(r, ok)
  PROVE  LlmInv'
<1>1. Shapes' /\ engine'.models = engine.models
  BY TablesKeep DEF LlmInv, Shapes, RoutePut
<1>2. /\ UNCHANGED <<here, page>> /\ r.kind = "route" /\ asks' = asks \ {r}
  BY DEF RoutePut
<1> QED
  BY <1>1, <1>2, SameRemovals, SameSpinners DEF LlmInv

LEMMA TablesReplyKeeps ==
  ASSUME LlmInv, NEW r \in asks, NEW ok \in BOOLEAN, TablesReply(r, ok)
  PROVE  LlmInv'
<1>1. r.kind = "load" /\ UNCHANGED <<engine, here>>
  BY DEF TablesReply
<1>2. CASE here /\ ok
  <2>1. /\ page' = [page EXCEPT !.shown = r.tables, !.loading = FALSE, !.limitLoading = r.tables.endpoints]
        /\ asks' = (asks \ {r}) \cup LimitCalls(r.tables)
    BY <1>2 DEF TablesReply
  <2>2. Shapes' /\ page'.limitLoading = r.tables.endpoints
    BY <1>1, <2>1 DEF LlmInv, Shapes, PageShape
  <2>3. /\ \A q \in LimitCalls(r.tables) : q.kind = "limit"
        /\ \A e \in r.tables.endpoints : \E q \in LimitCalls(r.tables) : q.kind = "limit" /\ q.endpoint = e
    <3>1. ASSUME NEW e \in r.tables.endpoints
          PROVE  \E q \in LimitCalls(r.tables) : q.kind = "limit" /\ q.endpoint = e
      <4> DEFINE q == [kind |-> "limit", n |-> FreeNumber, endpoint |-> e]
      <4>1. q \in LimitCalls(r.tables)
        BY DEF LimitCalls
      <4>2. q.kind = "limit" /\ q.endpoint = e
        OBVIOUS
      <4> QED
        BY <4>1, <4>2
    <3>2. \A q \in LimitCalls(r.tables) : q.kind = "limit"
      BY DEF LimitCalls
    <3> QED
      BY <3>1, <3>2
  <2>4. SpinnersEnd' /\ AwayIsIdle'
    BY <1>1, <1>2, <2>1, <2>2, <2>3 DEF SpinnersEnd, AwayIsIdle
  <2>5. \A q \in asks' : q.kind = "remove" => q \in asks
    BY <2>1, <2>3
  <2> QED
    BY <1>1, <2>2, <2>4, <2>5, SameRemovals DEF LlmInv
<1>3. CASE ~(here /\ ok)
  <2>1. asks' = asks \ {r} /\ page' = IF here THEN [page EXCEPT !.loading = FALSE] ELSE page
    BY <1>3 DEF TablesReply
  <2>2. Shapes' /\ page'.limitLoading = page.limitLoading
    BY <1>1, <2>1 DEF LlmInv, Shapes, PageShape
  <2> QED
    BY <1>1, <2>1, <2>2, SameRemovals, SameSpinners DEF LlmInv
<1> QED
  BY <1>2, <1>3

LEMMA LimitReplyKeeps ==
  ASSUME LlmInv, NEW r \in asks, NEW ok \in BOOLEAN, LimitReply(r, ok)
  PROVE  LlmInv'
<1>1. /\ r.kind = "limit" /\ asks' = asks \ {r} /\ UNCHANGED <<engine, here>>
      /\ page' = IF here THEN [page EXCEPT !.limitLoading = @ \ {r.endpoint}] ELSE page
  BY DEF LimitReply, Checked
<1>2. /\ Shapes'
      /\ page'.limitLoading = IF here THEN page.limitLoading \ {r.endpoint} ELSE page.limitLoading
  BY <1>1 DEF LlmInv, Shapes, PageShape
<1>3. SpinnersEnd' /\ AwayIsIdle'
  BY <1>1, <1>2 DEF LlmInv, SpinnersEnd, AwayIsIdle
<1> QED
  BY <1>1, <1>2, <1>3, SameRemovals DEF LlmInv

LEMMA WriteReplyKeeps ==
  ASSUME LlmInv, NEW r \in asks, WriteReply(r)
  PROVE  LlmInv'
<1>1. r.kind = "write" /\ UNCHANGED <<engine, here>>
  BY DEF WriteReply
<1>2. CASE ~(r.ok /\ here)
  <2>1. page' = page /\ asks' = asks \ {r}
    <3>1. CASE ~r.ok
      BY <3>1 DEF WriteReply
    <3>2. CASE r.ok /\ ~here
      BY <3>2 DEF WriteReply, Ends
    <3> QED
      BY <1>2, <3>1, <3>2
  <2> QED
    BY <1>1, <2>1, SameRemovals, SameSpinners DEF LlmInv, Shapes
<1>3. CASE r.ok /\ here
  <2>1. /\ page' = [Closed(page, r.dialog) EXCEPT !.loading = TRUE]
        /\ asks' = (asks \ {r}) \cup {Load}
    BY <1>3 DEF WriteReply, Ends
  <2>2. PageShape(Closed(page, r.dialog)) /\ Closed(page, r.dialog).limitLoading = page.limitLoading
    BY ClosedKeeps DEF LlmInv, Shapes
  <2>3. PageShape(page') /\ page'.limitLoading = page.limitLoading
    BY <2>1, <2>2 DEF PageShape
  <2>4. Load.kind = "load"
    BY DEF Load
  <2> QED
    BY <1>1, <2>1, <2>3, <2>4, SameRemovals, SameSpinners DEF LlmInv, Shapes
<1> QED
  BY <1>2, <1>3

LEMMA LeavePageKeeps ==
  ASSUME LlmInv, LeavePage
  PROVE  LlmInv'
<1>1. PageShape(page') /\ page'.limitLoading = {} /\ UNCHANGED <<engine, asks>>
  BY DEF LeavePage, Fresh, PageShape
<1> QED
  BY <1>1, SameRemovals DEF LlmInv, Shapes, SpinnersEnd, AwayIsIdle

LEMMA PickConnectionKeeps ==
  ASSUME LlmInv, NEW e, PickConnection(e)
  PROVE  LlmInv'
<1>1. PageShape(page') /\ page'.limitLoading = page.limitLoading
  BY DEF PickConnection, LlmInv, Shapes, PageShape
<1> QED
  BY <1>1, SameRemovals, SameSpinners DEF LlmInv, Shapes, PickConnection

LEMMA CloseDialogKeeps ==
  ASSUME LlmInv, CloseDialog
  PROVE  LlmInv'
<1>1. PageShape(page') /\ page'.limitLoading = page.limitLoading
  BY ClosedKeeps DEF CloseDialog, LlmInv, Shapes
<1> QED
  BY <1>1, SameRemovals, SameSpinners DEF LlmInv, Shapes, CloseDialog

-----------------------------------------------------------------------------

LEMMA LlmInductive == LlmSpec => []LlmInv
<1>1. LlmInit => LlmInv
  <2> SUFFICES ASSUME LlmInit PROVE LlmInv
    OBVIOUS
  <2>1. engine \in Tables
    BY LlmAssumption DEF LlmInit
  <2>2. EngineShape(engine)
    BY <2>1 DEF Tables, EngineShape
  <2>3. PageShape(page) /\ page.limitLoading = {}
    BY DEF LlmInit, Fresh, PageShape
  <2>4. \A r \in asks : r.kind = "load"
    BY DEF LlmInit
  <2> QED
    BY <2>2, <2>3, <2>4 DEF LlmInv, Shapes, RemovalsOK, PassedAreGone, AwayIsIdle, SpinnersEnd
<1>2. LlmInv /\ [LlmNext]_llmVars => LlmInv'
  <2> SUFFICES ASSUME LlmInv, [LlmNext]_llmVars PROVE LlmInv'
    OBVIOUS
  <2>1. CASE \E e \in Endpoints \cup {NoId} : openEndpoint(e) \/ openCreateModel(e) \/ PickConnection(e)
    BY <2>1, OpensKeeps, PickConnectionKeeps DEF openEndpoint, openCreateModel
  <2>2. CASE \/ \E m \in Models : openEditModel(m)
             \/ \E p \in Presets \cup {NoId} : openProfile(p)
             \/ \E d \in Dialogs, of \in Endpoints \cup Models \cup Presets : AskDeletion(d, of)
    BY <2>2, OpensKeeps DEF openEditModel, openProfile, AskDeletion
  <2>3. CASE CloseDialog \/ removeEndpoint \/ LeavePage
    BY <2>3, CloseDialogKeeps, RemoveEndpointKeeps, LeavePageKeeps
  <2>4. ASSUME NEW outcome \in Outcomes,
               \/ \E e \in Endpoints : submitEndpoint(e, outcome)
               \/ \E m \in Models : submitModel(m, outcome)
               \/ \E p \in Presets : submitProfile(p, outcome)
               \/ removeModel(outcome) \/ removeProfile(outcome)
               \/ \E r \in asks : RemoveLast(r, outcome)
               \/ \E r \in asks, m \in Models : RemoveModel(r, m, outcome)
        PROVE  LlmInv'
    BY <2>4, SubmitEndpointKeeps, SubmitModelKeeps, SubmitProfileKeeps, RemoveModelRowKeeps,
       RemoveProfileKeeps, RemoveLastKeeps, RemoveModelKeeps
  <2>5. CASE \E slot \in Slots, p \in Presets \cup {NoId} : updateRouting(slot, p)
    BY <2>5, UpdateRoutingKeeps
  <2>6. CASE \E r \in asks, ok \in BOOLEAN : TablesReply(r, ok) \/ LimitReply(r, ok) \/ RoutePut(r, ok)
    BY <2>6, TablesReplyKeeps, LimitReplyKeeps, RoutePutKeeps
  <2>7. CASE \E r \in asks : WriteReply(r)
    BY <2>7, WriteReplyKeeps
  <2>8. CASE UNCHANGED llmVars
    BY <2>8 DEF llmVars, LlmInv, Shapes, RemovalsOK, PassedAreGone, AwayIsIdle, SpinnersEnd
  <2> QED
    BY <2>1, <2>2, <2>3, <2>4, <2>5, <2>6, <2>7, <2>8 DEF LlmNext
<1> QED
  BY <1>1, <1>2, PTL DEF LlmSpec

\* However many loads, removals and limit answers are under way, lost or late, a row that
\* shows "Checking inference usage" has a request out that will take it away.
THEOREM NoSpinnerStays == LlmSpec => []SpinnersEnd
<1>1. LlmInv => SpinnersEnd
  BY DEF LlmInv
<1> QED
  BY <1>1, LlmInductive, PTL

\* For any number of endpoints and models and of removals that run side by side, no step
\* takes an endpoint away before the models that its removal was to delete are gone.
THEOREM EndpointsGoLast == LlmSpec => ListedModelsGoFirst
<1> DEFINE First == \A e \in engine.endpoints \ engine'.endpoints :
                      \E r \in asks : /\ r.kind = "remove" /\ r.endpoint = e
                                      /\ \A m \in r.listed : engine.models[m] = NoId
<1>1. LlmInv /\ [LlmNext]_llmVars => [First]_llmVars
  <2> SUFFICES ASSUME LlmInv, LlmNext, NEW e \in engine.endpoints \ engine'.endpoints
               PROVE  \E r \in asks : /\ r.kind = "remove" /\ r.endpoint = e
                                      /\ \A m \in r.listed : engine.models[m] = NoId
    BY DEF First
  <2>1. EngineShape(engine)
    BY DEF LlmInv, Shapes
  <2>2. PICK outcome \in Outcomes, r \in asks : RemoveLast(r, outcome)
    <3>1. ASSUME NEW d, NEW of, NEW connection, Opens(d, of, connection) PROVE FALSE
      BY <3>1 DEF Opens
    <3>2. ASSUME NEW d, NEW of, AskDeletion(d, of) PROVE FALSE
      BY <3>2, <3>1 DEF AskDeletion
    <3>3. ASSUME NEW x, openEndpoint(x) \/ openCreateModel(x) \/ openEditModel(x) \/ openProfile(x) PROVE FALSE
      BY <3>3, <3>1 DEF openEndpoint, openCreateModel, openEditModel, openProfile
    <3>4. ASSUME NEW x, PickConnection(x) PROVE FALSE
      BY <3>4 DEF PickConnection
    <3>5. ~CloseDialog /\ ~removeEndpoint /\ ~LeavePage
      BY DEF CloseDialog, removeEndpoint, LeavePage
    <3>6. ASSUME NEW x, NEW outcome, submitEndpoint(x, outcome) \/ submitModel(x, outcome) \/ submitProfile(x, outcome)
          PROVE  FALSE
      BY <3>6, <2>1 DEF submitEndpoint, submitModel, submitProfile, Writes, EngineShape
    <3>7. ASSUME NEW outcome, removeModel(outcome) \/ removeProfile(outcome) PROVE FALSE
      BY <3>7, <2>1 DEF removeModel, removeProfile, Confirms, Writes, EngineShape
    <3>8. ASSUME NEW r, NEW m, NEW outcome, RemoveModel(r, m, outcome) PROVE FALSE
      BY <3>8, <2>1 DEF RemoveModel, Writes, EngineShape
    <3>9. ASSUME NEW slot, NEW p, updateRouting(slot, p) PROVE FALSE
      BY <3>9 DEF updateRouting
    <3>10. ASSUME NEW r, NEW ok, TablesReply(r, ok) \/ LimitReply(r, ok) PROVE FALSE
      BY <3>10 DEF TablesReply, LimitReply
    <3>11. ASSUME NEW r, NEW ok, RoutePut(r, ok) PROVE FALSE
      BY <3>11, <2>1 DEF RoutePut, EngineShape
    <3>12. ASSUME NEW r, WriteReply(r) PROVE FALSE
      BY <3>12 DEF WriteReply
    <3> QED
      BY <3>2, <3>3, <3>4, <3>5, <3>6, <3>7, <3>8, <3>9, <3>10, <3>11, <3>12 DEF LlmNext
  <2>3. r.kind = "remove" /\ r.left = {} /\ e = r.endpoint
    BY <2>1, <2>2 DEF RemoveLast, Writes, EngineShape
  <2> QED
    BY <2>3 DEF LlmInv, PassedAreGone
<1> QED
  BY <1>1, LlmInductive, PTL DEF LlmSpec, ListedModelsGoFirst

-----------------------------------------------------------------------------
(* GuardStudio: RecentActivity. *)

ActivityInv == asked \in Nat /\ events \in 0..asked /\ awaiting \subseteq 1..asked

LEMMA SameActivity ==
  ASSUME ActivityInv, UNCHANGED <<asked, events, awaiting>>
  PROVE  ActivityInv' /\ events' >= events
BY DEF ActivityInv

LEMMA ActivityStep ==
  ASSUME ActivityInv, [Next]_vars
  PROVE  ActivityInv' /\ events' >= events
<1>1. CASE LoadEvents
  BY <1>1 DEF LoadEvents, ActivityInv
<1>2. ASSUME NEW id \in awaiting, EventsReply(id) PROVE ActivityInv' /\ events' >= events
  <2>1. asked' = asked /\ awaiting' = awaiting \ {id} /\ (events' = events \/ events' = asked)
    BY <1>2 DEF EventsReply, Shows
  <2> QED
    BY <2>1 DEF ActivityInv
<1>3. CASE OpenPanel \/ ClosePanel \/ Select \/ SaveAttachments
  BY <1>3, SameActivity DEF OpenPanel, ClosePanel, Select, SaveAttachments
<1>4. ASSUME NEW c \in panelCalls, ServeSync(c) \/ SyncReply(c) \/ ReloadReply(c) \/ PanelCallFails(c)
      PROVE  ActivityInv' /\ events' >= events
  BY <1>4, SameActivity DEF ServeSync, SyncReply, ReloadReply, PanelCallFails
<1>5. CASE UNCHANGED panelVars
  BY <1>5, SameActivity DEF panelVars
<1> QED
  BY <1>1, <1>2, <1>3, <1>4, <1>5 DEF Next, PanelNext, vars

LEMMA ActivityInductive == Spec => []ActivityInv
<1>1. Init => ActivityInv
  BY DEF Init, PanelInit, ActivityInv
<1>2. ActivityInv /\ [Next]_vars => ActivityInv'
  BY ActivityStep
<1> QED
  BY <1>1, <1>2, PTL DEF Spec

\* However many polls are under way and in whatever order they are answered or fail, the
\* list of recent activity never goes back to an earlier request.
THEOREM ActivityGoesForward == Spec => ActivityNeverGoesBack
<1>1. ActivityInv /\ [Next]_vars => [events' >= events]_vars
  BY ActivityStep
<1> QED
  BY <1>1, ActivityInductive, PTL DEF Spec, ActivityNeverGoesBack

-----------------------------------------------------------------------------
(* AttachmentsPanel. *)

PanelOK(p) ==
  p = [open |-> p.open, loading |-> p.loading, saving |-> p.saving, initial |-> p.initial,
       selected |-> p.selected, lost |-> p.lost]

PanelCallOK(c) == c = [op |-> c.op, set |-> c.set, ours |-> c.ours, after |-> c.after, st |-> c.st]

\* Of the requests under way at most one is of the panel that is open; it is the reason
\* why the panel is busy, and what it was told is what the server has, until it asks for
\* a change or hears of one.
AttachInv ==
  /\ PanelOK(panel)
  /\ \A c \in panelCalls : PanelCallOK(c) /\ c.op \in {"sync", "reload"}
  /\ \A c \in panelCalls : c.op = "reload" =>
       /\ c.ours /\ c.st = "ok" /\ panel.open /\ panel.loading
       /\ panel.lost \/ c.set = attached
  /\ \A c \in panelCalls : c.op = "sync" /\ c.ours =>
       /\ panel.open /\ panel.saving
       /\ c.st = "ok" \/ panel.lost \/ panel.initial = attached
  /\ \A c, d \in panelCalls : c.ours /\ d.ours => c = d
  /\ panel.open /\ ~panel.loading /\ ~panel.saving => panel.lost \/ panel.initial = attached

LEMMA SamePanel ==
  ASSUME AttachInv, UNCHANGED <<attached, panel, panelCalls>>
  PROVE  AttachInv'
BY DEF AttachInv

LEMMA OpenPanelKeeps == AttachInv /\ OpenPanel => AttachInv'
<1> SUFFICES ASSUME AttachInv, OpenPanel PROVE AttachInv'
  OBVIOUS
<1> DEFINE new == Reload(FALSE)
<1>1. panelCalls' = panelCalls \cup {new} /\ attached' = attached /\ ~panel.open
  BY DEF OpenPanel
<1>2. /\ PanelCallOK(new) /\ new.op = "reload" /\ new.ours /\ new.st = "ok" /\ new.set = attached
  BY DEF Reload, PanelCallOK
<1>3. PanelOK(panel') /\ panel'.open /\ panel'.loading
  BY DEF OpenPanel, PanelClosed, PanelOK
<1> HIDE DEF new
<1> QED
  BY <1>1, <1>2, <1>3 DEF AttachInv

LEMMA ClosePanelKeeps == AttachInv /\ ClosePanel => AttachInv'
<1> SUFFICES ASSUME AttachInv, ClosePanel PROVE AttachInv'
  OBVIOUS
<1> DEFINE no == FALSE
<1>1. panelCalls' = {[c EXCEPT !.ours = no] : c \in {d \in panelCalls : d.op = "sync"}}
  BY DEF ClosePanel
<1>2. ASSUME NEW c \in panelCalls, c.op = "sync", NEW n, n = [c EXCEPT !.ours = no]
      PROVE  PanelCallOK(n) /\ n.op = "sync" /\ ~n.ours
  <2>1. ~no
    OBVIOUS
  <2> HIDE DEF no
  <2>2. PanelCallOK(n) /\ n.op = "sync" /\ n.ours = no
    BY <1>2 DEF AttachInv, PanelCallOK
  <2> QED
    BY <2>1, <2>2
<1>3. \A n \in panelCalls' : PanelCallOK(n) /\ n.op = "sync" /\ ~n.ours
  BY <1>1, <1>2
<1>4. PanelOK(panel') /\ ~panel'.open
  BY DEF ClosePanel, PanelClosed, PanelOK
<1> QED
  BY <1>3, <1>4 DEF AttachInv

LEMMA SelectKeeps == AttachInv /\ Select => AttachInv'
<1> SUFFICES ASSUME AttachInv, Select PROVE AttachInv'
  OBVIOUS
<1>1. PICK ids : panel' = [panel EXCEPT !.selected = ids]
  BY DEF Select
<1>2. /\ PanelOK(panel') /\ panel'.open = panel.open /\ panel'.loading = panel.loading
      /\ panel'.saving = panel.saving /\ panel'.initial = panel.initial /\ panel'.lost = panel.lost
  BY <1>1 DEF AttachInv, PanelOK
<1> QED
  BY <1>2 DEF Select, AttachInv

LEMMA SaveAttachmentsKeeps == AttachInv /\ SaveAttachments => AttachInv'
<1> SUFFICES ASSUME AttachInv, SaveAttachments PROVE AttachInv'
  OBVIOUS
<1> DEFINE new == Sync(panel.selected)
<1>1. panelCalls' = panelCalls \cup {new} /\ attached' = attached /\ panel.open /\ ~panel.loading /\ ~panel.saving
  BY DEF SaveAttachments
<1>2. PanelCallOK(new) /\ new.op = "sync" /\ new.ours /\ new.st = "sent"
  BY DEF Sync, PanelCallOK
<1>3. /\ PanelOK(panel') /\ panel'.open = panel.open /\ panel'.loading = panel.loading
      /\ panel'.saving /\ panel'.initial = panel.initial /\ panel'.lost = panel.lost
  BY DEF SaveAttachments, AttachInv, PanelOK
<1> HIDE DEF new
<1>4. \A c \in panelCalls : ~c.ours
  BY <1>1 DEF AttachInv
<1> QED
  BY <1>1, <1>2, <1>3, <1>4 DEF AttachInv

LEMMA ServeSyncKeeps ==
  ASSUME AttachInv, NEW c \in panelCalls, ServeSync(c)
  PROVE  AttachInv'
<1> DEFINE n == [c EXCEPT !.st = "ok"]
<1>1. panelCalls' = (panelCalls \ {c}) \cup {n} /\ c.op = "sync" /\ c.st = "sent"
  BY DEF ServeSync
<1>2. PanelCallOK(n) /\ n.op = "sync" /\ n.ours = c.ours /\ n.st = "ok"
  BY <1>1 DEF AttachInv, PanelCallOK
<1>3. /\ PanelOK(panel') /\ panel'.open = panel.open /\ panel'.loading = panel.loading
      /\ panel'.saving = panel.saving /\ (panel.open /\ ~c.ours => panel'.lost)
  BY DEF ServeSync, AttachInv, PanelOK
<1> HIDE DEF n
<1>4. CASE c.ours
  <2>1. \A d \in panelCalls \ {c} : ~d.ours
    BY <1>4 DEF AttachInv
  <2> QED
    BY <1>1, <1>2, <1>3, <1>4, <2>1 DEF AttachInv
<1>5. CASE ~c.ours /\ panel.open
  BY <1>1, <1>2, <1>3, <1>5 DEF AttachInv
<1>6. CASE ~c.ours /\ ~panel.open
  BY <1>1, <1>2, <1>3, <1>6 DEF AttachInv
<1> QED
  BY <1>4, <1>5, <1>6

LEMMA SyncReplyKeeps ==
  ASSUME AttachInv, NEW c \in panelCalls, SyncReply(c)
  PROVE  AttachInv'
<1>1. CASE ~c.ours
  BY <1>1 DEF SyncReply, AttachInv
<1>2. CASE c.ours
  <2> DEFINE new == Reload(TRUE)
  <2>1. panelCalls' = (panelCalls \ {c}) \cup {new} /\ attached' = attached /\ panel.open
    BY <1>2 DEF SyncReply, AttachInv
  <2>2. PanelCallOK(new) /\ new.op = "reload" /\ new.ours /\ new.st = "ok" /\ new.set = attached
    BY DEF Reload, PanelCallOK
  <2>3. /\ PanelOK(panel') /\ panel'.open = panel.open /\ panel'.loading
        /\ panel'.saving = panel.saving /\ panel'.initial = panel.initial /\ panel'.lost = panel.lost
    BY <1>2 DEF SyncReply, AttachInv, PanelOK
  <2> HIDE DEF new
  <2>4. \A d \in panelCalls \ {c} : ~d.ours
    BY <1>2 DEF AttachInv
  <2> QED
    BY <2>1, <2>2, <2>3, <2>4 DEF AttachInv
<1> QED
  BY <1>1, <1>2

LEMMA ReloadReplyKeeps ==
  ASSUME AttachInv, NEW c \in panelCalls, ReloadReply(c)
  PROVE  AttachInv'
<1> DEFINE no == FALSE
           p1 == [panel EXCEPT !.loading = no]
           p2 == [p1 EXCEPT !.initial = c.set]
           p3 == [p2 EXCEPT !.selected = c.set]
<1>1. panelCalls' = panelCalls \ {c} /\ attached' = attached /\ c.op = "reload"
  BY DEF ReloadReply
<1>2. c.ours /\ panel.open /\ (panel.lost \/ c.set = attached) /\ \A d \in panelCalls \ {c} : ~d.ours
  BY <1>1 DEF AttachInv
<1>3. panel' = [p3 EXCEPT !.saving = IF c.after THEN FALSE ELSE p3.saving]
  BY DEF ReloadReply, AttachInv, PanelOK
<1> HIDE DEF no
<1>4. PanelOK(p1) /\ p1.open = panel.open /\ p1.lost = panel.lost
  BY DEF AttachInv, PanelOK
<1> HIDE DEF p1
<1>5. PanelOK(p2) /\ p2.open = panel.open /\ p2.lost = panel.lost /\ p2.initial = c.set
  BY <1>4 DEF PanelOK
<1> HIDE DEF p2
<1>6. PanelOK(p3) /\ p3.open = panel.open /\ p3.lost = panel.lost /\ p3.initial = c.set
  BY <1>5 DEF PanelOK
<1> HIDE DEF p3
<1>7. PanelOK(panel') /\ panel'.open = panel.open /\ panel'.lost = panel.lost /\ panel'.initial = c.set
  BY <1>3, <1>6 DEF PanelOK
<1> QED
  BY <1>1, <1>2, <1>7 DEF AttachInv

LEMMA PanelCallFailsKeeps ==
  ASSUME AttachInv, NEW c \in panelCalls, PanelCallFails(c)
  PROVE  AttachInv'
<1>1. CASE ~c.ours
  BY <1>1 DEF PanelCallFails, AttachInv
<1>2. CASE c.ours
  <2> DEFINE load == IF c.op = "reload" THEN FALSE ELSE panel.loading
             save == IF c.op = "sync" \/ c.after THEN FALSE ELSE panel.saving
             lose == panel.lost \/ c.st = "ok"
             p1 == [panel EXCEPT !.loading = load]
             p2 == [p1 EXCEPT !.saving = save]
  <2>1. /\ panelCalls' = panelCalls \ {c} /\ attached' = attached
        /\ \A d \in panelCalls \ {c} : ~d.ours
    BY <1>2 DEF PanelCallFails, AttachInv
  <2>2. panel' = [p2 EXCEPT !.lost = lose]
    BY <1>2 DEF PanelCallFails, AttachInv, PanelOK
  <2>3. lose \/ panel.initial = attached
    BY <1>2 DEF AttachInv
  <2> HIDE DEF load, save, lose
  <2>4. PanelOK(p1) /\ p1.initial = panel.initial
    BY DEF AttachInv, PanelOK
  <2> HIDE DEF p1
  <2>5. PanelOK(p2) /\ p2.initial = panel.initial
    BY <2>4 DEF PanelOK
  <2> HIDE DEF p2
  <2>6. PanelOK(panel') /\ panel'.initial = panel.initial /\ panel'.lost = lose
    BY <2>2, <2>5 DEF PanelOK
  <2> QED
    BY <2>1, <2>3, <2>6 DEF AttachInv
<1> QED
  BY <1>1, <1>2

LEMMA AttachStep ==
  ASSUME AttachInv, [Next]_vars
  PROVE  AttachInv'
<1>1. CASE UNCHANGED panelVars
  BY <1>1, SamePanel DEF panelVars
<1>2. CASE PanelNext
  <2>1. CASE LoadEvents \/ \E id \in awaiting : EventsReply(id)
    BY <2>1, SamePanel DEF LoadEvents, EventsReply
  <2> QED
    BY <1>2, <2>1, OpenPanelKeeps, ClosePanelKeeps, SelectKeeps, SaveAttachmentsKeeps, ServeSyncKeeps,
       SyncReplyKeeps, ReloadReplyKeeps, PanelCallFailsKeeps DEF PanelNext
<1> QED
  BY <1>1, <1>2 DEF Next, vars

LEMMA AttachInductive == Spec => []AttachInv
<1>1. Init => AttachInv
  BY DEF Init, PanelInit, AttachInv, PanelClosed, PanelOK
<1>2. AttachInv /\ [Next]_vars => AttachInv'
  BY AttachStep
<1> QED
  BY <1>1, <1>2, PTL DEF Spec

\* With any number of saves of earlier panels still on their way, whichever requests are
\* lost: a panel that has nothing to save and heard of no loss shows what is attached.
THEOREM AttachmentsAreTrue == Spec => []AttachmentsSettle
<1>1. AttachInv => AttachmentsSettle
  BY DEF AttachInv, AttachmentsSettle
<1> QED
  BY <1>1, AttachInductive, PTL

-----------------------------------------------------------------------------
(* The rules: what the editor's functions make of a form. *)

CommandCall == [rule : {"call", "query"}, program : Programs, word : Words \cup {None}]

LEMMA PlainRule ==
  ASSUME NEW p \in Programs
  PROVE  /\ Plain(p) \in CommandRule /\ Plain(p).command = p
         /\ \A field \in {"allowedArgs", "allowedSql"}, w \in Words :
              [Plain(p) EXCEPT ![field] = {w}] \in CommandRule
BY DEF Plain, CommandRule

\* IndexOf finds a rule of the program exactly when there is one.
LEMMA IndexFinds ==
  ASSUME NEW commands \in Seq(CommandRule), NEW p
  PROVE  \/ IndexOf(commands, p) = 0 /\ \A i \in DOMAIN commands : commands[i].command # p
         \/ /\ IndexOf(commands, p) \in DOMAIN commands /\ IndexOf(commands, p) # 0
            /\ commands[IndexOf(commands, p)].command = p
<1> DEFINE rules == {i \in DOMAIN commands : commands[i].command = p}
           n == Len(commands)
<1>1. n \in Nat /\ DOMAIN commands = 1..n /\ rules \in SUBSET (1..n)
  OBVIOUS
<1>2. CASE rules = {}
  <2>1. IndexOf(commands, p) = 0
    BY <1>2 DEF IndexOf
  <2> QED
    BY <1>2, <2>1
<1>3. CASE rules # {}
  <2>1. IndexOf(commands, p) = Nth(rules, 1)
    BY <1>3 DEF IndexOf
  <2>2. Nth(rules, 1) \in rules
    <3> HIDE DEF rules, n
    <3> QED
      BY <1>1, <1>3, FirstIsThere
  <2> QED
    BY <1>1, <2>1, <2>2
<1> QED
  BY <1>2, <1>3

LEMMA AddsRule ==
  ASSUME NEW form \in StudioForm, NEW p \in Programs
  PROVE  /\ addCommandRule(form, p) \in StudioForm
         /\ addCommandRule(form, p).caps = form.caps /\ addCommandRule(form, p).mode = form.mode
         /\ RulesFor(addCommandRule(form, p), p) # {}
<1> DEFINE old == form.commands
           i == IndexOf(old, p)
<1>1. old \in Seq(CommandRule)
  BY DEF StudioForm
<1>2. i = 0 \/ (i \in DOMAIN old /\ old[i].command = p)
  BY <1>1, IndexFinds
<1>3. CASE i # 0
  <2>1. addCommandRule(form, p) = form /\ i \in DOMAIN old /\ old[i].command = p
    BY <1>2, <1>3 DEF addCommandRule
  <2>2. old[i] \in RulesFor(form, p)
    BY <2>1 DEF RulesFor
  <2> QED
    BY <2>1, <2>2
<1>4. CASE i = 0
  <2> DEFINE new == Append(old, Plain(p))
             g == [form EXCEPT !.commands = new]
  <2>1. new \in Seq(CommandRule) /\ Len(old) + 1 \in DOMAIN new /\ new[Len(old) + 1] = Plain(p)
    BY <1>1, PlainRule
  <2>2. addCommandRule(form, p) = g
    BY <1>4 DEF addCommandRule
  <2> HIDE DEF new
  <2>3. g \in StudioForm /\ g.commands = new /\ g.caps = form.caps /\ g.mode = form.mode
    BY <2>1 DEF StudioForm
  <2> HIDE DEF g
  <2>4. new[Len(old) + 1] \in RulesFor(g, p)
    BY <2>1, <2>3, PlainRule DEF RulesFor
  <2> QED
    BY <2>2, <2>3, <2>4
<1> QED
  BY <1>3, <1>4

LEMMA RemovesRules ==
  ASSUME NEW form \in StudioForm, NEW p
  PROVE  /\ removeCommand(form, p) \in StudioForm
         /\ removeCommand(form, p).caps = form.caps /\ removeCommand(form, p).mode = form.mode
         /\ RulesFor(removeCommand(form, p), p) = {}
<1> DEFINE old == form.commands
           set == {i \in DOMAIN old : old[i].command # p}
           new == Kept(old, set)
           g == [form EXCEPT !.commands = new]
<1>1. old \in Seq(CommandRule) /\ set \in SUBSET (DOMAIN old)
  BY DEF StudioForm
<1>2. removeCommand(form, p) = g
  BY DEF removeCommand, StudioForm
<1>3. new \in Seq(CommandRule)
  BY <1>1, KeptIsList
<1>4. {new[k] : k \in DOMAIN new} = {old[i] : i \in set}
  BY <1>1, KeptRange
<1>5. \A k \in DOMAIN new : new[k].command # p
  BY <1>4
<1> HIDE DEF new, set
<1>6. g \in StudioForm /\ g.commands = new /\ g.caps = form.caps /\ g.mode = form.mode
  BY <1>3 DEF StudioForm
<1> HIDE DEF g
<1>7. RulesFor(g, p) = {}
  BY <1>5, <1>6 DEF RulesFor
<1> QED
  BY <1>2, <1>6, <1>7

LEMMA AddsWord ==
  ASSUME NEW form \in StudioForm, NEW p \in Programs, NEW w \in Words,
         NEW field \in {"allowedArgs", "allowedSql"}
  PROVE  /\ AddWord(form, p, field, w) \in StudioForm
         /\ AddWord(form, p, field, w).caps = form.caps /\ AddWord(form, p, field, w).mode = form.mode
         /\ w \in Allowed(AddWord(form, p, field, w), p, field)
         /\ RulesFor(AddWord(form, p, field, w), p) # {}
<1> DEFINE old == form.commands
           i == IndexOf(old, p)
           one == [Plain(p) EXCEPT ![field] = {w}]
           wide == [old[i] EXCEPT ![field] = @ \cup {w}]
           new == IF i = 0 THEN Append(old, one) ELSE [old EXCEPT ![i] = wide]
           at == IF i = 0 THEN Len(old) + 1 ELSE i
           g == [form EXCEPT !.commands = new]
<1>1. old \in Seq(CommandRule)
  BY DEF StudioForm
<1>2. i = 0 \/ (i # 0 /\ i \in DOMAIN old /\ old[i].command = p)
  BY <1>1, IndexFinds
<1>3. AddWord(form, p, field, w) = g
  BY <1>1, <1>2 DEF AddWord, StudioForm
<1>4. one \in CommandRule /\ one.command = p /\ w \in one[field]
  BY DEF Plain, CommandRule
<1>5. i # 0 => wide \in CommandRule /\ wide.command = p /\ w \in wide[field]
  <2>1. i # 0 => old[i] \in CommandRule /\ old[i].command = p
    BY <1>1, <1>2
  <2> HIDE DEF i
  <2> QED
    BY <2>1 DEF CommandRule
<1> HIDE DEF one, wide, i
<1>6. new \in Seq(CommandRule) /\ at \in DOMAIN new /\ new[at].command = p /\ w \in new[at][field]
  <2>1. CASE i = 0
    BY <1>1, <1>4, <2>1
  <2>2. CASE i # 0
    BY <1>1, <1>2, <1>5, <2>2
  <2> QED
    BY <2>1, <2>2
<1> HIDE DEF new, at
<1>7. g \in StudioForm /\ g.commands = new /\ g.caps = form.caps /\ g.mode = form.mode
  BY <1>6 DEF StudioForm
<1> HIDE DEF g
<1>8. new[at] \in RulesFor(g, p)
  BY <1>6, <1>7 DEF RulesFor
<1>9. w \in Allowed(g, p, field)
  BY <1>6, <1>8 DEF Allowed
<1> QED
  BY <1>3, <1>7, <1>8, <1>9

-----------------------------------------------------------------------------
(* The verdict and its fixes. *)

RuleNames == Constructs \cup {"download", "install", "writeFs", "cron", "allowed",
                              "commands-closed", "command-blacklisted", "command-not-allowed",
                              "arg-not-allowed", "sql-not-allowed", "arg-blocked", "sql-blocked"}

\* Why a line is refused: what each rule says of the form.
Reason(form, v) ==
  /\ v.rule \in RuleNames
  /\ v.rule \in DOMAIN RULE_TO_CAP => RULE_TO_CAP[v.rule] \notin form.caps
  /\ v.rule = "commands-closed" => form.mode = "closed"
  /\ v.rule = "command-blacklisted" => RulesFor(form, v.program) # {}
  /\ v.rule = "command-not-allowed" => RulesFor(form, v.program) = {}
  /\ v.rule = "arg-not-allowed" =>
       /\ v.program \in Programs /\ v.word \in Words
       /\ v.word \notin Allowed(form, v.program, "allowedArgs")
  /\ v.rule = "sql-not-allowed" =>
       /\ v.program \in Programs /\ v.word \in Words
       /\ v.word \notin Allowed(form, v.program, "allowedSql")

LEMMA Verdicts ==
  ASSUME NEW rule, NEW p, NEW w
  PROVE  /\ No(rule, p, w).rule = rule /\ No(rule, p, w).program = p /\ No(rule, p, w).word = w
         /\ Ok.rule = "allowed"
BY DEF No, Ok

\* The rules with a capability, and the capability of each.
LEMMA CapOfRule ==
  /\ DOMAIN RULE_TO_CAP = {"pipes", "redirects", "cmdSubst", "background", "sudo", "codeExec",
                           "download", "install", "writeFs", "cron", "pipe-to-shell"}
  /\ RULE_TO_CAP["pipe-to-shell"] = "codeExec"
  /\ \A c \in DOMAIN RULE_TO_CAP : c # "pipe-to-shell" => RULE_TO_CAP[c] = c
  /\ \A c \in DOMAIN RULE_TO_CAP : RULE_TO_CAP[c] \in Caps
BY DEF RULE_TO_CAP, Caps

\* A verdict without a program speaks of a capability, or of nothing that can be allowed.
LEMMA OkReason ==
  ASSUME NEW form
  PROVE  Reason(form, Ok)
BY Verdicts, CapOfRule DEF Reason, RuleNames, Constructs

LEMMA CapReason ==
  ASSUME NEW form, NEW c \in {"download", "install", "writeFs", "cron"}, c \notin form.caps
  PROVE  Reason(form, No(c, None, None))
BY Verdicts, CapOfRule DEF Reason, RuleNames, Constructs

LEMMA GateReason ==
  ASSUME NEW form, NEW r \in Constructs, ~Granted(form.caps, r)
  PROVE  Reason(form, No(r, None, None))
<1> DEFINE v == No(r, None, None)
<1>1. v.rule = r
  BY Verdicts
<1> HIDE DEF v
<1>2. r \in DOMAIN RULE_TO_CAP => RULE_TO_CAP[r] \notin form.caps
  BY CapOfRule DEF Granted
<1> QED
  BY <1>1, <1>2 DEF Reason, RuleNames, Constructs, v

\* The mode decides as it says.
LEMMA ModeReason ==
  ASSUME NEW form \in StudioForm, NEW call \in CommandCall,
         NEW field, NEW rule,
         \/ field = "allowedArgs" /\ rule = "arg-not-allowed"
         \/ field = "allowedSql" /\ rule = "sql-not-allowed"
  PROVE  Reason(form, ByMode(form, call, field, rule))
<1> DEFINE v == ByMode(form, call, field, rule)
           p == call.program
<1>1. /\ form.mode \in {"open", "whitelist", "blacklist", "closed"}
      /\ call.word \in Words \cup {None} /\ p \in Programs
  BY DEF StudioForm, Modes, CommandCall
<1>2. CASE v = Ok
  BY <1>2, OkReason
<1>3. CASE v # Ok
  <2>1. \/ form.mode = "closed" /\ v = No("commands-closed", p, None)
        \/ RulesFor(form, p) # {} /\ v = No("command-blacklisted", p, None)
        \/ RulesFor(form, p) = {} /\ v = No("command-not-allowed", p, None)
        \/ call.word # None /\ call.word \notin Allowed(form, p, field) /\ v = No(rule, p, call.word)
    BY <1>1, <1>3 DEF ByMode
  <2> HIDE DEF v
  <2>2. CASE form.mode = "closed" /\ v = No("commands-closed", p, None)
    BY <2>2, Verdicts, CapOfRule DEF Reason, RuleNames, v
  <2>3. CASE RulesFor(form, p) # {} /\ v = No("command-blacklisted", p, None)
    BY <2>3, Verdicts, CapOfRule DEF Reason, RuleNames, v
  <2>4. CASE RulesFor(form, p) = {} /\ v = No("command-not-allowed", p, None)
    BY <2>4, Verdicts, CapOfRule DEF Reason, RuleNames, v
  <2>5. CASE call.word # None /\ call.word \notin Allowed(form, p, field) /\ v = No(rule, p, call.word)
    BY <1>1, <2>5, Verdicts, CapOfRule DEF Reason, RuleNames, v
  <2> QED
    BY <2>1, <2>2, <2>3, <2>4, <2>5
<1> QED
  BY <1>2, <1>3

LEMMA CallReason ==
  ASSUME NEW form \in StudioForm, NEW call \in CommandCall
  PROVE  Reason(form, CallVerdict(form, call))
<1> DEFINE v == CallVerdict(form, call)
           p == call.program
           missing == NeedsOf[p] \ form.caps
           c == CHOOSE x \in missing : TRUE
<1>1. p \in Programs
  BY DEF CommandCall
<1>2. NeedsOf[p] \subseteq {"download", "install", "writeFs", "cron"}
  BY <1>1, RulesAssumption
<1>3. missing # {} => c \in missing
  OBVIOUS
<1>4. \/ v = No("sql-blocked", p, call.word)
      \/ v = ByMode(form, call, "allowedSql", "sql-not-allowed")
      \/ v = No("arg-blocked", p, call.word)
      \/ missing # {} /\ v = No(c, None, None)
      \/ v = ByMode(form, call, "allowedArgs", "arg-not-allowed")
  BY DEF CallVerdict
<1>5. missing # {} => c \in {"download", "install", "writeFs", "cron"} /\ c \notin form.caps
  BY <1>2, <1>3
<1> HIDE DEF v, c, missing
<1>6. CASE v = No("sql-blocked", p, call.word) \/ v = No("arg-blocked", p, call.word)
  BY <1>6, Verdicts, CapOfRule DEF Reason, RuleNames, v
<1>7. CASE missing # {} /\ v = No(c, None, None)
  BY <1>5, <1>7, CapReason DEF v
<1>8. CASE v = ByMode(form, call, "allowedSql", "sql-not-allowed")
  BY <1>8, ModeReason DEF v
<1>9. CASE v = ByMode(form, call, "allowedArgs", "arg-not-allowed")
  BY <1>9, ModeReason DEF v
<1> QED
  BY <1>4, <1>6, <1>7, <1>8, <1>9 DEF v

\* A line is judged by the first of its steps that is refused; whichever that is, the
\* verdict says of the form what its rule means.
LEMMA LineReason ==
  ASSUME NEW form \in StudioForm, NEW line \in CommandLine
  PROVE  Reason(form, CommandVerdict(form, line))
<1> DEFINE v == CommandVerdict(form, line)
           steps == line.steps
           bad == {i \in DOMAIN steps : StepVerdict(form, steps[i]) # Ok}
           n == Len(steps)
<1>1. steps \in Seq(Step)
  BY DEF CommandLine
<1>2. n \in Nat /\ DOMAIN steps = 1..n /\ bad \in SUBSET (1..n)
  BY <1>1
<1>3. bad # {} => Nth(bad, 1) \in bad
  <2> HIDE DEF bad, n
  <2> QED
    BY <1>2, FirstIsThere
<1>4. v = Ok \/ \E i \in DOMAIN steps : v = StepVerdict(form, steps[i])
  BY <1>3 DEF CommandVerdict
<1> HIDE DEF v
<1>5. CASE v = Ok
  BY <1>5, OkReason DEF v
<1>6. ASSUME NEW i \in DOMAIN steps, v = StepVerdict(form, steps[i]) PROVE Reason(form, v)
  <2> DEFINE s == steps[i]
  <2>1. (s \in CommandCall /\ s.rule \in {"call", "query"}) \/ s.rule \in Constructs
    <3>1. s \in Step
      BY <1>1
    <3> HIDE DEF s
    <3> QED
      BY <3>1 DEF Step, CommandCall
  <2> HIDE DEF s
  <2>2. CASE s.rule \in {"call", "query"}
    <3>1. v = CallVerdict(form, s)
      BY <1>6, <2>2 DEF StepVerdict, s
    <3>2. s \in CommandCall
      BY <2>1, <2>2 DEF Constructs
    <3> QED
      BY <3>1, <3>2, CallReason
  <2>3. CASE s.rule \notin {"call", "query"} /\ Granted(form.caps, s.rule)
    BY <1>6, <2>3, OkReason DEF StepVerdict, s
  <2>4. CASE s.rule \notin {"call", "query"} /\ ~Granted(form.caps, s.rule)
    <3>1. v = No(s.rule, None, None)
      BY <1>6, <2>4 DEF StepVerdict, s
    <3>2. s.rule \in Constructs
      BY <2>1, <2>4
    <3> QED
      BY <2>4, <3>1, <3>2, GateReason
  <2> QED
    BY <2>2, <2>3, <2>4
<1> QED
  BY <1>4, <1>5, <1>6 DEF v

\* The name the editor finds in a line, if it finds one.
LEMMA NameFound ==
  ASSUME NEW line \in CommandLine
  PROVE  extractCommandName(line) \in Programs \cup {None}
<1>1. line.words \in Seq(Programs)
  BY DEF CommandLine
<1> QED
  BY <1>1 DEF extractCommandName

\* What the editor reads out of a message about an argument or a keyword.
LEMMA MessageRead ==
  ASSUME NEW p \in Programs, NEW w \in Words
  PROVE  /\ ArgIn[p, w] # None => ArgIn[p, w][1] \in Programs /\ ArgIn[p, w][2] \in Words
         /\ SqlIn[w] # None => SqlIn[w] \in Words
<1>1. <<p, w>> \in Programs \X Words
  OBVIOUS
<1>2. ArgIn[<<p, w>>] \in (Programs \X Words) \cup {None}
  BY <1>1, RulesAssumption
<1>3. SqlIn[w] \in Words \cup {None}
  BY RulesAssumption
<1> QED
  BY <1>2, <1>3

\* The fix for a command gets the line past the rule that refused it: the form it leaves
\* does not say what that rule says.
LEMMA CommandFix ==
  ASSUME NEW form \in StudioForm, NEW line \in CommandLine,
         HasAllowFix(line, CommandVerdict(form, line)), ReadsAlike(line, CommandVerdict(form, line))
  PROVE  CommandVerdict(suggestAllowCommand(form, line, CommandVerdict(form, line)), line)
           # CommandVerdict(form, line)
<1> DEFINE v == CommandVerdict(form, line)
           g == suggestAllowCommand(form, line, v)
           p == v.program
           u == CommandVerdict(g, line)
<1>1. HasAllowFix(line, v) /\ ReadsAlike(line, v) /\ Reason(form, v)
  BY LineReason
<1>2. ASSUME g \in StudioForm PROVE Reason(g, u)
  BY <1>2, LineReason
<1>3. extractCommandName(line) \in Programs \cup {None}
  BY NameFound
<1> HIDE DEF v, u
<1>4. CASE v.rule \in DOMAIN RULE_TO_CAP
  <2>1. g = [form EXCEPT !.caps = @ \cup {RULE_TO_CAP[v.rule]}]
    BY <1>4, CapOfRule DEF suggestAllowCommand
  <2>2. g \in StudioForm /\ RULE_TO_CAP[v.rule] \in g.caps
    BY <1>4, <2>1, CapOfRule DEF StudioForm
  <2> HIDE DEF g
  <2> QED
    BY <1>2, <1>4, <2>2 DEF Reason, v, u, g
<1>5. CASE v.rule \in ByName
  <2>1. v.rule \notin DOMAIN RULE_TO_CAP
    BY <1>5, CapOfRule DEF ByName
  <2>2. extractCommandName(line) = p /\ p \in Programs
    BY <1>1, <1>3, <1>5, <2>1 DEF HasAllowFix, ReadsAlike, ByName
  <2>3. CASE v.rule = "commands-closed"
    <3> DEFINE f == [form EXCEPT !.mode = "whitelist"]
    <3>1. g = addCommandRule(f, p)
      BY <2>1, <2>2, <2>3 DEF suggestAllowCommand
    <3>2. f \in StudioForm /\ f.mode = "whitelist"
      BY DEF StudioForm, Modes
    <3> HIDE DEF f, p
    <3>3. g \in StudioForm /\ g.mode = "whitelist"
      BY <2>2, <3>1, <3>2, AddsRule
    <3> QED
      BY <1>2, <2>3, <3>3 DEF Reason, v, u
  <2>4. CASE v.rule = "command-blacklisted"
    <3>1. g = removeCommand(form, p)
      BY <2>1, <2>2, <2>4 DEF suggestAllowCommand
    <3>2. g \in StudioForm /\ RulesFor(g, p) = {}
      BY <3>1, RemovesRules
    <3> HIDE DEF g
    <3> QED
      BY <1>2, <2>4, <3>2 DEF Reason, v, u, g
  <2>5. CASE v.rule = "command-not-allowed"
    <3>1. g = addCommandRule(form, p)
      BY <2>1, <2>2, <2>5 DEF suggestAllowCommand
    <3>2. g \in StudioForm /\ RulesFor(g, p) # {}
      BY <2>2, <3>1, AddsRule
    <3> HIDE DEF g
    <3> QED
      BY <1>2, <2>5, <3>2 DEF Reason, v, u, g
  <2> QED
    BY <1>5, <2>3, <2>4, <2>5 DEF ByName
<1>6. CASE v.rule = "arg-not-allowed"
  <2>1. v.rule \notin DOMAIN RULE_TO_CAP
    BY <1>6, CapOfRule
  <2>2. ArgIn[p, v.word] = <<p, v.word>> /\ p \in Programs /\ v.word \in Words
    BY <1>1, <1>6 DEF ReadsAlike, Reason
  <2> DEFINE m == ArgIn[p, v.word]
  <2>3. m[1] = p /\ m[2] = v.word
    <3>1. m = <<p, v.word>>
      BY <2>2
    <3> HIDE DEF m, p
    <3> QED
      BY <3>1
  <2>4. g = AddWord(form, m[1], "allowedArgs", m[2])
    <3> HIDE DEF m, p
    <3> QED
      BY <1>6 DEF suggestAllowCommand, m, p
  <2>5. g = AddWord(form, p, "allowedArgs", v.word)
    <3> HIDE DEF m, g
    <3> QED
      BY <2>3, <2>4
  <2>6. g \in StudioForm /\ v.word \in Allowed(g, p, "allowedArgs")
    BY <2>2, <2>5, AddsWord
  <2> HIDE DEF g
  <2> QED
    BY <1>2, <1>6, <2>6 DEF Reason, v, u, g
<1>7. CASE v.rule = "sql-not-allowed"
  <2>1. v.rule \notin DOMAIN RULE_TO_CAP
    BY <1>7, CapOfRule
  <2>2. /\ extractCommandName(line) = p /\ SqlIn[v.word] = v.word
        /\ p \in Programs /\ v.word \in Words
    BY <1>1, <1>7 DEF ReadsAlike, Reason
  <2>3. g = AddWord(form, p, "allowedSql", v.word)
    BY <1>7, <2>1, <2>2 DEF suggestAllowCommand
  <2>4. g \in StudioForm /\ v.word \in Allowed(g, p, "allowedSql")
    BY <2>2, <2>3, AddsWord
  <2> HIDE DEF g
  <2> QED
    BY <1>2, <1>7, <2>4 DEF Reason, v, u, g
<1> QED
  BY <1>1, <1>4, <1>5, <1>6, <1>7 DEF HasAllowFix, v, u

\* The fix for a destination gets it past the policy that refused it.
LEMMA HostFix ==
  ASSUME NEW form \in StudioForm, NEW h \in Targets, HostVerdict(form, h) # Ok,
         ListsAlike(form, h, HostVerdict(form, h))
  PROVE  HostVerdict(suggestAllowHost(form, h, HostVerdict(form, h)), h) # HostVerdict(form, h)
<1> DEFINE v == HostVerdict(form, h)
           g == suggestAllowHost(form, h, v)
           e == form.egress
           hits(f) == Matched[h] \cap (IF h \in Addresses THEN f.egress.cidrs ELSE f.egress.hosts)
<1>1. e \in EgressPolicy /\ h \in Matched[h]
  BY RulesAssumption DEF StudioForm
<1>2. Ok.rule = "allowed" /\ \A rule, p, w : No(rule, p, w).rule = rule /\ No(rule, p, w).program = p
  BY Verdicts
<1>3. "unrestricted" \notin form.caps
  BY DEF HostVerdict
<1>4. CASE e.mode = "closed"
  <2>1. v = No("closed", None, None)
    BY <1>3, <1>4 DEF HostVerdict
  <2>2. v.rule = "closed"
    BY <2>1, <1>2
  <2> HIDE DEF v
  <2>3. g = [form EXCEPT !.egress.mode = "whitelist", !.egress.hosts = @ \cup {h}]
    BY <2>2 DEF suggestAllowHost
  <2>4. g.caps = form.caps /\ g.egress.mode = "whitelist"
    BY <1>1, <2>3 DEF StudioForm, EgressPolicy
  <2> HIDE DEF g
  <2>5. HostVerdict(g, h) = Ok \/ HostVerdict(g, h) = No("not-in-whitelist", None, None)
    BY <1>3, <2>4 DEF HostVerdict
  <2> QED
    BY <1>2, <2>2, <2>5 DEF v, g
<1>5. CASE e.mode = "whitelist"
  <2>1. v = No("not-in-whitelist", None, None)
    BY <1>3, <1>5 DEF HostVerdict
  <2>2. v.rule = "not-in-whitelist"
    BY <2>1, <1>2
  <2>3. h \in Ipv4 <=> h \in Addresses
    BY <2>2 DEF ListsAlike
  <2> HIDE DEF v
  <2>4. g = IF h \in Addresses THEN [form EXCEPT !.egress.cidrs = @ \cup {h}]
            ELSE [form EXCEPT !.egress.hosts = @ \cup {h}]
    BY <2>2, <2>3 DEF suggestAllowHost
  <2>5. /\ g.caps = form.caps /\ g.egress.mode = "whitelist"
        /\ h \in Addresses => h \in g.egress.cidrs
        /\ h \notin Addresses => h \in g.egress.hosts
    BY <1>1, <1>5, <2>4 DEF StudioForm, EgressPolicy
  <2> HIDE DEF g
  <2>6. HostVerdict(g, h) = Ok
    BY <1>1, <1>3, <2>5 DEF HostVerdict
  <2> QED
    BY <1>2, <2>2, <2>6 DEF v, g
<1>6. CASE e.mode = "blacklist"
  <2> DEFINE c == Reported[CHOOSE x \in hits(form) : TRUE]
  <2>1. v = No("blacklist:", c, None)
    BY <1>3, <1>6 DEF HostVerdict
  <2> HIDE DEF c
  <2>2. v.rule = "blacklist:" /\ v.program = c
    BY <2>1, <1>2
  <2>3. \A x \in e.hosts \cup e.cidrs : Reported[x] = c => x = c
    BY <2>2 DEF ListsAlike
  <2> HIDE DEF v
  <2>4. g = [form EXCEPT !.egress.hosts = @ \ {c}, !.egress.cidrs = @ \ {c}]
    BY <2>2 DEF suggestAllowHost
  <2>5. /\ g.caps = form.caps /\ g.egress.mode = "blacklist"
        /\ g.egress.cidrs = e.cidrs \ {c} /\ g.egress.hosts = e.hosts \ {c}
    <3> DEFINE f == [form EXCEPT !.egress.hosts = @ \ {c}]
    <3>1. /\ f \in StudioForm /\ f.caps = form.caps /\ f.egress.mode = "blacklist"
          /\ f.egress.hosts = e.hosts \ {c} /\ f.egress.cidrs = e.cidrs
      BY <1>1, <1>6 DEF StudioForm, EgressPolicy
    <3>2. g = [f EXCEPT !.egress.cidrs = @ \ {c}]
      BY <2>4 DEF StudioForm, EgressPolicy
    <3> HIDE DEF f
    <3> QED
      BY <3>1, <3>2 DEF StudioForm, EgressPolicy
  <2>6. \A x \in hits(g) : Reported[x] # c
    BY <2>3, <2>5
  <2> DEFINE d == CHOOSE x \in hits(g) : TRUE
  <2>7. HostVerdict(g, h) = Ok \/ (hits(g) # {} /\ HostVerdict(g, h) = No("blacklist:", Reported[d], None))
    BY <1>3, <2>5 DEF HostVerdict
  <2>8. hits(g) # {} => d \in hits(g)
    OBVIOUS
  <2> HIDE DEF g, hits, d
  <2>9. HostVerdict(g, h) = Ok \/ HostVerdict(g, h).program # c
    BY <1>2, <2>6, <2>7, <2>8
  <2> QED
    BY <1>2, <2>2, <2>9 DEF v, g
<1> QED
  BY <1>1, <1>3, <1>4, <1>5, <1>6 DEF EgressPolicy, Modes, HostVerdict

-----------------------------------------------------------------------------
(* The editor keeps a form. *)

\* A word that a verdict names, and its fix takes over, is one.
VerdictOK(v) ==
  v.rule \in {"arg-not-allowed", "sql-not-allowed"} => v.program \in Programs /\ v.word \in Words

LEMMA LineVerdictOK ==
  ASSUME NEW form \in StudioForm, NEW line \in CommandLine
  PROVE  VerdictOK(CommandVerdict(form, line))
BY LineReason DEF Reason, VerdictOK

LEMMA AllowKeepsForm ==
  ASSUME NEW form \in StudioForm, NEW line \in CommandLine, NEW v, VerdictOK(v), HasAllowFix(line, v)
  PROVE  suggestAllowCommand(form, line, v) \in StudioForm
<1> DEFINE p == extractCommandName(line)
           g == suggestAllowCommand(form, line, v)
<1>1. p \in Programs \cup {None}
  BY NameFound
<1> HIDE DEF p
<1>2. CASE v.rule \in DOMAIN RULE_TO_CAP
  <2>1. g = [form EXCEPT !.caps = @ \cup {RULE_TO_CAP[v.rule]}]
    BY <1>2, CapOfRule DEF suggestAllowCommand
  <2> QED
    BY <1>2, <2>1, CapOfRule DEF StudioForm
<1>3. CASE v.rule \notin DOMAIN RULE_TO_CAP /\ v.rule \in ByName
  <2>1. p \in Programs
    BY <1>1, <1>3 DEF HasAllowFix, ByName, p
  <2> DEFINE f == [form EXCEPT !.mode = "whitelist"]
  <2>2. g \in {addCommandRule(f, p), removeCommand(form, p), addCommandRule(form, p)}
    BY <1>3 DEF suggestAllowCommand, ByName, p
  <2>3. f \in StudioForm
    BY DEF StudioForm, Modes
  <2> HIDE DEF f
  <2> QED
    BY <2>1, <2>2, <2>3, AddsRule, RemovesRules
<1>4. CASE v.rule \notin DOMAIN RULE_TO_CAP /\ v.rule = "arg-not-allowed"
  <2> DEFINE m == ArgIn[v.program, v.word]
  <2>1. m # None
    BY <1>4 DEF HasAllowFix, ByName
  <2>2. v.program \in Programs /\ v.word \in Words
    BY <1>4 DEF VerdictOK
  <2>3. m[1] \in Programs /\ m[2] \in Words
    BY <2>1, <2>2, MessageRead
  <2>4. g = AddWord(form, m[1], "allowedArgs", m[2])
    BY <1>4 DEF suggestAllowCommand
  <2> HIDE DEF m
  <2> QED
    BY <2>3, <2>4, AddsWord
<1>5. CASE v.rule \notin DOMAIN RULE_TO_CAP /\ v.rule = "sql-not-allowed"
  <2> DEFINE w == SqlIn[v.word]
  <2>1. w # None /\ p \in Programs
    BY <1>1, <1>5 DEF HasAllowFix, ByName, p
  <2>2. v.program \in Programs /\ v.word \in Words
    BY <1>5 DEF VerdictOK
  <2>3. w \in Words
    BY <2>1, <2>2, MessageRead
  <2>4. g = AddWord(form, p, "allowedSql", w)
    BY <1>5 DEF suggestAllowCommand, p
  <2> HIDE DEF w
  <2> QED
    BY <2>1, <2>3, <2>4, AddsWord
<1> QED
  BY <1>2, <1>3, <1>4, <1>5 DEF HasAllowFix

LEMMA BlockKeepsForm ==
  ASSUME NEW form \in StudioForm, NEW line \in CommandLine, extractCommandName(line) # None
  PROVE  suggestBlockCommand(form, line) \in StudioForm
<1> DEFINE p == extractCommandName(line)
           g == suggestBlockCommand(form, line)
<1>1. p \in Programs
  BY NameFound
<1>2. CASE form.mode \in {"open", "whitelist"}
  <2> DEFINE list == <<Plain(p)>>
             f == [form EXCEPT !.mode = "blacklist"]
  <2>1. list \in Seq(CommandRule)
    BY <1>1, PlainRule
  <2>2. f \in StudioForm
    BY DEF StudioForm, Modes
  <2>3. g = [f EXCEPT !.commands = list]
    BY <1>2 DEF suggestBlockCommand
  <2> HIDE DEF list, f
  <2> QED
    BY <2>1, <2>2, <2>3 DEF StudioForm
<1>3. CASE form.mode = "blacklist"
  <2>1. g = addCommandRule(form, p)
    BY <1>3 DEF suggestBlockCommand
  <2> QED
    BY <1>1, <2>1, AddsRule
<1>4. CASE form.mode \notin {"open", "whitelist", "blacklist"}
  <2>1. g = form
    BY <1>4 DEF suggestBlockCommand
  <2> QED
    BY <2>1
<1> QED
  BY <1>2, <1>3, <1>4

LEMMA PolicyKeepsForm ==
  ASSUME NEW form \in StudioForm, NEW e \in EgressPolicy
  PROVE  [form EXCEPT !.egress = e] \in StudioForm
BY DEF StudioForm

LEMMA HostKeepsForm ==
  ASSUME NEW form \in StudioForm, NEW h \in Targets
  PROVE  /\ suggestBlockHost(form, h) \in StudioForm
         /\ suggestAllowHost(form, h, HostVerdict(form, h)) \in StudioForm
<1> DEFINE e == form.egress
<1>1. /\ e \in EgressPolicy /\ e.hosts \subseteq Entries /\ e.cidrs \subseteq Entries
      /\ h \in Entries
  BY RulesAssumption DEF StudioForm, EgressPolicy
<1>2. suggestBlockHost(form, h) \in StudioForm
  <2> DEFINE field == IF h \in Ipv4 THEN "cidrs" ELSE "hosts"
             e1 == [e EXCEPT !.mode = "blacklist"]
             e2 == [e1 EXCEPT ![field] = {h}]
             e3 == [e EXCEPT ![field] = @ \cup {h}]
  <2>1. e1 \in EgressPolicy /\ e3 \in EgressPolicy
    BY <1>1 DEF EgressPolicy, Modes
  <2>2. e2 \in EgressPolicy
    <3> HIDE DEF e1
    <3> QED
      BY <1>1, <2>1 DEF EgressPolicy
  <2>3. suggestBlockHost(form, h) \in {form, [form EXCEPT !.egress = e2], [form EXCEPT !.egress = e3]}
    BY <1>1 DEF suggestBlockHost, StudioForm, EgressPolicy
  <2> HIDE DEF e2, e3
  <2> QED
    BY <2>1, <2>2, <2>3, PolicyKeepsForm
<1>3. suggestAllowHost(form, h, HostVerdict(form, h)) \in StudioForm
  <2> DEFINE v == HostVerdict(form, h)
             e1 == [e EXCEPT !.mode = "whitelist"]
             e2 == [e1 EXCEPT !.hosts = @ \cup {h}]
             e3 == [e EXCEPT !.cidrs = @ \cup {h}]
             e4 == [e EXCEPT !.hosts = @ \cup {h}]
             e5 == [e EXCEPT !.hosts = @ \ {v.program}]
             e6 == [e5 EXCEPT !.cidrs = @ \ {v.program}]
  <2>1. e1 \in EgressPolicy /\ e4 \in EgressPolicy
    BY <1>1 DEF EgressPolicy, Modes
  <2>2. e3 \in EgressPolicy
    BY <1>1 DEF EgressPolicy
  <2> HIDE DEF v
  <2>3. e5 \in EgressPolicy
    BY <1>1 DEF EgressPolicy
  <2>4. e2 \in EgressPolicy /\ e6 \in EgressPolicy
    <3> HIDE DEF e1, e5
    <3> QED
      BY <1>1, <2>1, <2>3 DEF EgressPolicy
  <2>5. \/ suggestAllowHost(form, h, v) = form
        \/ suggestAllowHost(form, h, v) = [form EXCEPT !.egress = e2]
        \/ suggestAllowHost(form, h, v) = [form EXCEPT !.egress = e3]
        \/ suggestAllowHost(form, h, v) = [form EXCEPT !.egress = e4]
        \/ suggestAllowHost(form, h, v) = [form EXCEPT !.egress = e6]
    BY <1>1 DEF suggestAllowHost, StudioForm, EgressPolicy
  <2> HIDE DEF e1, e2, e3, e4, e5, e6
  <2> QED
    BY <2>1, <2>2, <2>4, <2>5, PolicyKeepsForm DEF v
<1> QED
  BY <1>2, <1>3

LEMMA AddRuleKeeps ==
  ASSUME NEW commands \in Seq(CommandRule), NEW rule \in CommandRule
  PROVE  AddRule(commands, rule) \in Seq(CommandRule)
<1> DEFINE i == IndexOf(commands, rule.command)
           m == mergeCommandRule(commands[i], rule)
<1>1. i = 0 \/ (i # 0 /\ i \in DOMAIN commands)
  BY IndexFinds
<1>2. CASE i = 0
  BY <1>2 DEF AddRule
<1>3. CASE i # 0
  <2>1. i \in DOMAIN commands /\ commands[i] \in CommandRule
    BY <1>1, <1>3
  <2>2. AddRule(commands, rule) = [commands EXCEPT ![i] = m]
    BY <1>3 DEF AddRule
  <2> DEFINE a == commands[i]
             a1 == [a EXCEPT !.allowedArgs = @ \cup rule.allowedArgs]
             a2 == [a1 EXCEPT !.allowedSql = @ \cup rule.allowedSql]
             a3 == [a2 EXCEPT !.blockedArgs = @ \cup rule.blockedArgs]
  <2>3. m = [a3 EXCEPT !.blockedSql = @ \cup rule.blockedSql]
    BY <2>1 DEF mergeCommandRule, CommandRule
  <2>4. a1 \in CommandRule
    BY <2>1 DEF CommandRule
  <2> HIDE DEF a1
  <2>5. a2 \in CommandRule
    BY <2>4 DEF CommandRule
  <2> HIDE DEF a2
  <2>6. a3 \in CommandRule
    BY <2>5 DEF CommandRule
  <2> HIDE DEF a3, m
  <2>7. m \in CommandRule
    BY <2>3, <2>6 DEF CommandRule
  <2> HIDE DEF i
  <2> QED
    BY <2>1, <2>2, <2>7
<1> QED
  BY <1>2, <1>3

LEMMA TypedKeeps ==
  ASSUME NEW p \in Programs, NEW w \in Words \cup {None}
  PROVE  TypedRule(p, w) \in CommandRule
BY PlainRule DEF TypedRule

LEMMA RereadKeeps ==
  ASSUME NEW rule \in CommandRule
  PROVE  Reread(rule) \in CommandRule
<1> DEFINE blocks == rule.blockedArgs \cup rule.blockedSql
           asql == IF rule.allowedArgs = {} THEN rule.allowedSql ELSE {}
           bsql == IF rule.command \in SqlClients THEN blocks ELSE {}
           bargs == IF rule.command \in SqlClients THEN {} ELSE blocks
           r1 == [rule EXCEPT !.allowedSql = asql]
           r2 == [r1 EXCEPT !.blockedSql = bsql]
<1>1. asql \subseteq Words /\ bsql \subseteq Words /\ bargs \subseteq Words
  BY DEF CommandRule
<1>2. Reread(rule) = [r2 EXCEPT !.blockedArgs = bargs]
  BY DEF Reread, CommandRule
<1> HIDE DEF asql, bsql, bargs
<1>3. r1 \in CommandRule
  BY <1>1 DEF CommandRule
<1> HIDE DEF r1
<1>4. r2 \in CommandRule
  BY <1>1, <1>3 DEF CommandRule
<1> HIDE DEF r2
<1> QED
  BY <1>1, <1>2, <1>4 DEF CommandRule

LEMMA CommandsKeepForm ==
  ASSUME NEW form \in StudioForm, NEW commands \in Seq(CommandRule)
  PROVE  [form EXCEPT !.commands = commands] \in StudioForm
BY DEF StudioForm

LEMMA EmptyForm == EMPTY_FORM \in StudioForm
<1> DEFINE blank == ""
           e == [mode |-> "open", hosts |-> {}, cidrs |-> {}]
<1>1. blank \in FormNames
  BY StudioAssumption
<1>2. e \in EgressPolicy
  BY DEF EgressPolicy, Modes
<1>3. EMPTY_FORM = [name |-> blank, caps |-> {}, mode |-> "whitelist", commands |-> <<>>, egress |-> e]
  BY DEF EMPTY_FORM
<1> HIDE DEF blank, e
<1> QED
  BY <1>1, <1>2, <1>3 DEF StudioForm, Modes

LEMMA PresetForms == presets \subseteq StudioForm
<1> DEFINE f == EMPTY_FORM
           Set(caps, mode, e) == [[[f EXCEPT !.caps = caps] EXCEPT !.mode = mode] EXCEPT !.egress.mode = e]
<1>1. f \in StudioForm
  BY EmptyForm
<1>2. ASSUME NEW caps \in SUBSET Caps, NEW mode \in Modes, NEW e \in Modes PROVE Set(caps, mode, e) \in StudioForm
  <2> DEFINE f1 == [f EXCEPT !.caps = caps]
             f2 == [f1 EXCEPT !.mode = mode]
             e1 == [f2.egress EXCEPT !.mode = e]
  <2> HIDE DEF f
  <2>1. f1 \in StudioForm
    BY <1>1 DEF StudioForm
  <2> HIDE DEF f1
  <2>2. f2 \in StudioForm
    BY <2>1 DEF StudioForm
  <2>3. Set(caps, mode, e) = [f2 EXCEPT !.egress = e1]
    BY <2>2 DEF StudioForm, f1
  <2> HIDE DEF f2
  <2>4. e1 \in EgressPolicy
    BY <2>2 DEF StudioForm, EgressPolicy
  <2> HIDE DEF e1, Set
  <2> QED
    BY <2>2, <2>3, <2>4, PolicyKeepsForm
<1>3. /\ [f EXCEPT !.caps = {"pipes"}, !.egress.mode = "closed"] = Set({"pipes"}, "whitelist", "closed")
      /\ [f EXCEPT !.caps = {"pipes", "redirects", "download"}, !.egress.mode = "whitelist"]
           = Set({"pipes", "redirects", "download"}, "whitelist", "whitelist")
      /\ [f EXCEPT !.caps = {"unrestricted"}, !.mode = "open"] = Set({"unrestricted"}, "open", "open")
      /\ [f EXCEPT !.caps = {"pipes", "redirects", "cmdSubst", "download", "writeFs", "install"}, !.mode = "blacklist",
                   !.egress.mode = "blacklist"]
           = Set({"pipes", "redirects", "cmdSubst", "download", "writeFs", "install"}, "blacklist", "blacklist")
  <2>1. f.mode = "whitelist" /\ f.egress.mode = "open"
    BY DEF EMPTY_FORM
  <2> HIDE DEF f
  <2> QED
    BY <1>1, <2>1 DEF StudioForm, EgressPolicy
<1>4. /\ {"pipes"} \subseteq Caps /\ {"pipes", "redirects", "download"} \subseteq Caps
      /\ {"unrestricted"} \subseteq Caps
      /\ {"pipes", "redirects", "cmdSubst", "download", "writeFs", "install"} \subseteq Caps
      /\ {"open", "whitelist", "blacklist", "closed"} \subseteq Modes
  BY DEF Caps, Modes
<1> HIDE DEF Set
<1> QED
  BY <1>2, <1>3, <1>4 DEF presets

-----------------------------------------------------------------------------
(* What the page holds. *)

Lists == [Profiles -> StudioForm \cup {None}]

IsSave(c) == c.op \in {"create", "update"}

CallOK(c) ==
  /\ c = [op |-> c.op, id |-> c.id, form |-> c.form, list |-> c.list, st |-> c.st, key |-> c.key,
          from |-> c.from]
  /\ c.op = "list" => c.list \in Lists
  /\ c.op \in {"update", "delete"} => c.id \in Profiles
  /\ c.op = "create" /\ c.st = "ok" => c.id \in Profiles
  /\ IsSave(c) => c.form \in StudioForm

ResultOK(r) == r.line \in Lines /\ VerdictOK(r.verdict)

PageOK ==
  /\ stored \in Lists /\ profiles \in Lists
  /\ StudioType
  /\ route \in {"list", "new"} \cup Profiles
  /\ route = "list" => studio = None
  /\ result = None \/ ResultOK(result)
  /\ deleteTarget = None \/ deleteTarget \in Profiles
  /\ \A c \in calls : CallOK(c)

LEMMA MountedIsStudio ==
  ASSUME NEW key \in Profiles \cup {"new", "clone"}, NEW form \in StudioForm, NEW id \in Profiles \cup {None}
  PROVE  /\ Mounted(key, form, id) \in Studio /\ Mounted(key, form, id) # None
         /\ Mounted(key, form, id).baseline = form /\ Mounted(key, form, id).savedId = id
         /\ Mounted(key, form, id).key = key /\ ~Mounted(key, form, id).saving
<1> DEFINE show == id = None /\ form.commands = <<>>
           no == FALSE
           s == [key |-> key, form |-> form, baseline |-> form, savedId |-> id, saving |-> no, showPresets |-> show]
<1>1. show \in BOOLEAN /\ no \in BOOLEAN
  OBVIOUS
<1>2. Mounted(key, form, id) = s
  BY DEF Mounted
<1> HIDE DEF show, no
<1>3. s \in Studio /\ s.baseline = form /\ s.savedId = id /\ s.key = key /\ s.saving = no
  BY <1>1 DEF Studio
<1>4. s # None
  BY <1>3, StudioAssumption
<1> QED
  BY <1>2, <1>3, <1>4 DEF no

\* A fresh Studio is the empty one or shows a profile of the list.
LEMMA FreshStudio ==
  ASSUME route' \in {"list", "new"} \cup Profiles, profiles' \in Lists
  PROVE  /\ useStudioState = None \/ useStudioState \in Studio
         /\ route' = "list" => useStudioState = None
         /\ useStudioState # None =>
              /\ ~useStudioState.saving
              /\ \/ useStudioState.savedId = None
                 \/ /\ useStudioState.savedId \in Profiles
                    /\ profiles'[useStudioState.savedId] # None
                    /\ useStudioState.baseline = profiles'[useStudioState.savedId]
<1> DEFINE u == useStudioState
<1>1. Profiles \cap {"new", "list", "clone"} = {}
  BY StudioAssumption
<1>2. CASE route' = "list"
  <2>1. u = None
    BY <1>1, <1>2 DEF useStudioState
  <2> QED
    BY <2>1
<1>3. CASE route' = "new"
  <2>1. u = Mounted("new", EMPTY_FORM, None)
    BY <1>1, <1>3 DEF useStudioState
  <2>2. "new" \in Profiles \cup {"new", "clone"} /\ None \in Profiles \cup {None}
    OBVIOUS
  <2> DEFINE m == Mounted("new", EMPTY_FORM, None)
  <2>3. m \in Studio /\ m.savedId = None /\ ~m.saving
    BY <2>2, EmptyForm, MountedIsStudio
  <2> HIDE DEF m, u
  <2> QED
    BY <1>3, <2>1, <2>3 DEF u, m
<1>4. CASE route' \in Profiles /\ ~loading' /\ profiles'[route'] # None
  <2>1. u = Mounted(route', profiles'[route'], route')
    BY <1>1, <1>4 DEF useStudioState
  <2>2. profiles'[route'] \in StudioForm
    BY <1>4 DEF Lists
  <2> DEFINE m == Mounted(route', profiles'[route'], route')
  <2>3. m \in Studio /\ m.baseline = profiles'[route'] /\ m.savedId = route' /\ ~m.saving
    BY <1>4, <2>2, MountedIsStudio
  <2> HIDE DEF u, m
  <2> QED
    BY <1>1, <1>4, <2>1, <2>3 DEF u, m
<1>5. CASE route' \in Profiles /\ ~(~loading' /\ profiles'[route'] # None)
  <2>1. u = None
    BY <1>1, <1>5 DEF useStudioState
  <2> QED
    BY <1>1, <1>5, <2>1
<1> QED
  BY <1>2, <1>3, <1>4, <1>5

LEMMA FreshKey ==
  ASSUME route' \in {"list", "new"} \cup Profiles, profiles' \in Lists
  PROVE  useStudioState # None /\ useStudioState.key \in Profiles => useStudioState.savedId = useStudioState.key
<1> DEFINE u == useStudioState
<1>1. Profiles \cap {"new", "list", "clone"} = {}
  BY StudioAssumption
<1>2. \/ u = None \/ u = Mounted("new", EMPTY_FORM, None) \/ u = Mounted(route', profiles'[route'], route')
  BY <1>1 DEF useStudioState
<1>3. Mounted("new", EMPTY_FORM, None).key = "new"
  BY DEF Mounted
<1>4. Mounted(route', profiles'[route'], route').key = Mounted(route', profiles'[route'], route').savedId
  BY DEF Mounted
<1> HIDE DEF u
<1> QED
  BY <1>1, <1>2, <1>3, <1>4 DEF u

LEMMA Forgotten ==
  ASSUME NEW c, CallOK(c), NEW d, d = [c EXCEPT !.key = None]
  PROVE  CallOK(d) /\ d.op = c.op
<1>1. /\ d = [op |-> d.op, id |-> d.id, form |-> d.form, list |-> d.list, st |-> d.st, key |-> d.key, from |-> d.from]
      /\ d.op = c.op /\ d.id = c.id /\ d.form = c.form /\ d.list = c.list /\ d.st = c.st
  BY DEF CallOK
<1> QED
  BY <1>1 DEF CallOK, IsSave

LEMMA RenderKeeps ==
  ASSUME PageOK, stored' \in Lists, profiles' \in Lists, route' \in {"list", "new"} \cup Profiles,
         deleteTarget' = None \/ deleteTarget' \in Profiles,
         NEW now, now = None \/ now \in Studio, route' = route => (route = "list" => now = None),
         NEW cs, \A c \in cs : CallOK(c),
         NEW outdated, Render(now, cs, outdated)
  PROVE  PageOK'
<1> DEFINE u == useStudioState
           same == \/ <<route', profiles', loading'>> = <<route, profiles, loading>>
                   \/ (u # None /\ now # None /\ u.key = now.key /\ u.key # "clone")
           none == {[c EXCEPT !.key = None] : c \in cs}
<1>1. /\ studio' = IF same THEN now ELSE u
      /\ calls' = IF same THEN cs ELSE none
      /\ result' = IF same THEN result ELSE None
  BY DEF Render
<1>2. (u = None \/ u \in Studio) /\ (route' = "list" => u = None)
  BY FreshStudio
<1>3. same /\ route' = "list" => now = None
  BY <1>2
<1> HIDE DEF u, same
<1>4. studio' = None \/ studio' \in Studio
  BY <1>1, <1>2
<1>5. route' = "list" => studio' = None
  BY <1>1, <1>2, <1>3
<1>6. \A c \in none : CallOK(c)
  BY Forgotten
<1> HIDE DEF none
<1> QED
  BY <1>1, <1>4, <1>5, <1>6 DEF PageOK, StudioType

-----------------------------------------------------------------------------
(* What the page knows of the server. *)

\* A save that will be answered to a Studio is the one save the mounted Studio waits for.
Linked(s, cs) ==
  /\ \A c \in cs : IsSave(c) /\ c.key # None =>
       /\ s # None /\ s.saving
       /\ c.op = "update" => c.id = s.savedId
       /\ c.op = "create" => s.savedId = None
  /\ \A c, d \in cs : IsSave(c) /\ IsSave(d) /\ c.key # None /\ d.key # None => c = d
  /\ s # None /\ s.key \in Profiles => s.savedId = s.key

\* The server has stored a form for p that the page has no answer about yet.
Served(p, cs) == \E c \in cs : IsSave(c) /\ c.st = "ok" /\ c.id = p

\* A form of the list and a baseline are what the server has, or was deleted, or has just
\* been replaced by the save that is about to be answered.
Known(sto, prof, s, cs) ==
  /\ \A c \in cs : IsSave(c) => c.key # None
  /\ \A c \in cs : IsSave(c) /\ c.st = "ok" => sto[c.id] \in {c.form, None}
  /\ \A p \in Profiles : prof[p] # None => sto[p] \in {prof[p], None} \/ Served(p, cs)
  /\ s # None /\ s.savedId # None =>
       sto[s.savedId] \in {s.baseline, None} \/ Served(s.savedId, cs)

SavedInv ==
  /\ Linked(studio, calls)
  /\ ~unsure => Known(stored, profiles, studio, calls)

-----------------------------------------------------------------------------
(* Every edit leaves a form. *)

LEMMA RenameEdits ==
  ASSUME PageOK, Rename
  PROVE  \E f \in StudioForm : SetForm(f)
<1>1. studio \in Studio /\ studio.form \in StudioForm
  BY DEF PageOK, StudioType, Rename, Studio
<1>2. PICK n \in FormNames : SetForm([studio.form EXCEPT !.name = n])
  BY DEF Rename
<1>3. [studio.form EXCEPT !.name = n] \in StudioForm
  BY <1>1 DEF StudioForm
<1> QED
  BY <1>2, <1>3

LEMMA SetModeEdits ==
  ASSUME PageOK, SetMode
  PROVE  \E f \in StudioForm : SetForm(f)
<1>1. studio \in Studio /\ studio.form \in StudioForm
  BY DEF PageOK, StudioType, SetMode, Studio
<1>2. ASSUME NEW m \in Modes, SetForm([studio.form EXCEPT !.mode = m]) PROVE \E f \in StudioForm : SetForm(f)
  <2>1. [studio.form EXCEPT !.mode = m] \in StudioForm
    BY <1>1 DEF StudioForm
  <2> QED
    BY <1>2, <2>1
<1>3. ASSUME NEW m \in Modes, SetForm([studio.form EXCEPT !.egress.mode = m])
      PROVE  \E f \in StudioForm : SetForm(f)
  <2>1. [studio.form EXCEPT !.egress.mode = m] \in StudioForm
    BY <1>1 DEF StudioForm, EgressPolicy
  <2> QED
    BY <1>3, <2>1
<1> QED
  BY <1>2, <1>3 DEF SetMode

LEMMA SetCapabilityEdits ==
  ASSUME PageOK, SetCapability
  PROVE  \E f \in StudioForm : SetForm(f)
<1>1. studio \in Studio /\ studio.form \in StudioForm
  BY DEF PageOK, StudioType, SetCapability, Studio
<1>2. PICK c \in {"sudo", "unrestricted"} :
        SetForm([studio.form EXCEPT !.caps = IF c \in @ THEN @ \ {c} ELSE @ \cup {c}])
  BY DEF SetCapability
<1>3. [studio.form EXCEPT !.caps = IF c \in @ THEN @ \ {c} ELSE @ \cup {c}] \in StudioForm
  BY <1>1 DEF StudioForm, Caps
<1> QED
  BY <1>2, <1>3

LEMMA EditCommandsEdits ==
  ASSUME PageOK, EditCommands
  PROVE  \E f \in StudioForm : SetForm(f)
<1> DEFINE form == studio.form
           old == form.commands
<1>1. form \in StudioForm /\ old \in Seq(CommandRule)
  BY DEF PageOK, StudioType, EditCommands, Studio, StudioForm
<1>2. ASSUME NEW new \in Seq(CommandRule), NEW g, g = [form EXCEPT !.commands = new], SetForm(g)
      PROVE  \E f \in StudioForm : SetForm(f)
  BY <1>1, <1>2, CommandsKeepForm
<1>3. ASSUME NEW q \in Programs, NEW w \in Words \cup {None},
             SetForm([form EXCEPT !.commands = AddRule(@, TypedRule(q, w))])
      PROVE  \E f \in StudioForm : SetForm(f)
  <2> DEFINE new == AddRule(old, TypedRule(q, w))
  <2>1. new \in Seq(CommandRule)
    BY <1>1, TypedKeeps, AddRuleKeeps
  <2>2. [form EXCEPT !.commands = AddRule(@, TypedRule(q, w))] = [form EXCEPT !.commands = new]
    BY <1>1 DEF StudioForm
  <2> HIDE DEF new, form
  <2> QED
    BY <1>2, <1>3, <2>1, <2>2
<1>4. ASSUME NEW i \in DOMAIN old, SetForm([form EXCEPT !.commands = Kept(@, DOMAIN @ \ {i})])
      PROVE  \E f \in StudioForm : SetForm(f)
  <2> DEFINE set == DOMAIN old \ {i}
             new == Kept(old, set)
  <2>1. set \in SUBSET (DOMAIN old)
    OBVIOUS
  <2>2. new \in Seq(CommandRule)
    <3> HIDE DEF set, old
    <3> QED
      BY <1>1, <2>1, KeptIsList
  <2>3. [form EXCEPT !.commands = Kept(@, DOMAIN @ \ {i})] = [form EXCEPT !.commands = new]
    BY <1>1 DEF StudioForm
  <2> HIDE DEF new, form
  <2> QED
    BY <1>2, <1>4, <2>2, <2>3
<1>5. ASSUME NEW i \in DOMAIN old, SetForm([form EXCEPT !.commands[i] = Reread(@)])
      PROVE  \E f \in StudioForm : SetForm(f)
  <2> DEFINE r == Reread(old[i])
             new == [old EXCEPT ![i] = r]
  <2>1. r \in CommandRule
    <3>1. old[i] \in CommandRule
      BY <1>1
    <3> QED
      BY <3>1, RereadKeeps
  <2>2. [form EXCEPT !.commands[i] = Reread(@)] = [form EXCEPT !.commands = new]
    BY <1>1 DEF StudioForm
  <2> HIDE DEF r
  <2>3. new \in Seq(CommandRule)
    BY <1>1, <2>1
  <2> HIDE DEF new, form
  <2> QED
    BY <1>2, <1>5, <2>2, <2>3
<1> QED
  BY <1>3, <1>4, <1>5 DEF EditCommands

LEMMA EditNetworkEdits ==
  ASSUME PageOK, EditNetwork
  PROVE  \E f \in StudioForm : SetForm(f)
<1> DEFINE form == studio.form
<1>1. form \in StudioForm /\ form.egress \in EgressPolicy
  BY DEF PageOK, StudioType, EditNetwork, Studio, StudioForm
<1>2. PICK h \in Entries, field \in {"hosts", "cidrs"} :
        SetForm([form EXCEPT !.egress[field] = IF h \in @ THEN @ \ {h} ELSE @ \cup {h}])
  BY DEF EditNetwork
<1> DEFINE list == form.egress[field]
           new == IF h \in list THEN list \ {h} ELSE list \cup {h}
           e == [form.egress EXCEPT ![field] = new]
<1>3. new \subseteq Entries
  BY <1>1 DEF EgressPolicy
<1>4. [form EXCEPT !.egress[field] = IF h \in @ THEN @ \ {h} ELSE @ \cup {h}] = [form EXCEPT !.egress = e]
  BY <1>1 DEF StudioForm
<1>5. e \in EgressPolicy
  <2> HIDE DEF new
  <2>1. CASE field = "cidrs"
    BY <1>1, <1>3, <2>1 DEF EgressPolicy
  <2>2. CASE field = "hosts"
    BY <1>1, <1>3, <2>2 DEF EgressPolicy
  <2> QED
    BY <2>1, <2>2
<1>6. [form EXCEPT !.egress = e] \in StudioForm
  <2> HIDE DEF e, form
  <2> QED
    BY <1>1, <1>5, PolicyKeepsForm
<1> QED
  BY <1>2, <1>4, <1>6

LEMMA onApplyEdits ==
  ASSUME PageOK, onApply
  PROVE  \E f \in StudioForm : SetForm(f)
<1>1. studio.form \in StudioForm /\ result.line \in Lines /\ VerdictOK(result.verdict)
  BY DEF PageOK, StudioType, onApply, Studio, ResultOK
<1>2. result.line \in CommandLine
  BY <1>1, StudioAssumption
<1>3. \/ /\ extractCommandName(result.line) # None
         /\ SetForm(suggestBlockCommand(studio.form, result.line))
      \/ /\ HasAllowFix(result.line, result.verdict)
         /\ SetForm(suggestAllowCommand(studio.form, result.line, result.verdict))
  BY DEF onApply
<1> QED
  BY <1>1, <1>2, <1>3, BlockKeepsForm, AllowKeepsForm

LEMMA ApplyRowEdits ==
  ASSUME PageOK, NEW line \in Lines, ApplyRow(line)
  PROVE  \E f \in StudioForm : SetForm(f)
<1>1. studio.form \in StudioForm /\ line \in CommandLine
  BY StudioAssumption DEF PageOK, StudioType, ApplyRow, Studio
<1>2. ASSUME extractCommandName(line) # None
      PROVE  suggestBlockCommand(studio.form, line) \in StudioForm
  BY <1>1, <1>2, BlockKeepsForm
<1>3. ASSUME NEW rule \in ByName \cup {"sudo"}, HasAllowFix(line, No(rule, None, None))
      PROVE  suggestAllowCommand(studio.form, line, No(rule, None, None)) \in StudioForm
  <2>1. VerdictOK(No(rule, None, None))
    BY DEF VerdictOK, No, ByName
  <2> QED
    BY <1>1, <1>3, <2>1, AllowKeepsForm
<1> QED
  BY <1>2, <1>3 DEF ApplyRow

LEMMA ApplyHostEdits ==
  ASSUME PageOK, NEW h \in Targets, ApplyHost(h)
  PROVE  \E f \in StudioForm : SetForm(f)
<1>1. studio.form \in StudioForm
  BY DEF PageOK, StudioType, ApplyHost, Studio
<1>2. /\ suggestBlockHost(studio.form, h) \in StudioForm
      /\ suggestAllowHost(studio.form, h, HostVerdict(studio.form, h)) \in StudioForm
  BY <1>1, HostKeepsForm
<1> QED
  BY <1>2 DEF ApplyHost

LEMMA PresetEdits ==
  ASSUME PageOK, applyPreset
  PROVE  \E f \in StudioForm : studio' = [studio EXCEPT !.showPresets = FALSE, !.form = f]
<1>1. studio.form \in StudioForm
  BY DEF PageOK, StudioType, applyPreset, Studio
<1> DEFINE name(built) == IF built.name # "" THEN built.name
                          ELSE IF studio.form.name # "" \/ built = studio.form THEN studio.form.name ELSE "a"
<1>2. PICK built \in presets \cup {studio.form} :
        studio' = [studio EXCEPT !.showPresets = FALSE,
                      !.form = [built EXCEPT !.name = IF @ # "" THEN @
                                  ELSE IF studio.form.name # "" \/ built = studio.form
                                  THEN studio.form.name ELSE "a"]]
  BY Zenon DEF applyPreset
<1> DEFINE n == name(built)
<1>3. built \in StudioForm
  BY <1>1, <1>2, PresetForms
<1>4. built.name \in FormNames /\ studio.form.name \in FormNames /\ "a" \in FormNames
  <2>1. ASSUME NEW f \in StudioForm PROVE f.name \in FormNames
    BY DEF StudioForm
  <2>2. "a" \in FormNames
    BY StudioAssumption, Zenon
  <2> QED
    BY <1>1, <1>3, <2>1, <2>2, Zenon
<1>5. n \in FormNames
  BY <1>4, Zenon
<1>6. studio' = [studio EXCEPT !.showPresets = FALSE, !.form = [built EXCEPT !.name = n]]
  BY <1>2, Zenon
<1> HIDE DEF n
<1>7. [built EXCEPT !.name = n] \in StudioForm
  BY <1>3, <1>5 DEF StudioForm
<1> QED
  BY <1>6, <1>7

-----------------------------------------------------------------------------
(* The steps that leave the requests alone. *)

LEMMA StudioParts ==
  ASSUME NEW s \in Studio
  PROVE  /\ s.key \in Profiles \cup {"new", "clone"} /\ s.form \in StudioForm /\ s.baseline \in StudioForm
         /\ s.savedId \in Profiles \cup {None} /\ s.saving \in BOOLEAN /\ s.showPresets \in BOOLEAN
         /\ s # None /\ s.key # None
BY StudioAssumption DEF Studio

\* Only the form and the presets of the Studio differ.
Edited(t, s) ==
  /\ t \in Studio
  /\ t.key = s.key /\ t.savedId = s.savedId /\ t.baseline = s.baseline /\ (t.saving <=> s.saving)

LEMMA FormEdited ==
  ASSUME NEW s \in Studio, NEW f \in StudioForm
  PROVE  /\ Edited([s EXCEPT !.form = f], s)
         /\ Edited([s EXCEPT !.showPresets = FALSE, !.form = f], s)
<1> DEFINE no == FALSE
           a == [s EXCEPT !.form = f]
           b == [s EXCEPT !.showPresets = no]
           c == [b EXCEPT !.form = f]
<1>1. no \in BOOLEAN
  OBVIOUS
<1>2. [s EXCEPT !.showPresets = FALSE, !.form = f] = c
  BY DEF Studio
<1> HIDE DEF no
<1>3. Edited(a, s)
  BY DEF Studio, Edited
<1>4. b \in Studio /\ b.key = s.key /\ b.savedId = s.savedId /\ b.baseline = s.baseline /\ (b.saving <=> s.saving)
  BY <1>1 DEF Studio
<1> HIDE DEF b
<1>5. Edited(c, s)
  BY <1>4 DEF Studio, Edited
<1> QED
  BY <1>2, <1>3, <1>5

LEMMA EditedKeeps ==
  ASSUME PageOK, SavedInv, studio # None, Edited(studio', studio),
         UNCHANGED <<stored, route, profiles, loading, deleteTarget, result, calls, unsure>>
  PROVE  PageOK' /\ SavedInv'
<1>1. studio \in Studio /\ studio' \in Studio /\ studio' # None
  BY StudioParts DEF PageOK, StudioType, Edited
<1>2. PageOK'
  BY <1>1 DEF PageOK, StudioType
<1>3. Linked(studio', calls)
  BY <1>1 DEF SavedInv, Linked, Edited
<1>4. ~unsure => Known(stored, profiles, studio', calls)
  BY <1>1 DEF SavedInv, Known, Edited
<1> QED
  BY <1>2, <1>3, <1>4 DEF SavedInv

LEMMA SetFormKeeps ==
  ASSUME PageOK, SavedInv, studio # None, NEW f \in StudioForm, SetForm(f)
  PROVE  PageOK' /\ SavedInv'
<1>1. Edited(studio', studio)
  BY FormEdited DEF PageOK, StudioType, SetForm
<1> QED
  BY <1>1, EditedKeeps DEF SetForm

LEMMA applyPresetKeeps ==
  ASSUME PageOK, SavedInv, applyPreset
  PROVE  PageOK' /\ SavedInv'
<1>1. PICK f \in StudioForm : studio' = [studio EXCEPT !.showPresets = FALSE, !.form = f]
  BY PresetEdits
<1>2. /\ studio # None /\ studio \in Studio
      /\ UNCHANGED <<stored, route, profiles, loading, deleteTarget, result, calls, unsure>>
  BY DEF PageOK, StudioType, applyPreset
<1>3. Edited(studio', studio)
  BY <1>1, <1>2, FormEdited
<1> QED
  BY <1>2, <1>3, EditedKeeps

LEMMA runTestKeeps ==
  ASSUME PageOK, SavedInv, NEW line \in Lines, runTest(line)
  PROVE  PageOK' /\ SavedInv'
<1> DEFINE v == CommandVerdict(studio.form, line)
<1>1. studio.form \in StudioForm
  BY DEF PageOK, StudioType, runTest, Studio
<1>2. VerdictOK(v)
  BY <1>1, StudioAssumption, LineVerdictOK
<1>3. /\ result' = [line |-> line, verdict |-> v]
      /\ UNCHANGED <<stored, route, profiles, loading, deleteTarget, studio, calls, unsure>>
  BY DEF runTest
<1> HIDE DEF v
<1>4. ResultOK(result')
  BY <1>2, <1>3 DEF ResultOK
<1>5. PageOK'
  BY <1>3, <1>4 DEF PageOK, StudioType
<1> QED
  BY <1>3, <1>5 DEF SavedInv

-----------------------------------------------------------------------------
(* Rendering: what is shown after it is what the page knows. *)

LEMMA RenderKnows ==
  ASSUME route' \in {"list", "new"} \cup Profiles, profiles' \in Lists,
         NEW now, now = None \/ now \in Studio,
         NEW cs, \A c \in cs : CallOK(c),
         NEW outdated, Render(now, cs, outdated),
         Linked(now, cs),
         ~unsure /\ ~outdated => Known(stored', profiles', now, cs)
  PROVE  SavedInv'
<1> DEFINE u == useStudioState
           same == \/ <<route', profiles', loading'>> = <<route, profiles, loading>>
                   \/ (u # None /\ now # None /\ u.key = now.key /\ u.key # "clone")
           none == {[c EXCEPT !.key = None] : c \in cs}
<1>1. /\ studio' = IF same THEN now ELSE u
      /\ calls' = IF same THEN cs ELSE none
      /\ unsure' = (unsure \/ outdated \/ (~same /\ now # None /\ now.saving))
  BY DEF Render
<1>2. /\ u = None \/ u \in Studio
      /\ u # None =>
              \/ u.savedId = None
              \/ /\ u.savedId \in Profiles
                 /\ profiles'[u.savedId] # None
                 /\ u.baseline = profiles'[u.savedId]
  BY FreshStudio
<1>3. u # None /\ u.key \in Profiles => u.savedId = u.key
  BY FreshKey
<1>4. \A c \in none : c.key = None /\ \E d \in cs : c.op = d.op
  <2>1. ASSUME NEW d \in cs PROVE [d EXCEPT !.key = None].key = None /\ [d EXCEPT !.key = None].op = d.op
    BY DEF CallOK
  <2> QED
    BY <2>1
<1> HIDE DEF u, same, none
<1>5. CASE same
  <2>1. studio' = now /\ calls' = cs /\ (~unsure' => ~unsure /\ ~outdated)
    BY <1>1, <1>5
  <2> QED
    BY <2>1 DEF SavedInv
<1>6. CASE ~same
  <2>1. studio' = u /\ calls' = none
    BY <1>1, <1>6
  <2>2. Linked(studio', calls')
    BY <1>3, <1>4, <2>1 DEF Linked
  <2>3. ASSUME ~unsure' PROVE Known(stored', profiles', studio', calls')
    <3>1. ~unsure /\ ~outdated /\ ~(now # None /\ now.saving)
      BY <1>1, <1>6, <2>3
    <3>2. Known(stored', profiles', now, cs)
      BY <3>1
    <3>3. \A c \in cs : ~IsSave(c)
      BY <3>1, <3>2 DEF Known, Linked
    <3>4. \A c \in none : ~IsSave(c)
      BY <1>4, <3>3 DEF IsSave
    <3>5. \A p : ~Served(p, cs)
      BY <3>3 DEF Served
    <3>6. \A p \in Profiles : profiles'[p] # None => stored'[p] \in {profiles'[p], None}
      BY <3>2, <3>5 DEF Known
    <3> QED
      BY <1>2, <2>1, <3>4, <3>6 DEF Known
  <2> QED
    BY <2>2, <2>3 DEF SavedInv
<1> QED
  BY <1>5, <1>6

-----------------------------------------------------------------------------
(* The steps of the page, of saving and of the server. *)

LEMMA NavigateKeeps ==
  ASSUME PageOK, SavedInv, NEW to \in {"list", "new"} \cup Profiles, Navigate(to)
  PROVE  PageOK' /\ SavedInv'
<1>1. /\ route' = to /\ to # route /\ Render(studio, calls, FALSE)
      /\ stored' = stored /\ profiles' = profiles /\ deleteTarget' = deleteTarget
  BY DEF Navigate
<1>2. /\ stored' \in Lists /\ profiles' \in Lists /\ route' \in {"list", "new"} \cup Profiles
      /\ deleteTarget' = None \/ deleteTarget' \in Profiles
      /\ studio = None \/ studio \in Studio
      /\ \A c \in calls : CallOK(c)
  BY <1>1 DEF PageOK, StudioType
<1>3. PageOK'
  BY <1>1, <1>2, RenderKeeps
<1>4. Linked(studio, calls) /\ (~unsure => Known(stored', profiles', studio, calls))
  BY <1>1 DEF SavedInv
<1>5. SavedInv'
  BY <1>1, <1>2, <1>4, RenderKnows
<1> QED
  BY <1>3, <1>5

LEMMA openCloneKeeps ==
  ASSUME PageOK, SavedInv, NEW p \in Profiles, openClone(p)
  PROVE  PageOK' /\ SavedInv'
<1> DEFINE f == [profiles[p] EXCEPT !.name = "copy"]
           m == Mounted("clone", f, None)
<1>1. /\ route = "list" /\ profiles[p] # None /\ route' = "new" /\ studio' = m /\ result' = None
      /\ UNCHANGED <<stored, profiles, loading, deleteTarget, calls, unsure>>
  BY DEF openClone
<1>2. f \in StudioForm
  <2>1. profiles[p] \in StudioForm
    BY <1>1 DEF PageOK, Lists
  <2>2. "copy" \in FormNames
    BY StudioAssumption, Zenon
  <2> QED
    BY <2>1, <2>2 DEF StudioForm
<1> HIDE DEF f
<1>3. m \in Studio /\ m # None /\ m.savedId = None /\ m.key = "clone"
  <2>1. "clone" \in Profiles \cup {"new", "clone"} /\ None \in Profiles \cup {None}
    OBVIOUS
  <2> QED
    BY <1>2, <2>1, MountedIsStudio
<1> HIDE DEF m
<1>4. "clone" \notin Profiles /\ studio = None
  BY <1>1, StudioAssumption, Zenon DEF PageOK
<1>5. \A c \in calls : ~(IsSave(c) /\ c.key # None)
  BY <1>4 DEF SavedInv, Linked
<1>6. PageOK'
  BY <1>1, <1>3 DEF PageOK, StudioType
<1>7. Linked(m, calls)
  BY <1>3, <1>4, <1>5 DEF Linked
<1>8. ~unsure => Known(stored, profiles, m, calls)
  BY <1>3 DEF SavedInv, Known
<1> QED
  BY <1>1, <1>6, <1>7, <1>8 DEF SavedInv

LEMMA DeleteDialogKeeps ==
  ASSUME PageOK, SavedInv, CancelDelete \/ \E p \in Profiles : AskDelete(p)
  PROVE  PageOK' /\ SavedInv'
<1>1. /\ deleteTarget' = None \/ deleteTarget' \in Profiles
      /\ UNCHANGED <<stored, route, profiles, loading, studio, result, calls, unsure>>
  BY DEF CancelDelete, AskDelete
<1> QED
  BY <1>1 DEF PageOK, StudioType, SavedInv

\* A request that is no save changes nothing the page knows.
LEMMA OtherCall ==
  ASSUME NEW sto, NEW prof, NEW s, NEW cs, NEW c, ~IsSave(c)
  PROVE  /\ Linked(s, cs) => Linked(s, cs \cup {c})
         /\ Known(sto, prof, s, cs) => Known(sto, prof, s, cs \cup {c})
<1>1. \A p : Served(p, cs) => Served(p, cs \cup {c})
  BY DEF Served
<1> QED
  BY <1>1 DEF Linked, Known

LEMMA FewerOthers ==
  ASSUME NEW sto, NEW prof, NEW s, NEW cs, NEW c, ~IsSave(c)
  PROVE  /\ Linked(s, cs) => Linked(s, cs \ {c})
         /\ Known(sto, prof, s, cs) => Known(sto, prof, s, cs \ {c})
<1>1. \A p : Served(p, cs) => Served(p, cs \ {c})
  BY DEF Served
<1> QED
  BY <1>1 DEF Linked, Known

LEMMA removeKeeps ==
  ASSUME PageOK, SavedInv, remove
  PROVE  PageOK' /\ SavedInv'
<1> DEFINE c == Call("delete", deleteTarget, None)
<1>1. /\ deleteTarget \in Profiles /\ deleteTarget' = None
      /\ calls' = calls \cup {c}
      /\ UNCHANGED <<stored, route, profiles, loading, studio, result, unsure>>
  BY DEF remove, PageOK
<1>2. CallOK(c) /\ ~IsSave(c)
  BY <1>1 DEF CallOK, Call, IsSave
<1> HIDE DEF c
<1>3. PageOK'
  BY <1>1, <1>2 DEF PageOK, StudioType
<1>4. SavedInv'
  BY <1>1, <1>2, OtherCall DEF SavedInv
<1> QED
  BY <1>3, <1>4

LEMMA onSaveKeeps ==
  ASSUME PageOK, SavedInv, onSave
  PROVE  PageOK' /\ SavedInv'
<1> DEFINE yes == TRUE
           s == [studio EXCEPT !.saving = yes]
           op == IF studio.savedId = None THEN "create" ELSE "update"
           c == Call(op, studio.savedId, studio.form)
<1>1. /\ studio # None /\ ~studio.saving /\ studio' = s /\ calls' = calls \cup {c}
      /\ UNCHANGED <<stored, route, profiles, loading, deleteTarget, result, unsure>>
  BY DEF onSave, CanPress
<1>2. studio \in Studio
  BY <1>1 DEF PageOK, StudioType
<1>3. yes \in BOOLEAN /\ yes
  OBVIOUS
<1> HIDE DEF yes
<1>4. /\ s \in Studio /\ (s.saving <=> yes) /\ s.key = studio.key /\ s.savedId = studio.savedId
      /\ s.baseline = studio.baseline
  BY <1>2, <1>3 DEF Studio
<1> HIDE DEF s
<1>5. s # None /\ studio.key # None /\ studio.form \in StudioForm /\ studio.savedId \in Profiles \cup {None}
  BY <1>2, <1>4, StudioParts
<1>6. /\ op \in {"create", "update"}
      /\ op = "create" => studio.savedId = None
      /\ op = "update" => studio.savedId # None
  OBVIOUS
<1> HIDE DEF op
<1>7. /\ CallOK(c) /\ IsSave(c) /\ c.key = studio.key /\ c.op = op /\ c.st = "sent" /\ c.id = studio.savedId
  BY <1>1, <1>5, <1>6 DEF CallOK, Call, IsSave
<1> HIDE DEF c
<1>8. PageOK'
  BY <1>1, <1>4, <1>7 DEF PageOK, StudioType
<1>9. \A d \in calls : ~(IsSave(d) /\ d.key # None)
  BY <1>1 DEF SavedInv, Linked
<1>10. Linked(s, calls \cup {c})
  <2>1. s.key \in Profiles => s.savedId = s.key
    BY <1>1, <1>4 DEF SavedInv, Linked
  <2>2. /\ c.op = "update" => c.id = s.savedId
        /\ c.op = "create" => s.savedId = None
    BY <1>4, <1>6, <1>7
  <2> QED
    BY <1>3, <1>4, <1>5, <1>9, <2>1, <2>2 DEF Linked
<1>11. ~unsure => Known(stored, profiles, s, calls \cup {c})
  <2>1. \A p : Served(p, calls) => Served(p, calls \cup {c})
    BY DEF Served
  <2> QED
    BY <1>1, <1>4, <1>5, <1>7, <2>1 DEF Known, SavedInv
<1> QED
  BY <1>1, <1>8, <1>10, <1>11 DEF SavedInv

\* A save the server has carried out.
LEMMA SaveServed ==
  ASSUME PageOK, SavedInv, NEW c \in calls, IsSave(c), c.st = "sent",
         NEW d, CallOK(d), d.op = c.op, d.key = c.key, d.form = c.form, d.st = "ok",
         d.id \in Profiles, c.op = "update" => d.id = c.id,
         calls' = (calls \ {c}) \cup {d}, stored' = [stored EXCEPT ![d.id] = c.form],
         UNCHANGED <<route, profiles, loading, deleteTarget, studio, result, unsure>>
  PROVE  PageOK' /\ SavedInv'
<1>1. IsSave(d) /\ CallOK(c) /\ c.form \in StudioForm
  BY DEF IsSave, PageOK, CallOK
<1>2. stored' \in Lists /\ stored'[d.id] = d.form /\ \A p \in Profiles : p # d.id => stored'[p] = stored[p]
  BY <1>1 DEF PageOK, Lists
<1>3. PageOK'
  BY <1>2 DEF PageOK, StudioType
<1>4. Linked(studio, calls)
  BY DEF SavedInv
<1>5. Linked(studio', calls')
  BY <1>1, <1>4 DEF Linked
<1>6. ASSUME ~unsure' PROVE Known(stored', profiles', studio', calls')
  <2>1. Known(stored, profiles, studio, calls)
    BY <1>6 DEF SavedInv
  <2>2. \A e \in calls : IsSave(e) => e = c
    BY <2>1, <1>4 DEF Linked, Known
  <2>3. \A p : ~Served(p, calls)
    BY <2>2 DEF Served
  <2>4. Served(d.id, calls')
    BY <1>1 DEF Served
  <2>5. \A e \in calls' : IsSave(e) => e = d
    BY <2>2
  <2>6. c.key # None
    BY <2>1 DEF Known
  <2>7. \A p \in Profiles : profiles[p] # None => stored'[p] \in {profiles[p], None} \/ Served(p, calls')
    BY <1>2, <2>1, <2>3, <2>4 DEF Known
  <2>8. studio # None /\ studio.savedId # None =>
          stored'[studio.savedId] \in {studio.baseline, None} \/ Served(studio.savedId, calls')
    <3>1. studio # None => studio.savedId \in Profiles \cup {None}
      BY StudioParts DEF PageOK, StudioType
    <3> QED
      BY <1>2, <2>1, <2>3, <2>4, <3>1 DEF Known
  <2> QED
    BY <1>2, <2>5, <2>6, <2>7, <2>8 DEF Known
<1> QED
  BY <1>3, <1>5, <1>6 DEF SavedInv

LEMMA ServeKeeps ==
  ASSUME PageOK, SavedInv, NEW c \in calls, Serve(c)
  PROVE  PageOK' /\ SavedInv'
<1>1. CallOK(c)
  BY DEF PageOK
<1>2. c.st = "sent" /\ UNCHANGED <<route, profiles, loading, deleteTarget, studio, result, unsure>>
  BY DEF Serve
<1> DEFINE d(id, st) == [c EXCEPT !.id = id, !.st = st]
<1>3. ASSUME NEW id, NEW st, c.op \in {"update", "delete"} => id \in Profiles,
             c.op = "create" /\ st = "ok" => id \in Profiles
      PROVE  /\ d(id, st).op = c.op /\ d(id, st).key = c.key /\ d(id, st).form = c.form
             /\ d(id, st).st = st /\ d(id, st).id = id /\ CallOK(d(id, st))
  <2> DEFINE e == d(id, st)
  <2>1. /\ e = [op |-> e.op, id |-> e.id, form |-> e.form, list |-> e.list, st |-> e.st, key |-> e.key, from |-> e.from]
        /\ e.op = c.op /\ e.id = id /\ e.form = c.form /\ e.list = c.list /\ e.st = st /\ e.key = c.key
    <3> DEFINE g == [c EXCEPT !.id = id]
    <3>1. /\ g = [op |-> g.op, id |-> g.id, form |-> g.form, list |-> g.list, st |-> g.st, key |-> g.key, from |-> g.from]
          /\ g.op = c.op /\ g.id = id /\ g.form = c.form /\ g.list = c.list /\ g.key = c.key
      BY <1>1 DEF CallOK
    <3>2. e = [g EXCEPT !.st = st]
      OBVIOUS
    <3> HIDE DEF g, e
    <3> QED
      BY <3>1, <3>2
  <2> HIDE DEF e
  <2>2. CallOK(e)
    BY <1>1, <1>3, <2>1 DEF CallOK, IsSave
  <2> QED
    BY <2>1, <2>2 DEF e
<1>4. ASSUME NEW st PROVE [c EXCEPT !.st = st] = d(c.id, st)
  BY <1>1 DEF CallOK
<1> HIDE DEF d
<1>5. CASE c.op = "create" /\ \E p \in Profiles :
              /\ stored' = [stored EXCEPT ![p] = c.form]
              /\ calls' = (calls \ {c}) \cup {d(p, "ok")}
  <2>1. PICK p \in Profiles : /\ stored' = [stored EXCEPT ![p] = c.form]
                             /\ calls' = (calls \ {c}) \cup {d(p, "ok")}
    BY <1>5
  <2> DEFINE e == d(p, "ok")
  <2>2. e.op = c.op /\ e.key = c.key /\ e.form = c.form /\ e.st = "ok" /\ e.id = p /\ CallOK(e)
    BY <1>3, <1>5
  <2> HIDE DEF e
  <2>3. calls' = (calls \ {c}) \cup {e} /\ stored' = [stored EXCEPT ![e.id] = c.form]
    BY <2>1, <2>2 DEF e
  <2> QED
    BY <1>2, <1>5, <2>2, <2>3, SaveServed DEF IsSave
<1>6. CASE /\ c.op = "update" /\ stored' = [stored EXCEPT ![c.id] = c.form]
           /\ calls' = (calls \ {c}) \cup {d(c.id, "ok")}
  <2>1. c.id \in Profiles
    BY <1>1, <1>6 DEF CallOK
  <2> DEFINE e == d(c.id, "ok")
  <2>2. e.op = c.op /\ e.key = c.key /\ e.form = c.form /\ e.st = "ok" /\ e.id = c.id /\ CallOK(e)
    BY <1>3, <1>6, <2>1
  <2> HIDE DEF e
  <2>3. calls' = (calls \ {c}) \cup {e} /\ stored' = [stored EXCEPT ![e.id] = c.form]
    BY <1>6, <2>2 DEF e
  <2> QED
    BY <1>2, <1>6, <2>1, <2>2, <2>3, SaveServed DEF IsSave
<1>7. CASE /\ c.op = "delete" /\ stored' = [stored EXCEPT ![c.id] = None]
           /\ calls' = (calls \ {c}) \cup {d(c.id, "ok")}
  <2>1. c.id \in Profiles /\ ~IsSave(c) /\ ~IsSave(d(c.id, "ok")) /\ CallOK(d(c.id, "ok"))
    BY <1>1, <1>3, <1>7 DEF CallOK, IsSave
  <2>2. stored' \in Lists /\ \A p \in Profiles : stored'[p] \in {stored[p], None}
    BY <1>7, <2>1 DEF PageOK, Lists
  <2>3. PageOK'
    BY <1>2, <1>7, <2>1, <2>2 DEF PageOK, StudioType
  <2>4. Linked(studio', calls')
    BY <1>2, <1>7, <2>1, FewerOthers, OtherCall DEF SavedInv
  <2>5. ASSUME ~unsure' PROVE Known(stored', profiles', studio', calls')
    <3>1. Known(stored, profiles, studio, calls)
      BY <1>2, <2>5 DEF SavedInv
    <3>2. \A e \in calls : IsSave(e) /\ e.st = "ok" => e.id \in Profiles
      BY DEF PageOK, CallOK, IsSave
    <3>3. studio # None => studio.savedId \in Profiles \cup {None}
      BY StudioParts DEF PageOK, StudioType
    <3>4. Known(stored', profiles, studio, calls)
      BY <2>2, <3>1, <3>2, <3>3 DEF Known
    <3> QED
      BY <1>2, <1>7, <2>1, <3>4, FewerOthers, OtherCall
  <2> QED
    BY <2>3, <2>4, <2>5 DEF SavedInv
<1>8. CASE c.op \in {"create", "update"} /\ calls' = (calls \ {c}) \cup {d(c.id, "failed")} /\ stored' = stored
  <2> DEFINE e == d(c.id, "failed")
  <2>1. CallOK(e) /\ e.op = c.op /\ e.key = c.key /\ e.st = "failed" /\ e.id = c.id /\ (IsSave(e) <=> IsSave(c))
    BY <1>1, <1>3, <1>8 DEF CallOK, IsSave
  <2> HIDE DEF e
  <2>2. calls' = (calls \ {c}) \cup {e}
    BY <1>8 DEF e
  <2>3. PageOK'
    BY <1>2, <1>8, <2>1, <2>2 DEF PageOK, StudioType
  <2>4. Linked(studio', calls')
    BY <1>2, <2>1, <2>2 DEF SavedInv, Linked
  <2>5. \A p : Served(p, calls) => Served(p, calls')
    BY <1>2, <2>2 DEF Served
  <2>6. ~unsure => Known(stored', profiles', studio', calls')
    BY <1>2, <1>8, <2>1, <2>2, <2>5 DEF SavedInv, Known
  <2> QED
    BY <1>2, <2>3, <2>4, <2>6 DEF SavedInv
<1> QED
  BY <1>4, <1>5, <1>6, <1>7, <1>8 DEF Serve, d

LEMMA LoadReplyKeeps ==
  ASSUME PageOK, SavedInv, NEW c \in calls, LoadReply(c)
  PROVE  PageOK' /\ SavedInv'
<1> DEFINE old == profiles' = c.list /\ Outdated(c.list)
           cs == calls \ {c}
<1>1. /\ c.op = "list" /\ profiles' \in {c.list, profiles} /\ Render(studio, cs, old)
      /\ route' = route /\ stored' = stored /\ deleteTarget' = deleteTarget
  BY DEF LoadReply
<1>2. c.list \in Lists /\ ~IsSave(c)
  BY <1>1 DEF PageOK, CallOK, IsSave
<1>3. ~unsure /\ ~old => Known(stored', profiles', studio, cs)
  <2>1. SUFFICES ASSUME ~unsure, ~old PROVE Known(stored, profiles', studio, calls)
    BY <1>1, <1>2, FewerOthers
  <2>2. Known(stored, profiles, studio, calls)
    BY <2>1 DEF SavedInv
  <2>3. CASE profiles' = c.list
    <3>1. \A p \in Profiles : c.list[p] # None => stored[p] \in {c.list[p], None}
      BY <2>1, <2>3 DEF Outdated
    <3> QED
      BY <2>2, <2>3, <3>1 DEF Known
  <2> QED
    BY <1>1, <2>2, <2>3
<1>4. Linked(studio, cs)
  BY <1>2, FewerOthers DEF SavedInv
<1>5. /\ stored' \in Lists /\ profiles' \in Lists /\ route' \in {"list", "new"} \cup Profiles
      /\ deleteTarget' = None \/ deleteTarget' \in Profiles
      /\ studio = None \/ studio \in Studio
      /\ route = "list" => studio = None
      /\ \A d \in cs : CallOK(d)
  BY <1>1, <1>2 DEF PageOK, StudioType
<1> HIDE DEF old, cs
<1>6. PageOK'
  BY <1>1, <1>5, RenderKeeps
<1>7. SavedInv'
  BY <1>1, <1>3, <1>4, <1>5, RenderKnows
<1> QED
  BY <1>6, <1>7

LEMMA DeleteReplyKeeps ==
  ASSUME PageOK, SavedInv, NEW c \in calls, DeleteReply(c)
  PROVE  PageOK' /\ SavedInv'
<1> DEFINE l == ListCall
           cs == (calls \ {c}) \cup {l}
<1>1. /\ c.op = "delete" /\ deleteTarget' = None /\ Render(studio, cs, FALSE)
      /\ route' = route /\ stored' = stored /\ profiles' = profiles
  BY DEF DeleteReply
<1>2. CallOK(l) /\ ~IsSave(l)
  <2>1. l = [op |-> "list", id |-> None, form |-> None, list |-> stored, st |-> "ok", key |-> None, from |-> None]
    <3> DEFINE k == IF studio = None THEN None ELSE studio.key
               R(list, st, key, from) == [op |-> "list", id |-> None, form |-> None, list |-> list, st |-> st,
                                          key |-> key, from |-> from]
               l1 == [R(<<>>, "sent", k, route) EXCEPT !.list = stored]
               l2 == [l1 EXCEPT !.st = "ok"]
               l3 == [l2 EXCEPT !.key = None]
               l4 == [l3 EXCEPT !.from = None]
    <3>1. l = l4
      BY DEF ListCall, Call
    <3> HIDE DEF k
    <3>2. l1 = R(stored, "sent", k, route)
      OBVIOUS
    <3> HIDE DEF l1
    <3>3. l2 = R(stored, "ok", k, route)
      BY <3>2
    <3> HIDE DEF l2
    <3>4. l3 = R(stored, "ok", None, route)
      BY <3>3
    <3> HIDE DEF l3
    <3>5. l4 = R(stored, "ok", None, None)
      BY <3>4
    <3> HIDE DEF l4, l
    <3> QED
      BY <3>1, <3>5
  <2> HIDE DEF l
  <2> QED
    BY <2>1 DEF PageOK, CallOK, IsSave
<1> HIDE DEF l
<1>3. ~IsSave(c)
  BY <1>1 DEF IsSave
<1>4. Linked(studio, cs) /\ (~unsure => Known(stored', profiles', studio, cs))
  <2>1. Linked(studio, calls \ {c}) /\ (~unsure => Known(stored, profiles, studio, calls \ {c}))
    BY <1>3, FewerOthers DEF SavedInv
  <2> QED
    BY <1>1, <1>2, <2>1, OtherCall
<1>5. /\ stored' \in Lists /\ profiles' \in Lists /\ route' \in {"list", "new"} \cup Profiles
      /\ deleteTarget' = None \/ deleteTarget' \in Profiles
      /\ studio = None \/ studio \in Studio
      /\ route = "list" => studio = None
      /\ \A d \in cs : CallOK(d)
  BY <1>1, <1>2 DEF PageOK, StudioType
<1> HIDE DEF cs
<1>6. PageOK'
  BY <1>1, <1>5, RenderKeeps
<1>7. SavedInv'
  BY <1>1, <1>4, <1>5, RenderKnows
<1> QED
  BY <1>6, <1>7

LEMMA SaveFailsKeeps ==
  ASSUME PageOK, SavedInv, NEW c \in calls, SaveFails(c)
  PROVE  PageOK' /\ SavedInv'
<1> DEFINE no == FALSE
           s == [studio EXCEPT !.saving = no]
<1>1. /\ IsSave(c) /\ calls' = calls \ {c}
      /\ studio' = IF Asker(c) THEN s ELSE studio
      /\ unsure' = (unsure \/ c.st = "ok")
      /\ UNCHANGED <<stored, route, profiles, loading, deleteTarget, result>>
  BY DEF SaveFails, IsSave
<1>2. no \in BOOLEAN
  OBVIOUS
<1> HIDE DEF no
<1>3. studio # None => /\ s \in Studio /\ s # None /\ s.key = studio.key /\ s.savedId = studio.savedId
                       /\ s.baseline = studio.baseline
  <2> SUFFICES ASSUME studio # None PROVE /\ s \in Studio /\ s # None /\ s.key = studio.key
                                         /\ s.savedId = studio.savedId /\ s.baseline = studio.baseline
    OBVIOUS
  <2>1. studio \in Studio
    BY DEF PageOK, StudioType
  <2>2. s \in Studio /\ s.key = studio.key /\ s.savedId = studio.savedId /\ s.baseline = studio.baseline
    BY <1>2, <2>1 DEF Studio
  <2> HIDE DEF s
  <2> QED
    BY <2>2, StudioParts
<1> HIDE DEF s
<1>4. Asker(c) => studio # None /\ c.key # None
  BY DEF Asker
<1>5. /\ studio' = None <=> studio = None
      /\ studio' = None \/ studio' \in Studio
      /\ studio # None => /\ studio'.key = studio.key /\ studio'.savedId = studio.savedId
                          /\ studio'.baseline = studio.baseline
  <2>1. CASE Asker(c)
    BY <1>1, <1>3, <1>4, <2>1
  <2>2. CASE ~Asker(c)
    BY <1>1, <2>2 DEF PageOK, StudioType
  <2> QED
    BY <2>1, <2>2
<1>6. PageOK'
  BY <1>1, <1>5 DEF PageOK, StudioType
<1>7. Linked(studio, calls)
  BY DEF SavedInv
<1>8. Linked(studio', calls')
  <2>1. CASE Asker(c)
    <3>1. \A d \in calls' : ~(IsSave(d) /\ d.key # None)
      BY <1>1, <1>4, <1>7, <2>1 DEF Linked
    <3> QED
      BY <1>5, <1>7, <3>1 DEF Linked
  <2>2. CASE ~Asker(c)
    BY <1>1, <1>7, <2>2 DEF Linked
  <2> QED
    BY <2>1, <2>2
<1>9. ASSUME ~unsure' PROVE Known(stored', profiles', studio', calls')
  <2>1. ~unsure /\ c.st # "ok"
    BY <1>1, <1>9
  <2>2. Known(stored, profiles, studio, calls)
    BY <2>1 DEF SavedInv
  <2>3. \A p : Served(p, calls) => Served(p, calls')
    BY <1>1, <2>1 DEF Served
  <2> QED
    BY <1>1, <1>5, <2>2, <2>3 DEF Known
<1> QED
  BY <1>6, <1>8, <1>9 DEF SavedInv

LEMMA SaveReplyKeeps ==
  ASSUME PageOK, SavedInv, NEW c \in calls, SaveReply(c)
  PROVE  PageOK' /\ SavedInv'
<1> DEFINE no == FALSE
           s == SavedStudio(c)
           now == IF Asker(c) THEN s ELSE studio
           cs == calls \ {c}
<1>1. /\ IsSave(c) /\ c.st = "ok" /\ Render(now, cs, FALSE)
      /\ profiles' = [profiles EXCEPT ![c.id] = c.form]
      /\ route' = IF c.from = "new" THEN c.id ELSE route
      /\ stored' = stored /\ deleteTarget' = deleteTarget
  BY DEF SaveReply, IsSave
<1>2. c.id \in Profiles /\ c.form \in StudioForm
  BY <1>1 DEF PageOK, CallOK, IsSave
<1>3. Asker(c) => studio # None /\ c.key # None
  BY DEF Asker
<1>4. studio # None => /\ s \in Studio /\ s # None /\ s.key = studio.key /\ s.savedId = c.id /\ s.baseline = c.form
  <2> SUFFICES ASSUME studio # None
               PROVE  s \in Studio /\ s # None /\ s.key = studio.key /\ s.savedId = c.id /\ s.baseline = c.form
    OBVIOUS
  <2> DEFINE s1 == [studio EXCEPT !.savedId = c.id]
             s2 == [s1 EXCEPT !.baseline = c.form]
             s3 == [s2 EXCEPT !.saving = no]
  <2>1. studio \in Studio /\ no \in BOOLEAN
    BY DEF PageOK, StudioType
  <2>2. s = s3
    BY <2>1 DEF SavedStudio, Studio
  <2> HIDE DEF s, no
  <2>3. s1 \in Studio /\ s1.key = studio.key /\ s1.savedId = c.id
    BY <1>2, <2>1 DEF Studio
  <2> HIDE DEF s1
  <2>4. s2 \in Studio /\ s2.key = studio.key /\ s2.savedId = c.id /\ s2.baseline = c.form
    BY <1>2, <2>3 DEF Studio
  <2> HIDE DEF s2
  <2>5. s3 \in Studio /\ s3.key = studio.key /\ s3.savedId = c.id /\ s3.baseline = c.form
    BY <2>1, <2>4 DEF Studio
  <2> HIDE DEF s3
  <2> QED
    BY <2>2, <2>5, StudioParts
<1> HIDE DEF s, no
<1>5. Linked(studio, calls)
  BY DEF SavedInv
<1>6. Linked(now, cs)
  <2>1. CASE Asker(c)
    <3>1. \A d \in cs : ~(IsSave(d) /\ d.key # None)
      BY <1>1, <1>3, <1>5, <2>1 DEF Linked
    <3>2. s.key \in Profiles => s.savedId = s.key
      <4>1. SUFFICES ASSUME studio.key \in Profiles PROVE c.id = studio.key
        BY <1>3, <1>4, <2>1
      <4>2. studio.savedId = studio.key /\ studio.savedId # None
        BY <1>3, <1>5, <2>1, <4>1, StudioAssumption DEF Linked
      <4> QED
        BY <1>1, <1>3, <1>5, <2>1, <4>2 DEF Linked, IsSave
    <3> QED
      BY <1>3, <1>4, <2>1, <3>1, <3>2 DEF Linked
  <2>2. CASE ~Asker(c)
    BY <1>5, <2>2 DEF Linked
  <2> QED
    BY <2>1, <2>2
<1>7. ASSUME ~unsure PROVE Known(stored', profiles', now, cs)
  <2>1. Known(stored, profiles, studio, calls)
    BY <1>7 DEF SavedInv
  <2>2. Asker(c) /\ \A d \in cs : ~IsSave(d)
    BY <1>1, <1>5, <2>1 DEF Known, Linked, Asker
  <2>3. \A p : Served(p, calls) => p = c.id
    BY <1>1, <2>2 DEF Served
  <2>4. stored[c.id] \in {c.form, None}
    BY <1>1, <2>1 DEF Known
  <2>5. \A p \in Profiles : profiles'[p] # None => stored[p] \in {profiles'[p], None}
    <3>1. /\ profiles'[c.id] = c.form
          /\ \A p \in Profiles : p # c.id => profiles'[p] = profiles[p]
      BY <1>1, <1>2 DEF PageOK, Lists
    <3> QED
      BY <2>1, <2>3, <2>4, <3>1 DEF Known
  <2>6. stored[now.savedId] \in {now.baseline, None}
    BY <1>3, <1>4, <2>2, <2>4
  <2> HIDE DEF now
  <2> QED
    BY <1>1, <2>2, <2>5, <2>6 DEF Known
<1>8. /\ stored' \in Lists /\ route' \in {"list", "new"} \cup Profiles
      /\ deleteTarget' = None \/ deleteTarget' \in Profiles
      /\ \A d \in cs : CallOK(d)
  BY <1>1, <1>2 DEF PageOK
<1>9. profiles' \in Lists
  BY <1>1, <1>2 DEF PageOK, Lists
<1>10. now = None \/ now \in Studio
  BY <1>3, <1>4 DEF PageOK, StudioType
<1>11. route = "list" => now = None
  BY <1>3 DEF PageOK
<1> HIDE DEF now, cs
<1>12. PageOK'
  BY <1>1, <1>8, <1>9, <1>10, <1>11, RenderKeeps
<1>13. SavedInv'
  BY <1>1, <1>6, <1>7, <1>8, <1>9, <1>10, RenderKnows
<1> QED
  BY <1>12, <1>13

-----------------------------------------------------------------------------
(* The page as a whole. *)

LEMMA PageInitOK == PageInit => PageOK /\ SavedInv
<1> SUFFICES ASSUME PageInit PROVE PageOK /\ SavedInv
  OBVIOUS
<1> DEFINE l == [op |-> "list", id |-> None, form |-> None, list |-> stored, st |-> "ok", key |-> None, from |-> None]
           m == Mounted("new", EMPTY_FORM, None)
<1>1. /\ stored \in InitialForms /\ route \in {"list", "new"} \cup Profiles
      /\ profiles = [p \in Profiles |-> None] /\ deleteTarget = None /\ result = None
      /\ studio = IF route = "new" THEN m ELSE None
      /\ calls = {l}
  BY DEF PageInit
<1>2. stored \in Lists
  BY <1>1, StudioAssumption, Zenon DEF Lists
<1>3. profiles \in Lists /\ \A p \in Profiles : profiles[p] = None
  BY <1>1 DEF Lists
<1>4. m \in Studio /\ m.savedId = None /\ m.key = "new" /\ "new" \notin Profiles
  <2>1. "new" \in Profiles \cup {"new", "clone"} /\ None \in Profiles \cup {None}
    OBVIOUS
  <2>2. m \in Studio /\ m.savedId = None /\ m.key = "new"
    BY <2>1, EmptyForm, MountedIsStudio
  <2> HIDE DEF m
  <2> QED
    BY <2>2, StudioAssumption, Zenon
<1>5. CallOK(l) /\ ~IsSave(l)
  BY <1>2 DEF CallOK, IsSave
<1> HIDE DEF l, m
<1>6. PageOK
  BY <1>1, <1>2, <1>3, <1>4, <1>5 DEF PageOK, StudioType
<1>7. Linked(studio, calls)
  BY <1>1, <1>4, <1>5 DEF Linked
<1>8. Known(stored, profiles, studio, calls)
  BY <1>1, <1>3, <1>4, <1>5 DEF Known
<1> QED
  BY <1>6, <1>7, <1>8 DEF SavedInv

LEMMA PageStep ==
  ASSUME PageOK, SavedInv, [Next]_vars
  PROVE  PageOK' /\ SavedInv'
<1>1. CASE UNCHANGED pageVars
  BY <1>1 DEF pageVars, PageOK, StudioType, SavedInv
<1>2. ASSUME NEW f \in StudioForm, SetForm(f), studio # None PROVE PageOK' /\ SavedInv'
  BY <1>2, SetFormKeeps
<1>3. CASE PageNext
  <2>1. CASE Rename
    BY <2>1, <1>2, RenameEdits DEF Rename
  <2>2. CASE CancelDelete \/ (\E p \in Profiles : AskDelete(p)) \/ remove \/ onSave
    BY <2>2, DeleteDialogKeeps, removeKeeps, onSaveKeeps
  <2>3. CASE \E to \in {"list", "new"} \cup Profiles : Navigate(to)
    BY <2>3, NavigateKeeps
  <2>4. CASE \E p \in Profiles : openClone(p)
    BY <2>4, openCloneKeeps
  <2>5. CASE \E c \in calls : Serve(c) \/ LoadReply(c) \/ SaveReply(c) \/ SaveFails(c) \/ DeleteReply(c)
    BY <2>5, ServeKeeps, LoadReplyKeeps, SaveReplyKeeps, SaveFailsKeeps, DeleteReplyKeeps
  <2> QED
    BY <1>3, <2>1, <2>2, <2>3, <2>4, <2>5 DEF PageNext
<1>4. CASE FormNext
  <2>1. CASE SetMode \/ SetCapability \/ EditCommands \/ EditNetwork \/ onApply
    <3>1. studio # None
      BY <2>1 DEF SetMode, SetCapability, EditCommands, EditNetwork, onApply
    <3> QED
      BY <2>1, <3>1, <1>2, SetModeEdits, SetCapabilityEdits, EditCommandsEdits, EditNetworkEdits, onApplyEdits
  <2>2. CASE \E line \in Lines : ApplyRow(line)
    <3>1. studio # None
      BY <2>2 DEF ApplyRow
    <3> QED
      BY <2>2, <3>1, <1>2, ApplyRowEdits
  <2>3. CASE \E h \in Targets : ApplyHost(h)
    <3>1. studio # None
      BY <2>3 DEF ApplyHost
    <3> QED
      BY <2>3, <3>1, <1>2, ApplyHostEdits
  <2>4. CASE applyPreset \/ \E line \in Lines : runTest(line)
    BY <2>4, applyPresetKeeps, runTestKeeps
  <2>5. CASE \E c \in calls : LoadReply(c)
    BY <2>5, LoadReplyKeeps
  <2> QED
    BY <1>4, <2>1, <2>2, <2>3, <2>4, <2>5 DEF FormNext
<1> QED
  BY <1>1, <1>3, <1>4 DEF Next, vars

LEMMA PageInductive == Spec => [](PageOK /\ SavedInv)
<1>1. Init => PageOK /\ SavedInv
  BY PageInitOK DEF Init
<1>2. PageOK /\ SavedInv /\ [Next]_vars => (PageOK /\ SavedInv)'
  BY PageStep
<1> QED
  BY <1>1, <1>2, PTL DEF Spec

\* The badge "Saved" tells the truth (onSave of Studio, load of GuardProfilesPage), for every
\* number of profiles, saves and overlapping loads, with the exceptions SavedMeansStored names.
THEOREM SavedIsStored == Spec => []SavedMeansStored
<1>1. PageOK /\ SavedInv => SavedMeansStored
  <2> SUFFICES ASSUME PageOK, SavedInv, studio # None, ~unsure, studio.savedId # None, ~Dirty(studio),
                      \A c \in calls : c.op \notin {"create", "update"}
               PROVE  stored[studio.savedId] \in {studio.form, None}
    BY DEF SavedMeansStored
  <2>1. \A p : ~Served(p, calls)
    BY DEF Served, IsSave
  <2> QED
    BY <2>1 DEF SavedInv, Known, Dirty
<1> QED
  BY <1>1, PageInductive, PTL

\* For every profile, every line and every pair of readings of it: where the editor reads
\* out of the line and the message what the server refused, the fix it offers gets the
\* line, or the destination, past the rule (suggestAllowCommand, suggestAllowHost).
THEOREM FixesHelp == Spec => []FixHelps
<1>1. PageOK => FixHelps
  <2> SUFFICES ASSUME PageOK, studio # None PROVE FixHelps
    BY DEF FixHelps
  <2> DEFINE form == studio.form
  <2>1. form \in StudioForm
    BY DEF PageOK, StudioType, Studio
  <2> HIDE DEF form
  <2>2. ASSUME NEW line \in Lines, HasAllowFix(line, CommandVerdict(form, line)),
               ReadsAlike(line, CommandVerdict(form, line))
        PROVE  CommandVerdict(suggestAllowCommand(form, line, CommandVerdict(form, line)), line)
                 # CommandVerdict(form, line)
    BY <2>1, <2>2, StudioAssumption, CommandFix
  <2>3. ASSUME NEW h \in Targets, HostVerdict(form, h) # Ok, ListsAlike(form, h, HostVerdict(form, h))
        PROVE  HostVerdict(suggestAllowHost(form, h, HostVerdict(form, h)), h) # HostVerdict(form, h)
    BY <2>1, <2>3, HostFix
  <2> QED
    BY <2>2, <2>3 DEF FixHelps, form
<1> QED
  BY <1>1, PageInductive, PTL

-----------------------------------------------------------------------------
(* Types. *)

ConnInv ==
  /\ attached \subseteq Conns /\ panel.selected \subseteq Conns
  /\ \A c \in panelCalls : c.set \subseteq Conns

LEMMA ConnStep ==
  ASSUME AttachInv, ConnInv, [Next]_vars
  PROVE  ConnInv'
<1>0. PanelOK(panel) /\ \A c \in panelCalls : PanelCallOK(c)
  BY DEF AttachInv
<1>1. CASE OpenPanel
  BY <1>1 DEF OpenPanel, PanelClosed, Reload, ConnInv
<1>2. CASE ClosePanel
  BY <1>0, <1>2 DEF ClosePanel, PanelClosed, PanelCallOK, ConnInv
<1>3. CASE Select
  BY <1>0, <1>3 DEF Select, PanelOK, ConnInv
<1>4. CASE SaveAttachments
  <2>1. panel'.selected = panel.selected
    BY <1>0, <1>4 DEF SaveAttachments, PanelOK
  <2> QED
    BY <1>4, <2>1 DEF SaveAttachments, Sync, ConnInv
<1>5. ASSUME NEW c \in panelCalls, ServeSync(c) PROVE ConnInv'
  <2>1. panel'.selected = panel.selected
    BY <1>0, <1>5 DEF ServeSync, PanelOK
  <2>2. [c EXCEPT !.st = "ok"].set = c.set
    BY <1>0 DEF PanelCallOK
  <2> QED
    BY <1>5, <2>1, <2>2 DEF ServeSync, ConnInv
<1>6. ASSUME NEW c \in panelCalls, SyncReply(c) PROVE ConnInv'
  <2>1. panel'.selected = panel.selected
    BY <1>0, <1>6 DEF SyncReply, PanelOK
  <2> QED
    BY <1>6, <2>1 DEF SyncReply, Reload, ConnInv
<1>7. ASSUME NEW c \in panelCalls, ReloadReply(c) PROVE ConnInv'
  <2>1. panel'.selected = c.set
    BY <1>0, <1>7 DEF ReloadReply, PanelOK
  <2> QED
    BY <1>7, <2>1 DEF ReloadReply, ConnInv
<1>8. ASSUME NEW c \in panelCalls, PanelCallFails(c) PROVE ConnInv'
  <2>1. panel'.selected = panel.selected
    BY <1>0, <1>8 DEF PanelCallFails, PanelOK
  <2> QED
    BY <1>8, <2>1 DEF PanelCallFails, ConnInv
<1>9. CASE UNCHANGED <<attached, panel, panelCalls>>
  BY <1>9 DEF ConnInv
<1> QED
  BY <1>1, <1>2, <1>3, <1>4, <1>5, <1>6, <1>7, <1>8, <1>9
  DEF Next, PanelNext, vars, panelVars, LoadEvents, EventsReply

\* The lists, forms and panels of the page keep their types, and Studio is never at work on
\* a profile other than the one its key names (useStudioState of GuardProfilesPage).
THEOREM GuardTypes == Spec => []GuardTypeOK
<1>1. Init => ConnInv
  BY DEF Init, PanelInit, PanelClosed, ConnInv
<1>2. AttachInv /\ ConnInv /\ [Next]_vars => ConnInv'
  BY ConnStep
<1>3. Spec => []ConnInv
  BY <1>1, <1>2, AttachInductive, PTL DEF Spec
<1>4. PageOK /\ SavedInv /\ ActivityInv /\ ConnInv => GuardTypeOK
  BY DEF PageOK, SavedInv, Linked, Lists, ActivityInv, ConnInv, GuardTypeOK
<1> QED
  BY <1>3, <1>4, PageInductive, ActivityInductive, PTL

=============================================================================
