-------------------------------- MODULE LlmPage --------------------------------
(***************************************************************************)
(* The AI engine page: endpoints, the models that belong to them, profiles *)
(* made of models, and the routing that picks profiles.  The server keeps  *)
(* four tables without references between them; the page reads all of them *)
(* at once and then asks each endpoint for its inference limit, without    *)
(* blocking.  An endpoint is removed by several requests, one after the    *)
(* other.  Answers come late, in any order or never, also after the page   *)
(* was left; a reading is as of the moment it is asked for, and a writing  *)
(* is done then too.  The forms are abstracted to the ids in them, and the *)
(* names of models that an endpoint offers, mere suggestions, left out.    *)
(***************************************************************************)
EXTENDS Naturals, FiniteSets

CONSTANTS Endpoints, Models, Presets, NoId,
          Engines,      \* the tables to begin with
          MaxWrites     \* bound on what the user stores and removes

VARIABLES engine,       \* server: the tables
          here,         \* mountedRef
          page,         \* the state of the component
          asks,         \* requests in flight
          writes        \* how much of the bound is used

llmVars == <<engine, here, page, asks, writes>>

Slots == {"chat", "server"}

\* A model is listed with its connectionId.
Tables == [endpoints : SUBSET Endpoints, models : [Models -> Endpoints \cup {NoId}],
           presets : SUBSET Presets, routing : [Slots -> Presets \cup {NoId}]]

ASSUME LlmAssumption ==
    /\ NoId \notin Endpoints \cup Models \cup Presets /\ MaxWrites \in Nat
    /\ Engines \subseteq Tables

Dialogs == {"none", "endpoint", "model", "profile", "delete endpoint", "delete model", "delete profile"}

Blank == [endpoints |-> {}, models |-> [m \in Models |-> NoId], presets |-> {},
          routing |-> [s \in Slots |-> NoId]]

\* dialog: the one that is open, and of: what it is about, NoId for something new.
Fresh == [shown |-> Blank, loading |-> TRUE, limitLoading |-> {}, dialog |-> "none", of |-> NoId,
          connectionId |-> NoId]

OfEndpoint(tables, e) == {m \in Models : tables.models[m] = e}

\* Requests are told apart by a number.
FreeNumber == CHOOSE n \in 1..(Cardinality(asks) + 1) : \A r \in asks : r.n # n

Load == [kind |-> "load", n |-> FreeNumber, tables |-> engine]

LlmInit ==
    /\ engine \in Engines /\ here = TRUE /\ page = Fresh
    /\ asks = {[kind |-> "load", n |-> 1, tables |-> engine]}
    /\ writes = 0

Ready == here /\ ~page.loading
Sends == Ready /\ writes < MaxWrites /\ writes' = writes + 1

-----------------------------------------------------------------------------
(* Reading. *)

\* fetchInferenceLimits: each endpoint is asked on its own.
LimitCalls(tables) == {[kind |-> "limit", n |-> FreeNumber, endpoint |-> e] : e \in tables.endpoints}

TablesReply(r, ok) ==
    /\ r.kind = "load"
    /\ IF here /\ ok
       THEN /\ page' = [page EXCEPT !.shown = r.tables, !.loading = FALSE,
                                    !.limitLoading = r.tables.endpoints]
            /\ asks' = (asks \ {r}) \cup LimitCalls(r.tables)
       ELSE /\ page' = IF here THEN [page EXCEPT !.loading = FALSE] ELSE page
            /\ asks' = asks \ {r}
    /\ UNCHANGED <<engine, here, writes>>

\* Mutant: only an answer takes the spinner away.
Checked_OnAnswer(e, ok) == IF ok THEN page.limitLoading \ {e} ELSE page.limitLoading

\* The finally, also after the eight seconds.
Checked(e, ok) == page.limitLoading \ {e}

LimitReply(r, ok) ==
    /\ r.kind = "limit" /\ asks' = asks \ {r}
    /\ page' = IF here THEN [page EXCEPT !.limitLoading = Checked(r.endpoint, ok)] ELSE page
    /\ UNCHANGED <<engine, here, writes>>

-----------------------------------------------------------------------------
(* The dialogs. *)

\* The rows on screen: a model is listed under its endpoint.
ModelRows == {m \in Models : page.shown.models[m] \in page.shown.endpoints}

Opens(d, of, connection) ==
    /\ Ready /\ page.dialog = "none"
    /\ page' = [page EXCEPT !.dialog = d, !.of = of, !.connectionId = connection]
    /\ UNCHANGED <<engine, here, asks, writes>>

openEndpoint(e) == e \in page.shown.endpoints \cup {NoId} /\ Opens("endpoint", e, NoId)

\* A model is added to an endpoint that is listed, or edited with the one it has.
openCreateModel(e) == e \in page.shown.endpoints /\ Opens("model", NoId, e)
openEditModel(m) == m \in ModelRows /\ Opens("model", m, page.shown.models[m])

\* A profile can be added once there is a model.
openProfile(p) ==
    /\ p \in page.shown.presets \/ (p = NoId /\ page.shown.models # Blank.models)
    /\ Opens("profile", p, NoId)

AskDeletion(d, of) ==
    /\ \/ d = "delete endpoint" /\ of \in page.shown.endpoints
       \/ d = "delete model" /\ of \in ModelRows
       \/ d = "delete profile" /\ of \in page.shown.presets
    /\ Opens(d, of, NoId)

PickConnection(e) ==
    /\ Ready /\ page.dialog = "model" /\ e \in page.shown.endpoints \cup {NoId} /\ e # page.connectionId
    /\ page' = [page EXCEPT !.connectionId = e] /\ UNCHANGED <<engine, here, asks, writes>>

\* A form that is opened is filled anew.
Closed(p, d) ==
    IF p.dialog = d THEN [p EXCEPT !.dialog = "none", !.of = NoId, !.connectionId = NoId] ELSE p

CloseDialog ==
    /\ Ready /\ page.dialog # "none" /\ page' = Closed(page, page.dialog)
    /\ UNCHANGED <<engine, here, asks, writes>>

\* The outcome of a writing: it is done and answered, only done, or not done.
Outcomes == {"answered", "lost", "refused"}

Writes(tables, outcome) == engine' = IF outcome = "refused" THEN engine ELSE tables

Posts(d, outcome) ==
    asks' = asks \cup {[kind |-> "write", n |-> FreeNumber, dialog |-> d, ok |-> outcome = "answered"]}

\* Ids of models and of profiles are never used twice.
NewModels == {m \in Models : engine.models[m] = NoId /\ page.shown.models[m] = NoId
                             /\ \A r \in asks : r.kind = "remove" => m \notin r.listed}

\* An id can be taken already.
submitEndpoint(e, outcome) ==
    /\ Sends /\ page.dialog = "endpoint" /\ Posts("endpoint", outcome)
    /\ IF page.of = NoId THEN outcome # "refused" => e \notin engine.endpoints
       ELSE e = page.of /\ (outcome # "refused" => e \in engine.endpoints)
    /\ Writes([engine EXCEPT !.endpoints = @ \cup {e}], outcome)
    /\ UNCHANGED <<here, page>>

\* The server does not look for the endpoint.
submitModel(m, outcome) ==
    /\ Sends /\ page.dialog = "model" /\ page.connectionId # NoId /\ Posts("model", outcome)
    /\ IF page.of = NoId THEN m \in NewModels
       ELSE m = page.of /\ (outcome # "refused" => engine.models[m] # NoId)
    /\ Writes([engine EXCEPT !.models[m] = page.connectionId], outcome)
    /\ UNCHANGED <<here, page>>

submitProfile(p, outcome) ==
    /\ Sends /\ page.dialog = "profile" /\ Posts("profile", outcome)
    /\ IF page.of = NoId THEN p \notin engine.presets \cup page.shown.presets
       ELSE p = page.of /\ (outcome # "refused" => p \in engine.presets)
    /\ Writes([engine EXCEPT !.presets = @ \cup {p}], outcome)
    /\ UNCHANGED <<here, page>>

Confirms(d, tables, outcome) ==
    /\ Sends /\ page.dialog = d /\ Writes(tables, outcome)
    /\ Posts(d, outcome) /\ page' = Closed(page, d) /\ UNCHANGED here

removeModel(outcome) == Confirms("delete model", [engine EXCEPT !.models[page.of] = NoId], outcome)

\* The routing keeps what it names.
removeProfile(outcome) == Confirms("delete profile", [engine EXCEPT !.presets = @ \ {page.of}], outcome)

\* The writing ended: a dialog like the one it came from is closed, and the page is loaded.
Ends(d, rs) ==
    IF here THEN /\ page' = [Closed(page, d) EXCEPT !.loading = TRUE] /\ asks' = rs \cup {Load}
    ELSE page' = page /\ asks' = rs

WriteReply(r) ==
    /\ r.kind = "write"
    /\ IF r.ok THEN Ends(r.dialog, asks \ {r}) ELSE page' = page /\ asks' = asks \ {r}
    /\ UNCHANGED <<engine, here, writes>>

-----------------------------------------------------------------------------
(* Removing an endpoint: the models listed with it go first, one by one. *)

removeEndpoint ==
    /\ Sends /\ page.dialog = "delete endpoint"
    /\ LET listed == OfEndpoint(page.shown, page.of)
       IN  asks' = asks \cup {[kind |-> "remove", n |-> FreeNumber, endpoint |-> page.of,
                               listed |-> listed, left |-> listed]}
    /\ page' = Closed(page, "delete endpoint") /\ UNCHANGED <<engine, here>>

\* Mutant: a model that cannot be deleted is passed over.
Proceeds_Anyway(r, m, outcome) == asks' = (asks \ {r}) \cup {[r EXCEPT !.left = @ \ {m}]}

\* The first request that fails ends it all.
Proceeds(r, m, outcome) ==
    asks' = IF outcome = "answered" THEN (asks \ {r}) \cup {[r EXCEPT !.left = @ \ {m}]} ELSE asks \ {r}

RemoveModel(r, m, outcome) ==
    /\ r.kind = "remove" /\ m \in r.left
    /\ Writes([engine EXCEPT !.models[m] = NoId], outcome)
    /\ Proceeds(r, m, outcome) /\ UNCHANGED <<here, page, writes>>

RemoveLast(r, outcome) ==
    /\ r.kind = "remove" /\ r.left = {}
    /\ Writes([engine EXCEPT !.endpoints = @ \ {r.endpoint}], outcome)
    /\ asks' = (asks \ {r}) \cup {[kind |-> "write", n |-> r.n, dialog |-> "delete endpoint",
                                   ok |-> outcome = "answered"]}
    /\ UNCHANGED <<here, page, writes>>

-----------------------------------------------------------------------------
(* Routing: the settings are read and written back as a whole. *)

updateRouting(slot, p) ==
    /\ Sends /\ page.dialog = "none" /\ page.shown.presets # {}
    /\ p \in page.shown.presets \cup {NoId} /\ p # page.shown.routing[slot]
    /\ page' = [page EXCEPT !.shown.routing[slot] = p]
    /\ asks' = asks \cup {[kind |-> "route", n |-> FreeNumber, slot |-> slot, preset |-> p,
                           current |-> engine.routing]}
    /\ UNCHANGED <<engine, here>>

\* What was read goes back with the one slot changed; a failure leaves the page as it is.
RoutePut(r, ok) ==
    /\ r.kind = "route" /\ asks' = asks \ {r}
    /\ engine' = IF ok THEN [engine EXCEPT !.routing = [r.current EXCEPT ![r.slot] = r.preset]] ELSE engine
    /\ UNCHANGED <<here, page, writes>>

LeavePage == here /\ here' = FALSE /\ page' = Fresh /\ UNCHANGED <<engine, asks, writes>>

LlmNext ==
    \/ \E e \in Endpoints \cup {NoId} : openEndpoint(e) \/ openCreateModel(e) \/ PickConnection(e)
    \/ \E m \in Models : openEditModel(m)
    \/ \E p \in Presets \cup {NoId} : openProfile(p)
    \/ \E d \in Dialogs, of \in Endpoints \cup Models \cup Presets : AskDeletion(d, of)
    \/ CloseDialog \/ removeEndpoint \/ LeavePage
    \/ \E outcome \in Outcomes : \/ \E e \in Endpoints : submitEndpoint(e, outcome)
                                 \/ \E m \in Models : submitModel(m, outcome)
                                 \/ \E p \in Presets : submitProfile(p, outcome)
                                 \/ removeModel(outcome) \/ removeProfile(outcome)
                                 \/ \E r \in asks : RemoveLast(r, outcome)
                                 \/ \E r \in asks, m \in Models : RemoveModel(r, m, outcome)
    \/ \E slot \in Slots, p \in Presets \cup {NoId} : updateRouting(slot, p)
    \/ \E r \in asks, ok \in BOOLEAN : TablesReply(r, ok) \/ LimitReply(r, ok) \/ RoutePut(r, ok)
    \/ \E r \in asks : WriteReply(r)

-----------------------------------------------------------------------------

\* A row that shows "Checking inference usage" waits for an answer or for its timeout,
\* however loads, removals and answers of former loads follow on each other: no spinner
\* stays (fetchInferenceLimits).
SpinnersEnd ==
    \A e \in page.limitLoading : \E r \in asks : r.kind = "limit" /\ r.endpoint = e

\* An endpoint goes only after every model that the page listed with it when its removal
\* was confirmed, also when a deletion fails halfway, its answer is lost, the lists change
\* or the page is left: "This removes the endpoint and all its models" (removeEndpoint).
ListedModelsGoFirst ==
    [][\A e \in engine.endpoints \ engine'.endpoints :
         \E r \in asks : /\ r.kind = "remove" /\ r.endpoint = e
                         /\ \A m \in r.listed : engine.models[m] = NoId]_llmVars
=============================================================================
