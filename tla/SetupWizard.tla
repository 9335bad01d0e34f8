------------------------------ MODULE SetupWizard ------------------------------
(***************************************************************************)
(* The setup wizard, in its two shells: SetupWizard of the web client and  *)
(* useWizardController of the XP desktop run the same steps over the same  *)
(* form.  A form field is abstracted to whether it holds what the buttons  *)
(* ask for; a field that only the button of its own step asks for (the     *)
(* node URL, the recovery phrase, the balance, the Telegram and the mail   *)
(* fields) is an input of that button, which the user can always satisfy.  *)
(* Closing the wizard throws its state away.                               *)
(*                                                                         *)
(* Requests are answered or fail in any order, also after the wizard was   *)
(* closed.  Loading a list of models makes a temporary connection on the   *)
(* server, lists its models and deletes it again.  The deletion is asked   *)
(* for once and its failure is swallowed; a creation the server did and    *)
(* whose answer is lost looks like a failed one.  Both leave a connection  *)
(* behind, and lost remembers which.                                       *)
(***************************************************************************)
EXTENDS Naturals, Sequences, SequencesExt, FiniteSets, Filters

CONSTANTS Modes,      \* "full", "resume"
          Extras,     \* sets of channels a configuration may hold
          MaxLoads,   \* bound on the loads of models in flight
          MaxLost     \* bound on the connections that failed requests leave behind

ASSUME SetupAssumption ==
    /\ Modes \subseteq {"full", "resume"} /\ MaxLoads \in Nat /\ MaxLost \in Nat
    /\ Extras # {} /\ Extras \subseteq SUBSET {"telegram", "email"}

VARIABLES skips,        \* the steps a resumed wizard leaves out; none in the full mode
          inferenced,   \* gonkaConfig.inferencedAvailable
          stepId,
          form,         \* the fields of State
          submitting,
          available,    \* availableModels is not null
          loadingModels,
          autoLoaded,   \* gonkaAutoLoadedRef
          timer,        \* the timeout of the openai step is pending
          loads,        \* loads of models in flight: number -> its request
          call,         \* the requests in flight of create, import and complete
          temps,        \* server: the temporary connections, each the number of its load
          lost,         \* those whose creation was not answered, or whose deletion failed
          mounted, done

draftVars == <<stepId, form, submitting>>
modelVars == <<available, loadingModels, autoLoaded, timer, loads, temps, lost>>
constVars == <<skips, inferenced>>
setupVars == <<constVars, draftVars, modelVars, call, mounted, done>>

StepIds == {"provider", "openai", "wallet-choice", "wallet-import", "wallet-create",
            "wallet-reveal", "wallet-balance", "gonka-models", "telegram", "email", "finish"}

\* rows: no model at all, models but no chat model, or a chat model.
Form == [provider : {"openai", "gonka"}, url : BOOLEAN, rows : {"empty", "other", "chat"},
         walletMode : {"create", "import"}, wallet : BOOLEAN, ack : BOOLEAN]

\* saved: provider.source is db; ready: the provider's URL and key are set; extras: the
\* channels that are configured.
Config == [provider : {"openai", "gonka"}, saved : BOOLEAN, ready : BOOLEAN, chat : BOOLEAN,
           extras : Extras]

-----------------------------------------------------------------------------
(* The steps. *)

buildFullPath ==
    IF form.provider = "openai" THEN <<"provider", "openai", "telegram", "email", "finish">>
    ELSE <<"provider", "wallet-choice">>
         \o (IF form.walletMode = "import" THEN <<"wallet-import">>
             ELSE IF inferenced THEN <<"wallet-create", "wallet-reveal">> ELSE <<"wallet-create">>)
         \o <<"wallet-balance", "gonka-models", "telegram", "email", "finish">>

\* deriveStatus: the required steps of the configuration that are done, or missing.
Required(cfg) ==
    IF cfg.provider = "openai"
    THEN <<<<"provider", cfg.saved>>, <<"openai", cfg.ready /\ cfg.chat>>>>
    ELSE <<<<"provider", cfg.saved>>, <<"wallet-choice", cfg.ready>>, <<"gonka-models", cfg.chat>>>>

Missing(cfg) == Kept(Required(cfg), {i \in DOMAIN Required(cfg) : ~Required(cfg)[i][2]})

DoneSteps(cfg) == {s[1] : s \in {t \in ToSet(Required(cfg)) : t[2]}} \cup cfg.extras

\* A full wizard, and a resumed one with nothing done, walks the full path.
path ==
    LET full == buildFullPath
        left == Kept(full, {i \in DOMAIN full : full[i] \notin skips})
    IN  IF skips = {} \/ Len(left) <= 1 THEN full ELSE left

\* A step that is not on the path counts as the first one.
currentIdx ==
    LET steps == path
    IN  IF stepId \in ToSet(steps) THEN CHOOSE i \in DOMAIN steps : steps[i] = stepId ELSE 1

\* Mutant: the models are optional.
isNextDisabled_NoModels(filled) ==
    CASE stepId \in {"wallet-create", "wallet-import"} -> TRUE
      [] stepId = "wallet-reveal" -> ~form.ack
      [] stepId \in {"wallet-balance", "telegram", "email"} -> ~filled
      [] OTHER -> FALSE

\* filled: the balance is enough or the warning is waved away; Telegram is skipped, linked
\* or has a known token; mail is skipped or complete.
isNextDisabled(filled) ==
    CASE stepId = "openai"        -> ~form.url \/ form.rows # "chat"
      [] stepId \in {"wallet-create", "wallet-import"} -> TRUE
      [] stepId = "wallet-reveal" -> ~form.ack
      [] stepId = "gonka-models"  -> form.rows # "chat"
      [] stepId \in {"wallet-balance", "telegram", "email"} -> ~filled
      [] OTHER -> FALSE

canBack == currentIdx > 1 /\ stepId # "wallet-reveal"

initialState(cfg) ==
    [provider |-> cfg.provider, url |-> cfg.provider = "openai" /\ cfg.ready,
     rows |-> IF cfg.chat THEN "chat" ELSE "empty", walletMode |-> "create", wallet |-> FALSE,
     ack |-> FALSE]

Blank == initialState([provider |-> "openai", saved |-> FALSE, ready |-> FALSE, chat |-> FALSE,
                        extras |-> {}])

\* SetupPage resumes only a configuration that misses a step, at the first of them.
SetupInit ==
    /\ inferenced \in BOOLEAN
    /\ \E mode \in Modes, resolved \in Config :
         /\ mode = "resume" => Missing(resolved) # <<>>
         /\ skips = IF mode = "resume" THEN DoneSteps(resolved) ELSE {}
         /\ form = initialState(resolved)
         /\ stepId = IF mode = "resume" THEN Missing(resolved)[1][1] ELSE "provider"
    /\ submitting = FALSE /\ available = FALSE /\ loadingModels = FALSE
    /\ autoLoaded = FALSE /\ timer = (stepId = "openai" /\ form.url)
    /\ loads = {} /\ call = {} /\ temps = {} /\ lost = {}
    /\ mounted = TRUE /\ done = FALSE

-----------------------------------------------------------------------------
(* Loading models. *)

FreeLoad ==
    CHOOSE n \in 1..(MaxLoads + MaxLost + 1) : n \notin temps /\ \A l \in loads : l.n # n

\* loadModels begins.
Begins(ls) == ls \cup {[n |-> FreeLoad, st |-> "create", ok |-> TRUE]}

\* gonka-models loads its models by itself, once.
AutoLoads(step, f, loading) ==
    /\ step = "gonka-models" /\ f.wallet /\ ~autoLoaded /\ ~available /\ ~loading
    /\ Cardinality(loads) < MaxLoads

\* The effects after a step or the form changed: the timer of the openai step starts
\* over, the list of another provider is dropped, and a new wallet may load again.
\* changed: the fields among the server URL and the private key that got another value.
Effects(step, f, changed) ==
    LET switched == f.provider # form.provider
        fresh == switched \/ "key" \in changed
        loadsNow == AutoLoads(step, f, loadingModels)
    IN  /\ stepId' = step /\ form' = f
        /\ timer' = IF step # stepId \/ "url" \in changed THEN step = "openai" /\ f.url ELSE timer
        /\ available' = (available /\ ~switched)
        /\ autoLoaded' = ((autoLoaded \/ loadsNow) /\ ~fresh)
        /\ loads' = IF loadsNow THEN Begins(loads) ELSE loads
        /\ loadingModels' = (loadingModels \/ loadsNow)
        /\ UNCHANGED <<temps, lost>>

\* The user acts on a mounted wizard.
Acts(step, f, changed) ==
    mounted /\ Effects(step, f, changed) /\ UNCHANGED <<constVars, submitting, call, mounted, done>>

autoFillFirstModel(f) == IF f.rows = "empty" THEN [f EXCEPT !.rows = "chat"] ELSE f

TimerFires ==
    /\ mounted /\ timer /\ Cardinality(loads) < MaxLoads
    /\ timer' = FALSE /\ loadingModels' = TRUE /\ loads' = Begins(loads)
    /\ UNCHANGED <<constVars, draftVars, available, autoLoaded, temps, lost, call, mounted, done>>

onReloadGonkaModels ==
    /\ mounted /\ stepId = "gonka-models" /\ ~loadingModels /\ Cardinality(loads) < MaxLoads
    /\ loadingModels' = TRUE /\ loads' = Begins(loads)
    /\ UNCHANGED <<constVars, draftVars, available, autoLoaded, timer, temps, lost, call, mounted, done>>

\* The load ends: a list fills in the first model, and gonka-models may load again.
LoadEnds(l, ok) ==
    LET f == IF ok /\ mounted THEN autoFillFirstModel(form) ELSE form
        again == mounted /\ AutoLoads(stepId, f, FALSE)
    IN  /\ form' = f
        /\ loads' = IF again THEN Begins(loads \ {l}) ELSE loads \ {l}
        /\ loadingModels' = IF mounted THEN again ELSE loadingModels
        /\ autoLoaded' = (autoLoaded \/ again)

MayLose == Cardinality(lost) < MaxLost

\* The server makes the temporary connection, or the request fails: the connection may have
\* been made all the same, and the load ends before the inner try that would delete it.
CreateTemp(l) ==
    /\ l.st = "create"
    /\ \/ /\ temps' = temps \cup {l.n} /\ loads' = (loads \ {l}) \cup {[l EXCEPT !.st = "list"]}
          /\ UNCHANGED <<form, loadingModels, autoLoaded, lost>>
       \/ LoadEnds(l, FALSE) /\ UNCHANGED <<temps, lost>>
       \/ MayLose /\ LoadEnds(l, FALSE) /\ temps' = temps \cup {l.n} /\ lost' = lost \cup {l.n}
    /\ UNCHANGED <<constVars, stepId, submitting, available, timer, call, mounted, done>>

\* Mutant: the connection is deleted only when its models could be listed.
AfterList_NoFinally(l, ok) ==
    IF ok THEN (loads \ {l}) \cup {[l EXCEPT !.st = "delete"]} ELSE loads \ {l}

\* The finally deletes it whether or not the models could be listed.
AfterList(l, ok) == (loads \ {l}) \cup {[l EXCEPT !.st = "delete", !.ok = ok]}

ListTemp(l) ==
    /\ l.st = "list"
    /\ \E ok \in BOOLEAN : /\ loads' = AfterList(l, ok)
                           /\ available' = (available \/ (ok /\ mounted))
    /\ UNCHANGED <<constVars, draftVars, autoLoaded, timer, loadingModels, temps, lost, call,
                   mounted, done>>

\* A failed delete is swallowed: the load ends like any other and the connection stays.
DeleteTemp(l) ==
    /\ l.st = "delete"
    /\ LoadEnds(l, l.ok)
    /\ \/ temps' = temps \ {l.n} /\ UNCHANGED lost
       \/ MayLose /\ lost' = lost \cup {l.n} /\ UNCHANGED temps
    /\ UNCHANGED <<constVars, stepId, submitting, available, timer, call, mounted, done>>

-----------------------------------------------------------------------------
(* The user. *)

goNext(filled) ==
    /\ stepId # "finish" /\ ~isNextDisabled(filled) /\ currentIdx < Len(path)
    /\ Acts(path[currentIdx + 1], form, {})

goBack == canBack /\ Acts(path[currentIdx - 1], form, {})

\* Gonka cannot be picked where the server has no inferenced.
onProviderSelect(p) ==
    /\ stepId = "provider" /\ p # form.provider /\ (p = "gonka" => inferenced)
    /\ Acts(stepId, [form EXCEPT !.provider = p, !.rows = "empty"], {})

onWalletModeSelect(m) ==
    /\ stepId = "wallet-choice" /\ m # form.walletMode /\ (m = "create" => inferenced)
    /\ Acts(stepId, [form EXCEPT !.walletMode = m], {})

TypeUrl(b) == stepId = "openai" /\ Acts(stepId, [form EXCEPT !.url = b], {"url"})

\* The private key of an existing wallet, which Connect then asks the address of.
TypeKey(b) == stepId = "wallet-import" /\ Acts(stepId, [form EXCEPT !.wallet = b], {"key"})

\* ModelEditor: a model is selected or removed, or its role is changed.
EditModels(rows) ==
    /\ stepId \in {"openai", "gonka-models"} /\ rows # form.rows
    /\ Acts(stepId, [form EXCEPT !.rows = rows], {})

Acknowledge == stepId = "wallet-reveal" /\ Acts(stepId, [form EXCEPT !.ack = ~form.ack], {})

Complete == form.rows = "chat" /\ (form.provider = "openai" => form.url)

Sends(op) ==
    /\ mounted /\ ~submitting /\ submitting' = TRUE
    /\ call' = call \cup {op}
    /\ UNCHANGED <<constVars, stepId, form, modelVars, mounted, done>>

onCreateWallet == stepId = "wallet-create" /\ inferenced /\ Sends("create")

\* A phrase is imported, a private key only has its address derived.
onUseExisting(op) ==
    stepId = "wallet-import" /\ (op = "derive" => form.wallet) /\ Sends(op)

onCompleteClick == stepId = "finish" /\ Sends("update")

\* The component is gone and its state with it; what it sent is still on its way.
Unmounts ==
    /\ mounted' = FALSE /\ timer' = FALSE
    /\ stepId' = "provider" /\ form' = Blank
    /\ available' = FALSE /\ loadingModels' = FALSE /\ autoLoaded' = FALSE
    /\ UNCHANGED <<constVars, loads, temps, lost>>

CloseWizard ==
    /\ mounted /\ Unmounts
    /\ submitting' = FALSE
    /\ UNCHANGED <<call, done>>

-----------------------------------------------------------------------------
(* The answers. *)

\* Mutant: the answer of a wallet request leaves the buttons busy.
Settles_OnlySave(op) ==
    /\ op \in call /\ call' = call \ {op}
    /\ submitting' = (submitting /\ op # "apply")

\* The finally of the handler.
Settles(op) ==
    /\ op \in call /\ call' = call \ {op}
    /\ submitting' = FALSE

Unmounted == UNCHANGED <<stepId, form, modelVars>>

\* A new wallet must be acknowledged again; the step changes wherever the user is.
CreateReply ==
    /\ Settles("create")
    /\ IF mounted THEN Effects("wallet-reveal", [form EXCEPT !.wallet = TRUE, !.ack = FALSE], {"key"})
       ELSE Unmounted
    /\ UNCHANGED <<constVars, mounted, done>>

ImportReply(op) ==
    /\ Settles(op)
    /\ IF ~mounted THEN Unmounted
       ELSE IF op = "import" THEN Effects("wallet-balance", [form EXCEPT !.wallet = TRUE], {"key"})
       ELSE Effects("wallet-balance", form, {})
    /\ UNCHANGED <<constVars, mounted, done>>

UpdateReply ==
    /\ "update" \in call /\ call' = (call \ {"update"}) \cup {"apply"}
    /\ UNCHANGED <<constVars, draftVars, modelVars, mounted, done>>

\* onDone is called also by a wizard that was closed meanwhile.
ApplyReply ==
    /\ Settles("apply")
    /\ done' = TRUE /\ Unmounts

CallFails(op) ==
    /\ Settles(op)
    /\ UNCHANGED <<constVars, stepId, form, modelVars, mounted, done>>

SetupNext ==
    \/ \E filled \in BOOLEAN : goNext(filled)
    \/ goBack
    \/ \E p \in {"openai", "gonka"} : onProviderSelect(p)
    \/ \E m \in {"create", "import"} : onWalletModeSelect(m)
    \/ \E b \in BOOLEAN : TypeUrl(b) \/ TypeKey(b)
    \/ \E rows \in {"empty", "other", "chat"} : EditModels(rows)
    \/ Acknowledge
    \/ onCreateWallet \/ onCompleteClick \/ CloseWizard
    \/ TimerFires \/ onReloadGonkaModels
    \/ \E l \in loads : CreateTemp(l) \/ ListTemp(l) \/ DeleteTemp(l)
    \/ CreateReply \/ UpdateReply \/ ApplyReply
    \/ \E op \in {"import", "derive"} : onUseExisting(op) \/ ImportReply(op)
    \/ \E op \in call : CallFails(op)

-----------------------------------------------------------------------------

SetupTypeOK ==
    /\ stepId \in StepIds /\ form \in Form /\ skips \subseteq StepIds
    /\ call \subseteq {"create", "import", "derive", "update", "apply"}

\* One request of the wizard's buttons at a time, and the buttons are busy exactly while
\* it is under way, wherever the user walked meanwhile (submitting of both shells).
OneSubmission ==
    /\ Cardinality(call) <= 1
    /\ mounted => (submitting <=> call # {})

\* Every temporary connection on the server belongs to a load that will ask for its deletion,
\* also when its models could not be listed or the wizard was closed; the exceptions are the
\* ones loadModels gives up: a creation that was not answered and a deletion that failed.
TempsAreAccountedFor == \A n \in temps \ lost : \E l \in loads : l.n = n /\ l.st # "create"

Saving == call \cap {"update", "apply"} # {}

Stage == IF done THEN "done"
         ELSE IF mounted THEN IF Saving THEN "saving" ELSE "open"
         ELSE IF Saving THEN "left" ELSE "closed"

\* A wizard that resumes skips the steps its configuration has done and promises nothing.
Flow == INSTANCE SetupFlow WITH stage <- Stage, complete <- (skips # {} \/ Complete)

\* Both wizards save complete drafts only, one at a time, and are done only after a save.
ImplementsSetupFlow == Flow!FlowSpec
=============================================================================
