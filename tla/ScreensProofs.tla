---------------------------- MODULE ScreensProofs ----------------------------
(***************************************************************************)
(* Proofs about the setup wizard, its Telegram step, the plans page, the   *)
(* canvas a plan is drawn on and the icons of the XP desktop: for any      *)
(* modes, channels, tokens, accounts, plans, stored graphs and icons, and  *)
(* any number of requests.                                                 *)
(***************************************************************************)
EXTENDS SetupWizard, TelegramStep, PlansPage, PlanCanvas, DesktopIcons, FilterLemmas

-----------------------------------------------------------------------------
(* SetupWizard. *)

SetupSpec == SetupInit /\ [][SetupNext]_setupVars

-----------------------------------------------------------------------------
(* The buttons that submit. *)

SubmitInv ==
    /\ call = {} \/ \E op : call = {op}
    /\ mounted => (submitting <=> call # {})

LEMMA SendsKeeps ==
  ASSUME SubmitInv, NEW op, Sends(op)
  PROVE  SubmitInv'
  BY DEF SubmitInv, Sends

LEMMA SettlesKeeps ==
  ASSUME SubmitInv, NEW op, Settles(op)
  PROVE  SubmitInv'
  BY DEF SubmitInv, Settles

LEMMA StillSubmits ==
  ASSUME SubmitInv, UNCHANGED <<submitting, call, mounted>>
  PROVE  SubmitInv'
  BY DEF SubmitInv

LEMMA SubmitInductive == SetupSpec => []SubmitInv
<1>1. SetupInit => SubmitInv
  BY DEF SetupInit, SubmitInv
<1>2. SubmitInv /\ [SetupNext]_setupVars => SubmitInv'
  <2> SUFFICES ASSUME SubmitInv, [SetupNext]_setupVars PROVE SubmitInv'
    OBVIOUS
  <2>1. ASSUME NEW step, NEW f, NEW changed, Acts(step, f, changed) PROVE SubmitInv'
    BY <2>1, StillSubmits DEF Acts
  <2>2. CASE \/ \E filled \in BOOLEAN : goNext(filled)
             \/ goBack
             \/ \E p \in {"openai", "gonka"} : onProviderSelect(p)
             \/ \E m \in {"create", "import"} : onWalletModeSelect(m)
             \/ \E b \in BOOLEAN : TypeUrl(b) \/ TypeKey(b)
             \/ \E rows \in {"empty", "other", "chat"} : EditModels(rows)
             \/ Acknowledge
    BY <2>1, <2>2 DEF goNext, goBack, onProviderSelect, onWalletModeSelect, TypeUrl, TypeKey,
                      EditModels, Acknowledge
  <2>3. CASE onCreateWallet \/ onCompleteClick \/ \E op \in {"import", "derive"} : onUseExisting(op)
    BY <2>3, SendsKeeps DEF onCreateWallet, onCompleteClick, onUseExisting
  <2>4. CASE CloseWizard
    BY <2>4 DEF CloseWizard, Unmounts, SubmitInv
  <2>5. CASE TimerFires \/ onReloadGonkaModels
    BY <2>5, StillSubmits DEF TimerFires, onReloadGonkaModels, draftVars
  <2>6. CASE \E l \in loads : CreateTemp(l) \/ ListTemp(l) \/ DeleteTemp(l)
    BY <2>6, StillSubmits DEF CreateTemp, ListTemp, DeleteTemp, draftVars
  <2>7. CASE CreateReply \/ ApplyReply \/ (\E op \in {"import", "derive"} : ImportReply(op))
               \/ \E op \in call : CallFails(op)
    BY <2>7, SettlesKeeps DEF CreateReply, ApplyReply, ImportReply, CallFails
  <2>8. CASE UpdateReply
    BY <2>8 DEF UpdateReply, draftVars, SubmitInv
  <2>9. CASE UNCHANGED setupVars
    BY <2>9, StillSubmits DEF setupVars, draftVars
  <2> QED
    BY <2>2, <2>3, <2>4, <2>5, <2>6, <2>7, <2>8, <2>9 DEF SetupNext
<1> QED
  BY <1>1, <1>2, PTL DEF SetupSpec

\* Whatever the user does and whichever answers are late, lost or follow on a closed wizard,
\* there is at most one submission, and the buttons are busy exactly while there is one.
THEOREM SubmitsOneAtATime == SetupSpec => []OneSubmission
<1>1. SubmitInv => OneSubmission
  <2>1. Cardinality({}) = 0 /\ \A op : Cardinality({op}) = 1
    BY FS_EmptySet, FS_Singleton
  <2> QED
    BY <2>1 DEF SubmitInv, OneSubmission
<1> QED
  BY <1>1, SubmitInductive, PTL

-----------------------------------------------------------------------------
(* The temporary connections. *)

LoadShape(l) == l = [n |-> l.n, st |-> l.st, ok |-> l.ok]

TempsInv == (\A l \in loads : LoadShape(l)) /\ TempsAreAccountedFor

\* A load that begins has made no connection yet.
LEMMA BeginsKeeps ==
  ASSUME NEW ls, \A l \in ls : LoadShape(l), NEW ts, \A n \in ts : \E l \in ls : l.n = n /\ l.st # "create",
         loads' \in {ls, Begins(ls)}, (temps \ lost)' \subseteq ts
  PROVE  TempsInv'
<1> DEFINE new == [n |-> FreeLoad, st |-> "create", ok |-> TRUE]
<1>1. loads' = ls \/ loads' = ls \cup {new}
  BY DEF Begins
<1>2. LoadShape(new)
  BY DEF LoadShape
<1> HIDE DEF new
<1> QED
  BY <1>1, <1>2 DEF TempsInv, TempsAreAccountedFor

LEMMA EffectsKeeps ==
  ASSUME TempsInv, NEW step, NEW f, NEW changed, Effects(step, f, changed)
  PROVE  TempsInv'
<1>1. loads' \in {loads, Begins(loads)} /\ temps' = temps /\ lost' = lost
  BY DEF Effects
<1> QED
  BY <1>1, BeginsKeeps DEF TempsInv, TempsAreAccountedFor

LEMMA StillAccounted ==
  ASSUME TempsInv, UNCHANGED <<loads, temps, lost>>
  PROVE  TempsInv'
  BY DEF TempsInv, TempsAreAccountedFor

LEMMA CreateTempKeeps ==
  ASSUME TempsInv, NEW l \in loads, CreateTemp(l)
  PROVE  TempsInv'
<1> DEFINE next == [l EXCEPT !.st = "list"]
<1>1. \/ temps' = temps \cup {l.n} /\ lost' = lost /\ loads' = (loads \ {l}) \cup {next}
      \/ (temps \ lost)' \subseteq temps \ lost /\ loads' \in {loads \ {l}, Begins(loads \ {l})}
  BY DEF CreateTemp, LoadEnds
<1>2. LoadShape(next) /\ next.n = l.n /\ next.st = "list" /\ l.st = "create"
  BY DEF TempsInv, LoadShape, CreateTemp
<1> HIDE DEF next
<1>3. CASE temps' = temps \cup {l.n} /\ lost' = lost /\ loads' = (loads \ {l}) \cup {next}
  BY <1>2, <1>3 DEF TempsInv, TempsAreAccountedFor
<1>4. CASE (temps \ lost)' \subseteq temps \ lost /\ loads' \in {loads \ {l}, Begins(loads \ {l})}
  <2>1. \A n \in temps \ lost : \E k \in loads \ {l} : k.n = n /\ k.st # "create"
    BY <1>2 DEF TempsInv, TempsAreAccountedFor
  <2> QED
    BY <1>4, <2>1, BeginsKeeps DEF TempsInv
<1> QED
  BY <1>1, <1>3, <1>4

LEMMA ListTempKeeps ==
  ASSUME TempsInv, NEW l \in loads, ListTemp(l)
  PROVE  TempsInv'
<1>1. PICK ok \in BOOLEAN : loads' = AfterList(l, ok)
  BY DEF ListTemp
<1> DEFINE next == [l EXCEPT !.st = "delete", !.ok = ok]
<1>2. loads' = (loads \ {l}) \cup {next} /\ temps' = temps /\ lost' = lost
  BY <1>1 DEF AfterList, ListTemp
<1>3. LoadShape(next) /\ next.n = l.n /\ next.st = "delete"
  <2> DEFINE gone == [l EXCEPT !.st = "delete"]
  <2>1. LoadShape(gone) /\ gone.n = l.n /\ gone.st = "delete"
    BY DEF TempsInv, LoadShape
  <2>2. next = [gone EXCEPT !.ok = ok]
    OBVIOUS
  <2> HIDE DEF gone, next
  <2> QED
    BY <2>1, <2>2 DEF LoadShape
<1> HIDE DEF next
<1> QED
  BY <1>2, <1>3 DEF TempsInv, TempsAreAccountedFor

LEMMA DeleteTempKeeps ==
  ASSUME TempsInv, NEW l \in loads, DeleteTemp(l)
  PROVE  TempsInv'
<1> DEFINE rest == (temps \ lost) \ {l.n}
<1>1. (temps \ lost)' \subseteq rest /\ loads' \in {loads \ {l}, Begins(loads \ {l})}
  BY DEF DeleteTemp, LoadEnds
<1>2. \A n \in rest : \E k \in loads \ {l} : k.n = n /\ k.st # "create"
  BY DEF TempsInv, TempsAreAccountedFor
<1>3. \A k \in loads \ {l} : LoadShape(k)
  BY DEF TempsInv
<1> HIDE DEF rest
<1> QED
  BY <1>1, <1>2, <1>3, BeginsKeeps

LEMMA TempsInductive == SetupSpec => []TempsInv
<1>1. SetupInit => TempsInv
  BY DEF SetupInit, TempsInv, TempsAreAccountedFor
<1>2. TempsInv /\ [SetupNext]_setupVars => TempsInv'
  <2> SUFFICES ASSUME TempsInv, [SetupNext]_setupVars PROVE TempsInv'
    OBVIOUS
  <2>1. ASSUME NEW step, NEW f, NEW changed, Acts(step, f, changed) PROVE TempsInv'
    BY <2>1, EffectsKeeps DEF Acts
  <2>2. CASE \/ \E filled \in BOOLEAN : goNext(filled)
             \/ goBack
             \/ \E p \in {"openai", "gonka"} : onProviderSelect(p)
             \/ \E m \in {"create", "import"} : onWalletModeSelect(m)
             \/ \E b \in BOOLEAN : TypeUrl(b) \/ TypeKey(b)
             \/ \E rows \in {"empty", "other", "chat"} : EditModels(rows)
             \/ Acknowledge
    BY <2>1, <2>2 DEF goNext, goBack, onProviderSelect, onWalletModeSelect, TypeUrl, TypeKey,
                      EditModels, Acknowledge
  <2>3. CASE onCreateWallet \/ onCompleteClick \/ \E op \in {"import", "derive"} : onUseExisting(op)
    BY <2>3, StillAccounted DEF onCreateWallet, onCompleteClick, onUseExisting, Sends, modelVars
  <2>4. CASE CloseWizard \/ ApplyReply
    BY <2>4, StillAccounted DEF CloseWizard, ApplyReply, Unmounts
  <2>5. CASE TimerFires \/ onReloadGonkaModels
    <3>1. loads' = Begins(loads) /\ temps' = temps /\ lost' = lost
      BY <2>5 DEF TimerFires, onReloadGonkaModels
    <3> QED
      BY <3>1, BeginsKeeps DEF TempsInv, TempsAreAccountedFor
  <2>6. CASE \E l \in loads : CreateTemp(l) \/ ListTemp(l) \/ DeleteTemp(l)
    BY <2>6, CreateTempKeeps, ListTempKeeps, DeleteTempKeeps
  <2>7. CASE CreateReply
    BY <2>7, EffectsKeeps, StillAccounted DEF CreateReply, Unmounted, modelVars
  <2>8. ASSUME NEW op \in {"import", "derive"}, ImportReply(op) PROVE TempsInv'
    BY <2>8, EffectsKeeps, StillAccounted DEF ImportReply, Unmounted, modelVars
  <2>9. CASE UpdateReply \/ \E op \in call : CallFails(op)
    BY <2>9, StillAccounted DEF UpdateReply, CallFails, modelVars
  <2>10. CASE UNCHANGED setupVars
    BY <2>10, StillAccounted DEF setupVars, modelVars
  <2> QED
    BY <2>2, <2>3, <2>4, <2>5, <2>6, <2>7, <2>8, <2>9, <2>10 DEF SetupNext
<1> QED
  BY <1>1, <1>2, PTL DEF SetupSpec

\* With any number of loads under way, ending in any order, failing at any of their steps and
\* outliving the wizard, the only temporary connections that no load past its creation will ask
\* to delete are the ones whose creation was not answered or whose deletion failed.
THEOREM NoTempIsForgotten == SetupSpec => []TempsAreAccountedFor
<1>1. TempsInv => TempsAreAccountedFor
  BY DEF TempsInv
<1> QED
  BY <1>1, TempsInductive, PTL

-----------------------------------------------------------------------------
(* The draft. *)

\* The steps a full wizard reaches only past the provider's own step.
Late == {"telegram", "email", "finish"}

\* A full wizard that is past the provider's steps has a draft that can be saved.
DraftInv == form \in Form /\ (skips = {} /\ stepId \in Late => Complete)

LEMMA Joined ==
  ASSUME NEW T, NEW s \in Seq(T), NEW t \in Seq(T)
  PROVE  /\ s \o t \in Seq(T) /\ Len(s) \in Nat /\ Len(t) \in Nat
         /\ Len(s \o t) = Len(s) + Len(t) /\ DOMAIN (s \o t) = 1..(Len(s) + Len(t))
         /\ \A j \in 1..Len(s) : (s \o t)[j] = s[j] /\ s[j] \in T
         /\ \A j \in 1..Len(t) : (s \o t)[Len(s) + j] = t[j]
OBVIOUS

\* The steps of a wallet come before the last steps of the path.
Early == {"provider", "wallet-choice", "wallet-import", "wallet-create", "wallet-reveal"}
LastSteps == <<"wallet-balance", "gonka-models", "telegram", "email", "finish">>

LEMMA WalletPath ==
  ASSUME form.provider # "openai"
  PROVE  \E s \in Seq(Early) : Len(s) >= 2 /\ buildFullPath = s \o LastSteps
<1> DEFINE start == <<"provider", "wallet-choice">>
           wallet == IF form.walletMode = "import" THEN <<"wallet-import">>
                     ELSE IF inferenced THEN <<"wallet-create", "wallet-reveal">> ELSE <<"wallet-create">>
<1>1. start \in Seq(Early) /\ Len(start) = 2
  BY DEF Early
<1>2. wallet \in Seq(Early)
  <2>1. <<"wallet-import">> \in Seq(Early) /\ <<"wallet-create">> \in Seq(Early)
    BY DEF Early
  <2>2. <<"wallet-create", "wallet-reveal">> \in Seq(Early)
    BY DEF Early
  <2> QED
    BY <2>1, <2>2
<1>3. buildFullPath = (start \o wallet) \o LastSteps
  BY DEF buildFullPath, LastSteps
<1> HIDE DEF start, wallet
<1>4. /\ start \o wallet \in Seq(Early) /\ Len(wallet) \in Nat
      /\ Len(start \o wallet) = Len(start) + Len(wallet)
  BY <1>1, <1>2, Joined
<1>5. Len(start \o wallet) >= 2
  BY <1>1, <1>4
<1> QED
  BY <1>3, <1>4, <1>5

LEMMA FullPathIsList == buildFullPath \in Seq(StepIds)
<1>1. CASE form.provider = "openai"
  BY <1>1 DEF buildFullPath, StepIds
<1>2. CASE form.provider # "openai"
  <2>1. PICK s \in Seq(Early) : buildFullPath = s \o LastSteps
    BY <1>2, WalletPath
  <2>2. s \in Seq(StepIds) /\ LastSteps \in Seq(StepIds)
    BY DEF Early, StepIds, LastSteps
  <2> QED
    BY <2>1, <2>2
<1> QED
  BY <1>1, <1>2

\* Where the late steps are: behind the last step of the provider, one after the other.
LEMMA LateSteps ==
  ASSUME NEW i \in DOMAIN buildFullPath, i + 1 \in DOMAIN buildFullPath
  PROVE  /\ buildFullPath[i + 1] \in Late =>
              \/ buildFullPath[i] \in Late
              \/ buildFullPath[i] = IF form.provider = "openai" THEN "openai" ELSE "gonka-models"
         /\ buildFullPath[i] \in Late => buildFullPath[i + 1] \in Late
         /\ buildFullPath[2] \notin Late
<1> DEFINE full == buildFullPath
<1>1. CASE form.provider = "openai"
  <2>1. /\ Len(full) = 5 /\ full[1] = "provider" /\ full[2] = "openai" /\ full[3] = "telegram"
        /\ full[4] = "email" /\ full[5] = "finish" /\ full \in Seq(StepIds)
    BY <1>1, FullPathIsList DEF buildFullPath
  <2> HIDE DEF full
  <2>2. i \in {1, 2, 3, 4}
    <3>1. i \in 1..5 /\ i + 1 \in 1..5
      BY <2>1 DEF full
    <3> QED
      BY <3>1
  <2> QED
    BY <1>1, <2>1, <2>2 DEF Late, full
<1>2. CASE form.provider # "openai"
  <2>1. PICK s \in Seq(Early) : Len(s) >= 2 /\ full = s \o LastSteps
    BY <1>2, WalletPath
  <2> DEFINE t == LastSteps
             k == Len(s)
  <2>2. /\ t \in Seq(StepIds) /\ Len(t) = 5 /\ t[1] = "wallet-balance" /\ t[2] = "gonka-models"
        /\ t[3] = "telegram" /\ t[4] = "email" /\ t[5] = "finish"
    BY DEF LastSteps, StepIds
  <2> HIDE DEF t
  <2>3. /\ k \in Nat /\ DOMAIN full = 1..(k + 5) /\ \A j \in 1..k : full[j] \in Early
        /\ \A j \in 1..5 : full[k + j] = t[j]
    <3>1. \A j \in 1..Len(s) : s[j] \in Early
      OBVIOUS
    <3> DEFINE T == Early \cup StepIds
    <3>2. s \in Seq(T) /\ t \in Seq(T)
      BY <2>2
    <3> HIDE DEF T
    <3>3. /\ Len(s) \in Nat /\ DOMAIN (s \o t) = 1..(Len(s) + Len(t))
          /\ \A j \in 1..Len(s) : (s \o t)[j] = s[j]
          /\ \A j \in 1..Len(t) : (s \o t)[Len(s) + j] = t[j]
      BY <3>2, Joined
    <3>4. full = s \o t
      BY <2>1 DEF t
    <3> QED
      BY <2>2, <3>1, <3>3, <3>4
  <2>4. k >= 2 /\ i \in Nat
    BY <2>1, <2>3
  <2> HIDE DEF full, k
  <2>5. /\ full[k + 1] = "wallet-balance" /\ full[k + 2] = "gonka-models"
        /\ full[k + 3] = "telegram" /\ full[k + 4] = "email" /\ full[k + 5] = "finish"
    BY <2>2, <2>3
  <2>6. \A j \in 1..k : full[j] \notin Late
    BY <2>3 DEF Early, Late
  <2>7. i + 1 <= k \/ i = k \/ i = k + 1 \/ i = k + 2 \/ i = k + 3 \/ i = k + 4
    BY <2>3, <2>4 DEF full
  <2>8. full[2] \notin Late
    BY <2>3, <2>4, <2>6
  <2>9. CASE i + 1 <= k
    <3>1. i \in 1..k /\ i + 1 \in 1..k
      BY <2>3, <2>4, <2>9 DEF full
    <3> QED
      BY <2>6, <2>8, <3>1 DEF full
  <2>10. CASE i = k
    <3>1. i \in 1..k
      BY <2>3, <2>4, <2>10
    <3> QED
      BY <2>5, <2>6, <2>8, <2>10, <3>1 DEF Late, full
  <2>11. CASE i = k + 1 \/ i = k + 2 \/ i = k + 3 \/ i = k + 4
    <3>1. i + 1 \in {k + 2, k + 3, k + 4, k + 5}
      BY <2>3, <2>11
    <3> QED
      BY <1>2, <2>3, <2>5, <2>8, <2>11, <3>1 DEF Late, full
  <2> QED
    BY <2>7, <2>9, <2>10, <2>11
<1> QED
  BY <1>1, <1>2

\* A wizard that skips nothing walks the full path.
LEMMA PathOfAll ==
  ASSUME skips = {}
  PROVE  path = buildFullPath
  BY DEF path

\* The place of the step on the path.
LEMMA Place ==
  ASSUME skips = {}
  PROVE  /\ path = buildFullPath
         /\ currentIdx = 1 \/ (currentIdx \in DOMAIN path /\ path[currentIdx] = stepId)
<1>1. path = buildFullPath
  BY PathOfAll
<1>2. ASSUME stepId \in ToSet(path) PROVE \E i \in DOMAIN path : path[i] = stepId
  BY <1>2 DEF ToSet
<1> QED
  BY <1>1, <1>2 DEF currentIdx

\* The button leads to a late step from the provider's last step, or from a late step.
LEMMA NextIsReady ==
  ASSUME DraftInv, NEW filled \in BOOLEAN, goNext(filled), skips = {}, stepId' \in Late
  PROVE  Complete
<1> DEFINE at == currentIdx
<1>1. /\ path = buildFullPath /\ buildFullPath \in Seq(StepIds)
      /\ at = 1 \/ (at \in DOMAIN path /\ path[at] = stepId)
      /\ stepId' = path[at + 1] /\ at < Len(path)
  BY Place, FullPathIsList DEF goNext, Acts, Effects
<1>2. stepId \in Late => Complete
  BY DEF DraftInv
<1>3. ~isNextDisabled(filled)
  BY DEF goNext
<1> HIDE DEF at
<1>4. at \in DOMAIN buildFullPath /\ at + 1 \in DOMAIN buildFullPath
  BY <1>1
<1>5. at # 1
  BY <1>1, <1>4, LateSteps
<1>6. stepId \in Late \/ stepId = IF form.provider = "openai" THEN "openai" ELSE "gonka-models"
  BY <1>1, <1>4, <1>5, LateSteps
<1> QED
  BY <1>2, <1>3, <1>6 DEF isNextDisabled, Complete, DraftInv, Form

LEMMA BackIsReady ==
  ASSUME DraftInv, goBack, skips = {}, stepId' \in Late
  PROVE  Complete
<1> DEFINE at == currentIdx
           to == at - 1
<1>1. /\ path = buildFullPath /\ buildFullPath \in Seq(StepIds)
      /\ at \in DOMAIN path /\ path[at] = stepId
      /\ stepId' = path[to] /\ at > 1
  BY Place, FullPathIsList DEF goBack, canBack, Acts, Effects
<1> HIDE DEF at
<1>2. to \in DOMAIN buildFullPath /\ to + 1 = at
  BY <1>1
<1> HIDE DEF to
<1>3. stepId \in Late
  BY <1>1, <1>2, LateSteps
<1> QED
  BY <1>3 DEF DraftInv

\* A draft that was complete is still complete once a list filled in its first model.
LEMMA FillKeeps ==
  ASSUME form \in Form
  PROVE  /\ autoFillFirstModel(form) \in Form
         /\ autoFillFirstModel(form).provider = form.provider
         /\ autoFillFirstModel(form).url = form.url
         /\ form.rows = "chat" => autoFillFirstModel(form).rows = "chat"
BY DEF autoFillFirstModel, Form

LEMMA SameDraft ==
  ASSUME DraftInv, UNCHANGED <<skips, stepId, form>>
  PROVE  DraftInv'
BY DEF DraftInv, Complete

\* On a step that is not a late one, any form will do.
LEMMA EarlyDraft ==
  ASSUME form' \in Form, stepId' \notin Late
  PROVE  DraftInv'
BY DEF DraftInv

LEMMA DraftStep ==
  ASSUME DraftInv, [SetupNext]_setupVars
  PROVE  DraftInv'
<1>1. form \in Form
  BY DEF DraftInv
<1>2. ASSUME NEW filled \in BOOLEAN, goNext(filled) PROVE DraftInv'
  <2>1. form' = form /\ skips' = skips
    BY <1>2 DEF goNext, Acts, Effects, constVars
  <2> QED
    BY <2>1, <1>2, NextIsReady DEF DraftInv, Complete
<1>3. CASE goBack
  <2>1. form' = form /\ skips' = skips
    BY <1>3 DEF goBack, Acts, Effects, constVars
  <2> QED
    BY <2>1, <1>3, BackIsReady DEF DraftInv, Complete
<1>4. CASE \/ \E p \in {"openai", "gonka"} : onProviderSelect(p)
           \/ \E m \in {"create", "import"} : onWalletModeSelect(m)
           \/ \E b \in BOOLEAN : TypeUrl(b) \/ TypeKey(b)
           \/ \E rows \in {"empty", "other", "chat"} : EditModels(rows)
           \/ Acknowledge
  <2>1. stepId' \notin Late
    BY <1>4 DEF onProviderSelect, onWalletModeSelect, TypeUrl, TypeKey, EditModels, Acknowledge,
                Acts, Effects, Late
  <2>2. ASSUME NEW p \in {"openai", "gonka"}, onProviderSelect(p) PROVE form' \in Form
    BY <1>1, <2>2 DEF onProviderSelect, Acts, Effects, Form
  <2>3. ASSUME NEW m \in {"create", "import"}, onWalletModeSelect(m) PROVE form' \in Form
    BY <1>1, <2>3 DEF onWalletModeSelect, Acts, Effects, Form
  <2>4. ASSUME NEW b \in BOOLEAN, TypeUrl(b) PROVE form' \in Form
    BY <1>1, <2>4 DEF TypeUrl, Acts, Effects, Form
  <2>5. ASSUME NEW b \in BOOLEAN, TypeKey(b) PROVE form' \in Form
    BY <1>1, <2>5 DEF TypeKey, Acts, Effects, Form
  <2>6. ASSUME NEW rows \in {"empty", "other", "chat"}, EditModels(rows) PROVE form' \in Form
    BY <1>1, <2>6 DEF EditModels, Acts, Effects, Form
  <2>7. CASE Acknowledge
    BY <1>1, <2>1, <2>7, EarlyDraft DEF Acknowledge, Acts, Effects, Form
  <2> QED
    BY <1>4, <2>1, <2>2, <2>3, <2>4, <2>5, <2>6, <2>7, EarlyDraft
<1>5. CASE \/ onCreateWallet \/ onCompleteClick \/ UpdateReply
           \/ \E op \in {"import", "derive"} : onUseExisting(op)
           \/ \E op \in call : CallFails(op)
  BY <1>5, SameDraft DEF onCreateWallet, onCompleteClick, onUseExisting, UpdateReply, CallFails,
                         Sends, constVars, draftVars
<1>6. CASE TimerFires \/ onReloadGonkaModels \/ UNCHANGED setupVars
  BY <1>6, SameDraft DEF TimerFires, onReloadGonkaModels, constVars, draftVars, setupVars
<1>7. ASSUME NEW l \in loads, CreateTemp(l) \/ ListTemp(l) \/ DeleteTemp(l) PROVE DraftInv'
  <2>1. UNCHANGED <<skips, stepId>> /\ (form' = form \/ form' = autoFillFirstModel(form))
    BY <1>7 DEF CreateTemp, ListTemp, DeleteTemp, LoadEnds, constVars, draftVars
  <2> QED
    BY <1>1, <2>1, FillKeeps DEF DraftInv, Complete
<1>8. CASE CloseWizard \/ ApplyReply
  <2>1. stepId' = "provider" /\ form' = Blank
    BY <1>8 DEF CloseWizard, ApplyReply, Unmounts
  <2>2. Blank \in Form
    BY DEF Blank, initialState, Form
  <2> QED
    BY <2>1, <2>2, EarlyDraft DEF Late
<1>9. CASE CreateReply
  <2>1. CASE ~mounted
    BY <1>9, <2>1, SameDraft DEF CreateReply, Unmounted, constVars
  <2>2. CASE mounted
    <3>1. stepId' = "wallet-reveal" /\ form' = [form EXCEPT !.wallet = TRUE, !.ack = FALSE]
      BY <1>9, <2>2 DEF CreateReply, Effects
    <3> QED
      BY <1>1, <3>1, EarlyDraft DEF Late, Form
  <2> QED
    BY <2>1, <2>2
<1>10. ASSUME NEW op \in {"import", "derive"}, ImportReply(op) PROVE DraftInv'
  <2>1. CASE ~mounted
    BY <1>10, <2>1, SameDraft DEF ImportReply, Unmounted, constVars
  <2>2. CASE mounted
    <3>1. stepId' = "wallet-balance" /\ form' \in {form, [form EXCEPT !.wallet = TRUE]}
      BY <1>10, <2>2 DEF ImportReply, Effects
    <3> QED
      BY <1>1, <3>1, EarlyDraft DEF Late, Form
  <2> QED
    BY <2>1, <2>2
<1> QED
  BY <1>2, <1>3, <1>4, <1>5, <1>6, <1>7, <1>8, <1>9, <1>10 DEF SetupNext

\* A resumed wizard begins at the first required step its configuration misses.
LEMMA FirstMissing ==
  ASSUME NEW cfg \in Config, Missing(cfg) # <<>>
  PROVE  Missing(cfg)[1][1] \in {"provider", "openai", "wallet-choice", "gonka-models"}
<1> DEFINE T == {"provider", "openai", "wallet-choice", "gonka-models"} \X BOOLEAN
           list == Required(cfg)
           set == {i \in DOMAIN list : ~list[i][2]}
<1>1. list \in Seq(T)
  <2> DEFINE both == cfg.ready /\ cfg.chat
             no == <<"provider", cfg.saved>>
             openai == <<"openai", both>>
             choice == <<"wallet-choice", cfg.ready>>
             gonka == <<"gonka-models", cfg.chat>>
  <2>1. cfg.saved \in BOOLEAN /\ cfg.ready \in BOOLEAN /\ cfg.chat \in BOOLEAN /\ both \in BOOLEAN
    BY DEF Config
  <2>2. list = IF cfg.provider = "openai" THEN <<no, openai>> ELSE <<no, choice, gonka>>
    BY Zenon DEF Required
  <2> HIDE DEF both
  <2>3. no \in T /\ openai \in T /\ choice \in T /\ gonka \in T
    BY <2>1
  <2> HIDE DEF no, openai, choice, gonka, T
  <2> QED
    BY <2>2, <2>3
<1> HIDE DEF list, T
<1>2. Kept(list, set) \in Seq(T)
  BY <1>1, KeptIsList
<1>3. Missing(cfg) \in Seq(T)
  BY <1>2 DEF Missing, list
<1>4. Missing(cfg)[1] \in T
  BY <1>3
<1> QED
  BY <1>4 DEF T

LEMMA DraftInit == SetupInit => DraftInv
<1> SUFFICES ASSUME SetupInit PROVE DraftInv
  OBVIOUS
<1>1. PICK mode \in Modes, cfg \in Config :
        /\ mode = "resume" => Missing(cfg) # <<>>
        /\ form = initialState(cfg)
        /\ stepId = IF mode = "resume" THEN Missing(cfg)[1][1] ELSE "provider"
  BY DEF SetupInit
<1>2. form \in Form
  BY <1>1 DEF initialState, Form, Config
<1>3. stepId \notin Late
  BY <1>1, FirstMissing DEF Late
<1> QED
  BY <1>2, <1>3 DEF DraftInv

LEMMA DraftInductive == SetupSpec => []DraftInv
BY DraftInit, DraftStep, PTL DEF SetupSpec

-----------------------------------------------------------------------------
(* The refinement. *)

\* What the mapping shows the flow of the draft.
Ready == skips # {} \/ Complete

\* A step that neither starts nor ends a save, nor closes the wizard, edits the draft.
LEMMA Edits ==
  ASSUME UNCHANGED <<done, mounted>>, Saving' = Saving
  PROVE  Flow!FlowNext
<1>1. Stage' = Stage
  BY DEF Stage
<1>2. Ready' \in BOOLEAN
  BY DEF Ready
<1> QED
  BY <1>1, <1>2 DEF Ready, Flow!FlowNext, Flow!Edit

LEMMA FlowStep ==
  ASSUME SubmitInv, DraftInv, [SetupNext]_setupVars
  PROVE  [Flow!FlowNext]_<<Stage, skips # {} \/ Complete>>
<1>1. ASSUME UNCHANGED <<done, mounted, call>> PROVE Flow!FlowNext
  BY <1>1, Edits DEF Saving
<1>2. CASE \/ \E filled \in BOOLEAN : goNext(filled)
           \/ goBack
           \/ \E p \in {"openai", "gonka"} : onProviderSelect(p)
           \/ \E m \in {"create", "import"} : onWalletModeSelect(m)
           \/ \E b \in BOOLEAN : TypeUrl(b) \/ TypeKey(b)
           \/ \E rows \in {"empty", "other", "chat"} : EditModels(rows)
           \/ Acknowledge
  BY <1>1, <1>2 DEF goNext, goBack, onProviderSelect, onWalletModeSelect, TypeUrl, TypeKey,
                    EditModels, Acknowledge, Acts
<1>3. CASE TimerFires \/ onReloadGonkaModels \/ UNCHANGED setupVars
  BY <1>1, <1>3 DEF TimerFires, onReloadGonkaModels, setupVars
<1>4. CASE \E l \in loads : CreateTemp(l) \/ ListTemp(l) \/ DeleteTemp(l)
  BY <1>1, <1>4 DEF CreateTemp, ListTemp, DeleteTemp
<1>5. CASE onCreateWallet \/ \E op \in {"import", "derive"} : onUseExisting(op)
  <2>1. Saving' = Saving /\ UNCHANGED <<done, mounted>>
    BY <1>5 DEF onCreateWallet, onUseExisting, Sends, Saving
  <2> QED
    BY <2>1, Edits
<1>6. CASE CreateReply \/ \E op \in {"import", "derive"} : ImportReply(op)
  <2>1. Saving' = Saving /\ UNCHANGED <<done, mounted>>
    BY <1>6 DEF CreateReply, ImportReply, Settles, Saving
  <2> QED
    BY <2>1, Edits
<1>7. CASE UpdateReply
  <2>1. Saving' = Saving /\ UNCHANGED <<done, mounted>>
    BY <1>7 DEF UpdateReply, Saving
  <2> QED
    BY <2>1, Edits
<1>8. CASE onCompleteClick
  <2>1. ~Saving /\ Saving' /\ mounted /\ UNCHANGED <<done, mounted, skips, form>>
    BY <1>8 DEF onCompleteClick, Sends, Saving, SubmitInv, constVars
  <2>2. Complete' = Complete /\ (skips # {} \/ Complete)
    BY <1>8, <2>1 DEF onCompleteClick, DraftInv, Late, Complete
  <2>3. CASE done
    <3>1. Stage' = Stage
      BY <2>1, <2>3 DEF Stage
    <3> QED
      BY <2>1, <2>2, <3>1
  <2>4. CASE ~done
    <3>1. Stage = "open" /\ Stage' = "saving"
      BY <2>1, <2>4 DEF Stage
    <3> QED
      BY <2>1, <2>2, <3>1 DEF Flow!FlowNext, Flow!Submit, Flow!Moves
  <2> QED
    BY <2>3, <2>4
<1>9. ASSUME NEW op \in call, CallFails(op) PROVE Flow!FlowNext
  <2>1. call = {op} /\ call' = {} /\ UNCHANGED <<done, mounted, skips, form>>
    BY <1>9 DEF CallFails, Settles, SubmitInv, constVars
  <2>2. ~Saving' /\ Complete' = Complete
    BY <2>1 DEF Saving, Complete
  <2>3. CASE ~Saving \/ done
    <3>1. Stage' = Stage
      BY <2>1, <2>2, <2>3 DEF Stage
    <3> QED
      BY <2>1, <2>2, <3>1 DEF Flow!FlowNext, Flow!Edit
  <2>4. CASE Saving /\ ~done
    <3>1. mounted => Stage = "saving" /\ Stage' = "open"
      BY <2>1, <2>2, <2>4 DEF Stage
    <3>2. ~mounted => Stage = "left" /\ Stage' = "closed"
      BY <2>1, <2>2, <2>4 DEF Stage
    <3> QED
      BY <2>1, <2>2, <3>1, <3>2 DEF Flow!FlowNext, Flow!Refuse, Flow!Moves
  <2> QED
    BY <2>3, <2>4
<1>10. CASE CloseWizard
  <2>1. mounted /\ ~mounted' /\ UNCHANGED done /\ Saving' = Saving
    BY <1>10 DEF CloseWizard, Unmounts, Saving
  <2>2. Ready' \in BOOLEAN
    BY DEF Ready
  <2>3. CASE done
    <3>1. Stage' = Stage
      BY <2>1, <2>3 DEF Stage
    <3> QED
      BY <2>2, <3>1 DEF Ready, Flow!FlowNext, Flow!Edit
  <2>4. CASE ~done
    <3>1. ~Saving => Stage = "open" /\ Stage' = "closed"
      BY <2>1, <2>4 DEF Stage
    <3>2. Saving => Stage = "saving" /\ Stage' = "left"
      BY <2>1, <2>4 DEF Stage
    <3> QED
      BY <2>2, <3>1, <3>2 DEF Ready, Flow!FlowNext, Flow!Close, Flow!Moves
  <2> QED
    BY <2>3, <2>4
<1>11. CASE ApplyReply
  <2>1. Saving /\ done'
    BY <1>11 DEF ApplyReply, Settles, Saving
  <2>2. Stage' = "done" /\ Ready' \in BOOLEAN
    BY <2>1 DEF Stage, Ready
  <2>3. Stage \in {"done", "saving", "left"}
    BY <2>1 DEF Stage
  <2> QED
    BY <2>2, <2>3 DEF Ready, Flow!FlowNext, Flow!Edit, Flow!Finish, Flow!Moves
<1> QED
  BY <1>2, <1>3, <1>4, <1>5, <1>6, <1>7, <1>8, <1>9, <1>10, <1>11 DEF SetupNext

\* The wizard implements SetupFlow: in the full mode only a complete draft is sent, one save
\* is under way at a time, and the wizard reports that it is done only after one, whatever
\* the user edits, walks or closes meanwhile and whichever requests fail.
THEOREM WizardImplementsFlow == SetupSpec => ImplementsSetupFlow
<1>1. SetupInit => Flow!FlowInit
  <2> SUFFICES ASSUME SetupInit PROVE Flow!FlowInit
    OBVIOUS
  <2>1. Stage = "open"
    BY DEF SetupInit, Stage, Saving
  <2>2. (skips # {} \/ Complete) \in BOOLEAN
    OBVIOUS
  <2> QED
    BY <2>1, <2>2 DEF Flow!FlowInit
<1>2. SubmitInv /\ DraftInv /\ [SetupNext]_setupVars => [Flow!FlowNext]_<<Stage, skips # {} \/ Complete>>
  BY FlowStep
<1> QED
  BY <1>1, <1>2, SubmitInductive, DraftInductive, PTL DEF SetupSpec, ImplementsSetupFlow, Flow!FlowSpec

-----------------------------------------------------------------------------
(* TelegramStep. *)

LinkSpec == LinkInit /\ [][LinkNext]_linkVars

Requests == [op : {"verify", "status"}, of : Tokens \cup {Nothing}, live : BOOLEAN,
             user : Users \cup {Nothing}, but : Users \cup {Nothing}]

LinkTypeOK ==
    /\ shell \in {"web", "xp"} /\ first \in Tokens \cup {Nothing}
    /\ token \in Tokens \cup {Nothing} /\ linked \in Users \cup {Nothing}
    /\ ignored \in Users \cup {Nothing}
    /\ asked \subseteq Requests /\ linkedAt \in [Tokens -> Users \cup {Nothing}]

\* A status answer that counts was asked for with the token in the field and passes over
\* the account that is given up now.
LiveAnswersAreCurrent ==
    \A a \in asked : a.op = "status" /\ a.live => a.of = token /\ a.but = ignored

\* What a Re-link gave up is passed over as long as the step is not left.
GivenUpIsIgnored ==
    /\ shell = "xp" /\ gaveUp # Nothing /\ ~leftSince => ignored = gaveUp
    /\ gaveUp # Nothing => linked = Nothing

LinkParts == LinkTypeOK /\ LiveAnswersAreCurrent /\ LinkedIsOfToken

LinkInv == LinkParts /\ GivenUpIsIgnored

\* The cleanup of the effect that polls leaves no status answer that counts.
LEMMA CancelKills ==
  ASSUME NEW as \in SUBSET Requests
  PROVE  /\ Cancel(as) \in SUBSET Requests
         /\ \A a \in Cancel(as) : ~(a.op = "status" /\ a.live)
BY DEF Cancel, Requests

\* What verifies a token is a request.
LEMMA VerifyIsRequest ==
  ASSUME NEW t \in Tokens \cup {Nothing}
  PROVE  /\ Verify(t) \in SUBSET Requests
         /\ \A a \in Verify(t) : a.op = "verify"
<1> DEFINE r == [op |-> "verify", of |-> t, live |-> TRUE, user |-> Nothing, but |-> Nothing]
<1>1. TRUE \in BOOLEAN
  OBVIOUS
<1>2. r \in Requests
  BY <1>1, Zenon DEF Requests
<1>3. r.op = "verify"
  OBVIOUS
<1> QED
  BY <1>2, <1>3 DEF Verify

\* A poll asks with the token in the field and the account that is given up.
LEMMA StatusIsRequest ==
  ASSUME NEW t \in Tokens, LinkTypeOK
  PROVE  /\ Status(t, ignored) \in SUBSET Requests
         /\ \A a \in Status(t, ignored) : a.of = t /\ a.but = ignored
<1> DEFINE r == [op |-> "status", of |-> t, live |-> TRUE, user |-> linkedAt[t], but |-> ignored]
<1>1. TRUE \in BOOLEAN
  OBVIOUS
<1>2. linkedAt[t] \in Users \cup {Nothing} /\ ignored \in Users \cup {Nothing}
  BY DEF LinkTypeOK
<1>3. r \in Requests
  BY <1>1, <1>2, Zenon DEF Requests
<1>4. r.of = t /\ r.but = ignored
  OBVIOUS
<1> QED
  BY <1>3, <1>4 DEF Status

\* A render only adds requests that verify a token.
LEMMA ReverifyAdds ==
  ASSUME NEW as \in SUBSET Requests, LinkTypeOK, \A a \in as : ~(a.op = "status" /\ a.live)
  PROVE  /\ Reverify(as) \in SUBSET Requests
         /\ \A a \in Reverify(as) : ~(a.op = "status" /\ a.live)
<1>1. /\ Verify(first) \in SUBSET Requests
      /\ \A a \in Verify(first) : a.op = "verify"
  BY VerifyIsRequest DEF LinkTypeOK
<1> QED
  BY <1>1 DEF Reverify

\* A step that is left gets no answer any more.
LEMMA LeavingKillsAll ==
  ASSUME LinkTypeOK
  PROVE  LET dead == {[a EXCEPT !.live = FALSE] : a \in asked}
         IN  dead \in SUBSET Requests /\ \A a \in dead : ~a.live
BY DEF LinkTypeOK, Requests

\* The requests and what they find stay of their kinds, and answers that count are current,
\* over every step of the wizard's link.
LEMMA LinkPartsInductive == LinkSpec => []LinkParts
<1>1. LinkInit => LinkParts
  BY VerifyIsRequest DEF LinkInit, LinkParts, LinkTypeOK, LiveAnswersAreCurrent, LinkedIsOfToken
<1>2. LinkParts /\ [LinkNext]_linkVars => LinkParts'
  <2> SUFFICES ASSUME LinkParts, [LinkNext]_linkVars
               PROVE  LinkParts'
    OBVIOUS
  <2>0. /\ asked \in SUBSET Requests /\ LinkTypeOK
        /\ \A a \in asked : (asked \ {a}) \in SUBSET Requests
    BY DEF LinkParts, LinkTypeOK
  <2>1. ASSUME NEW t \in Tokens \cup {Nothing}, TypeToken(t)
        PROVE  LinkParts'
    BY <2>0, <2>1, CancelKills, ReverifyAdds
    DEF TypeToken, LinkRerenders, LinkParts, LinkTypeOK, LiveAnswersAreCurrent, LinkedIsOfToken
  <2>2. CASE ClickVerify
    BY <2>0, <2>2, VerifyIsRequest
    DEF ClickVerify, historyVars, LinkParts, LinkTypeOK, LiveAnswersAreCurrent, LinkedIsOfToken
  <2>3. CASE ToggleSkip
    BY <2>0, <2>3, CancelKills, ReverifyAdds
    DEF ToggleSkip, LinkRerenders, historyVars, LinkParts, LinkTypeOK, LiveAnswersAreCurrent,
        LinkedIsOfToken
  <2>4. CASE Relink
    BY <2>0, <2>4, CancelKills, ReverifyAdds
    DEF Relink, LinkRerenders, LinkParts, LinkTypeOK, LiveAnswersAreCurrent, LinkedIsOfToken
  <2>5. CASE Poll
    <3>1. token \in Tokens
      BY <2>0, <2>5 DEF Poll, Polls, LinkTypeOK
    <3> QED
      BY <2>0, <2>5, <3>1, StatusIsRequest
      DEF Poll, uiVars, historyVars, LinkParts, LinkTypeOK, LiveAnswersAreCurrent, LinkedIsOfToken
  <2>6. ASSUME NEW a \in asked, NEW ok \in BOOLEAN, VerifyReply(a, ok)
        PROVE  LinkParts'
    BY <2>0, <2>6, CancelKills
    DEF VerifyReply, historyVars, LinkParts, LinkTypeOK, LiveAnswersAreCurrent, LinkedIsOfToken
  <2>7. ASSUME NEW a \in asked, StatusReply(a)
        PROVE  LinkParts'
    <3>1. CASE Counts(a)
      <4>1. a.of = token /\ a.user \in Users \cup {Nothing}
        BY <2>7, <3>1 DEF StatusReply, Counts, LinkParts, LinkTypeOK, LiveAnswersAreCurrent, Requests
      <4> QED
        BY <2>0, <2>7, <3>1, <4>1, CancelKills, ReverifyAdds
        DEF StatusReply, LinkRerenders, LinkParts, LinkTypeOK, LiveAnswersAreCurrent, LinkedIsOfToken
    <3>2. CASE ~Counts(a)
      BY <2>0, <2>7, <3>2 DEF StatusReply, LinkParts, LinkTypeOK, LiveAnswersAreCurrent, LinkedIsOfToken
    <3> QED
      BY <3>1, <3>2
  <2>8. ASSUME NEW a \in asked, StatusFails(a)
        PROVE  LinkParts'
    BY <2>0, <2>8
    DEF StatusFails, uiVars, historyVars, LinkParts, LinkTypeOK, LiveAnswersAreCurrent, LinkedIsOfToken
  <2>9. ASSUME NEW t \in Tokens, NEW u \in Users, CodeSent(t, u)
        PROVE  LinkParts'
    BY <2>9 DEF CodeSent, uiVars, historyVars, LinkParts, LinkTypeOK, LiveAnswersAreCurrent,
                LinkedIsOfToken
  <2>10. ASSUME NEW t \in Tokens, Forgets(t)
         PROVE  LinkParts'
    BY <2>10 DEF Forgets, uiVars, historyVars, LinkParts, LinkTypeOK, LiveAnswersAreCurrent,
                 LinkedIsOfToken
  <2>11. CASE LeaveStep
    BY <2>0, <2>11, LeavingKillsAll
    DEF LeaveStep, LinkParts, LinkTypeOK, LiveAnswersAreCurrent, LinkedIsOfToken
  <2>12. CASE EnterStep
    BY <2>0, <2>12, VerifyIsRequest
    DEF EnterStep, historyVars, LinkParts, LinkTypeOK, LiveAnswersAreCurrent, LinkedIsOfToken
  <2>13. CASE UNCHANGED linkVars
    BY <2>13 DEF linkVars, uiVars, historyVars, LinkParts, LinkTypeOK, LiveAnswersAreCurrent,
                 LinkedIsOfToken
  <2> QED
    BY <2>1, <2>2, <2>3, <2>4, <2>5, <2>6, <2>7, <2>8, <2>9, <2>10, <2>11, <2>12, <2>13 DEF LinkNext
<1> QED
  BY <1>1, <1>2, PTL DEF LinkSpec

\* Only a Re-link, a new token, an answer that counts and leaving the step change what is
\* given up or passed over, and each does to both what the other needs.
LEMMA LinkInvInductive == LinkSpec => []LinkInv
<1>1. LinkInit => GivenUpIsIgnored
  BY DEF LinkInit, GivenUpIsIgnored
<1>2. GivenUpIsIgnored /\ [LinkNext]_linkVars => GivenUpIsIgnored'
  <2> SUFFICES ASSUME GivenUpIsIgnored, [LinkNext]_linkVars
               PROVE  GivenUpIsIgnored'
    OBVIOUS
  <2>1. CASE Relink \/ LeaveStep \/ \E t \in Tokens \cup {Nothing} : TypeToken(t)
    BY <2>1 DEF Relink, LeaveStep, TypeToken, GivenUpIsIgnored
  <2>2. CASE \E a \in asked : StatusReply(a)
    BY <2>2 DEF StatusReply, GivenUpIsIgnored
  <2>3. CASE \/ ClickVerify \/ ToggleSkip \/ EnterStep \/ Poll
             \/ \E a \in asked : (\E ok \in BOOLEAN : VerifyReply(a, ok)) \/ StatusFails(a)
             \/ \E t \in Tokens : Forgets(t) \/ \E u \in Users : CodeSent(t, u)
             \/ UNCHANGED linkVars
    BY <2>3 DEF ClickVerify, ToggleSkip, EnterStep, Poll, VerifyReply, StatusFails, Forgets, CodeSent,
                linkVars, uiVars, historyVars, GivenUpIsIgnored
  <2> QED
    BY <2>1, <2>2, <2>3 DEF LinkNext
<1> QED
  BY <1>1, <1>2, LinkPartsInductive, PTL DEF LinkSpec, LinkInv

\* Whatever tokens are typed while verifications and polls are under way, the linked account
\* was found with the token in the field (both shells of TelegramStep).
THEOREM LinkedToItsToken == LinkSpec => []LinkedIsOfToken
<1>1. LinkInv => LinkedIsOfToken
  BY DEF LinkInv, LinkParts
<1> QED
  BY <1>1, LinkInvInductive, PTL

\* Until the step is left, the XP shell does not link by itself the account that a Re-link gave
\* up, however often it is polled for, the token is verified and Telegram is skipped meanwhile,
\* and however late the answers come.
THEOREM NoAccountComesBack == LinkSpec => GivenUpStaysGivenUp
<1>1. LinkInv /\ [LinkNext]_linkVars
        => [shell = "xp" /\ gaveUp # Nothing /\ ~leftSince => linked' # gaveUp]_linkVars
  <2> SUFFICES ASSUME LinkInv, LinkNext, shell = "xp", gaveUp # Nothing, ~leftSince
               PROVE  linked' # gaveUp
    OBVIOUS
  <2>1. ASSUME NEW a \in asked, StatusReply(a)
        PROVE  linked' # gaveUp
    BY <2>1 DEF StatusReply, Counts, LinkInv, LinkParts, LiveAnswersAreCurrent, GivenUpIsIgnored
  <2>2. CASE ~\E a \in asked : StatusReply(a)
    <3>1. linked' = linked \/ linked' = Nothing
      BY <2>2 DEF LinkNext, TypeToken, ClickVerify, ToggleSkip, Relink, LeaveStep, EnterStep, Poll,
                  VerifyReply, StatusFails, CodeSent, Forgets, uiVars
    <3> QED
      BY <3>1 DEF LinkInv, GivenUpIsIgnored
  <2> QED
    BY <2>1, <2>2
<1> QED
  BY <1>1, LinkInvInductive, PTL DEF LinkSpec, GivenUpStaysGivenUp

-----------------------------------------------------------------------------
(* PlansPage: What the page and its requests hold. *)

Plan == [on : BOOLEAN, graph : Graphs]
Listing == [Plans -> {NoPlan} \cup Plan]

\* The answer of a request that still belongs to an editor can be put into one.
RequestOK(r) ==
  /\ r = [x \in DOMAIN r |-> r[x]] /\ {"kind", "own"} \subseteq DOMAIN r
  /\ r.kind = "list" => ~r.own /\ r.plans \in Listing
  /\ r.own /\ r.kind = "create" => r.id \in Plans /\ r.on \in BOOLEAN
  /\ r.own /\ r.kind = "toggle" => r.next \in BOOLEAN
  /\ r.own /\ r.kind = "runs" => r.expanded \in BOOLEAN /\ r.has \in BOOLEAN

\* A request that belongs to an editor finds it: one that is unmounted takes its requests along.
RequestsOK(rs, e) == \A r \in rs : RequestOK(r) /\ (r.own => e # NoPlan)

PlansInv ==
  /\ saved \in Listing /\ plans \in Listing
  /\ deepPlanId \in Plans \cup {NoPlan} /\ deletePlan \in Plans \cup {NoPlan}
  /\ editor = NoPlan \/ editor \in Editors
  /\ RequestsOK(inFlight, editor)

\* What a step may do: only one that no request or answer is part of changes the drawing.
StepOK ==
  /\ PlansInv'
  /\ editor # NoPlan /\ editor' # NoPlan /\ inFlight' # inFlight => editor'.graph = editor.graph

LEMMA EditorParts ==
  ASSUME NEW e \in Editors
  PROVE  /\ e # NoPlan /\ e.id \in Plans \cup {NewPlan} /\ e.on \in BOOLEAN /\ e.graph \in Graphs
         /\ e.named \in BOOLEAN /\ e.metaOpen \in BOOLEAN
         /\ e.listed \in BOOLEAN /\ e.expanded \in BOOLEAN /\ e.drawn \in BOOLEAN
BY PlansAssumption DEF Editors

LEMMA EditorOpens ==
  ASSUME NEW id \in Plans \cup {NewPlan}, NEW plan \in Plan
  PROVE  Editor(id, plan) \in Editors /\ Editor(id, plan) # NoPlan
<1> DEFINE new == id = NewPlan
           old == id # NewPlan
           no == FALSE
           e == [id |-> id, on |-> plan.on, graph |-> plan.graph, named |-> old, metaOpen |-> new,
                 listed |-> no, expanded |-> no, drawn |-> no]
<1>1. new \in BOOLEAN /\ old \in BOOLEAN /\ no \in BOOLEAN /\ plan.on \in BOOLEAN /\ plan.graph \in Graphs
  BY DEF Plan
<1>2. Editor(id, plan) = e
  BY DEF Editor
<1> HIDE DEF new, old, no
<1>3. e \in Editors
  BY <1>1 DEF Editors
<1> HIDE DEF e
<1> QED
  BY <1>2, <1>3, EditorParts

Switches == {"on", "named", "metaOpen", "listed", "expanded", "drawn"}

LEMMA EditorSwitched ==
  ASSUME NEW e \in Editors, NEW x \in Switches, NEW v \in BOOLEAN
  PROVE  [e EXCEPT ![x] = v] \in Editors /\ [e EXCEPT ![x] = v].graph = e.graph
<1>1. CASE x = "on"
  BY <1>1 DEF Editors
<1>2. CASE x = "named"
  BY <1>2 DEF Editors
<1>3. CASE x = "metaOpen"
  BY <1>3 DEF Editors
<1>4. CASE x = "listed"
  BY <1>4 DEF Editors
<1>5. CASE x = "expanded"
  BY <1>5 DEF Editors
<1>6. CASE x = "drawn"
  BY <1>6 DEF Editors
<1> QED
  BY <1>1, <1>2, <1>3, <1>4, <1>5, <1>6 DEF Switches

LEMMA ListRequestsOK ==
  ASSUME saved \in Listing, NEW r \in ListRequests
  PROVE  RequestOK(r) /\ ~r.own
<1> DEFINE no == FALSE
           yes == TRUE
           R(ok, ps) == [kind |-> "list", own |-> no, ok |-> ok, plans |-> ps]
<1>1. NothingListed \in Listing
  BY DEF NothingListed, Listing
<1>2. r = R(yes, saved) \/ r = R(no, NothingListed)
  BY DEF ListRequests
<1>3. ~no
  OBVIOUS
<1> HIDE DEF no, yes
<1>4. ASSUME NEW ok, NEW ps \in Listing PROVE RequestOK(R(ok, ps)) /\ ~R(ok, ps).own
  BY <1>3, <1>4 DEF RequestOK
<1> HIDE DEF R
<1> QED
  BY <1>1, <1>2, <1>4

LEMMA RunsRequestOK ==
  ASSUME NEW id, NEW expanded \in BOOLEAN, NEW then, then # "list", then # "create", then # "toggle"
  PROVE  RequestOK(RunsRequest(id, expanded, then))
<1> DEFINE has == id \in ran
           yes == TRUE
           r == [kind |-> then, own |-> yes, ok |-> yes, expanded |-> expanded, has |-> has]
<1>1. has \in BOOLEAN /\ RunsRequest(id, expanded, then) = r
  BY DEF RunsRequest
<1> HIDE DEF has, yes
<1>2. r.kind = then /\ r.expanded = expanded /\ r.has = has /\ r = [x \in DOMAIN r |-> r[x]] /\ {"kind", "own"} \subseteq DOMAIN r
  OBVIOUS
<1> HIDE DEF r
<1> QED
  BY <1>1, <1>2 DEF RequestOK

LEMMA OrphanedOK ==
  ASSUME NEW rs, \A r \in rs : RequestOK(r)
  PROVE  \A r \in Orphaned(rs) : RequestOK(r) /\ ~r.own
<1> DEFINE no == FALSE
           o(r) == [r EXCEPT !.own = no]
           mine == {q \in rs : q.own /\ q.ok /\ q.kind \notin {"runs", "cancel"}}
<1>1. Orphaned(rs) = {r \in rs : ~r.own} \cup {o(r) : r \in mine}
  BY DEF Orphaned
<1>2. ~no
  OBVIOUS
<1>3. \A q \in mine : q \in rs /\ q.own
  OBVIOUS
<1> HIDE DEF no, mine
<1>4. ASSUME NEW q \in mine PROVE RequestOK(o(q)) /\ ~o(q).own
  <2>1. RequestOK(q) /\ q.kind # "list"
    BY <1>3 DEF RequestOK
  <2>2. o(q).own = no /\ o(q).kind = q.kind /\ DOMAIN o(q) = DOMAIN q /\ o(q) = [x \in DOMAIN o(q) |-> o(q)[x]]
    BY <2>1 DEF RequestOK
  <2> HIDE DEF o
  <2> QED
    BY <1>2, <2>1, <2>2 DEF RequestOK
<1> HIDE DEF o
<1> QED
  BY <1>1, <1>4

-----------------------------------------------------------------------------
(* Coming, going and the list. *)

LEMMA LoadOK ==
  ASSUME PlansInv, saved' \in Listing, NEW rs, NEW e, RequestsOK(rs, e), NEW r \in ListRequests
  PROVE  RequestsOK(rs \cup {r}, e)
<1>1. RequestOK(r) /\ ~r.own
  BY ListRequestsOK DEF PlansInv
<1> QED
  BY <1>1 DEF RequestsOK

LEMMA GoneOK ==
  ASSUME NEW rs, NEW e, RequestsOK(rs, e)
  PROVE  \A f : RequestsOK(Orphaned(rs), f) /\ RequestsOK(Abandoned(rs), f)
BY OrphanedOK DEF RequestsOK, Abandoned

LEMMA GoesAwayOK ==
  ASSUME PlansInv, NEW rs, RequestsOK(rs, editor), GoesAway(rs), saved' = saved
  PROVE  StepOK
<1>1. NothingListed \in Listing
  BY DEF NothingListed, Listing
<1>2. RequestsOK(Abandoned(rs), NoPlan)
  BY GoneOK
<1> QED
  BY <1>1, <1>2 DEF GoesAway, PlansInv, StepOK

LEMMA MountsOK ==
  ASSUME PlansInv, NEW id \in Plans \cup {NoPlan}, Mounts(id), saved' = saved
  PROVE  StepOK
<1>1. NothingListed \in Listing
  BY DEF NothingListed, Listing
<1>2. RequestsOK(Abandoned(inFlight), NoPlan)
  BY GoneOK DEF PlansInv
<1>3. PICK r \in ListRequests : inFlight' = Abandoned(inFlight) \cup {r}
  BY DEF Mounts
<1>4. RequestsOK(inFlight', NoPlan)
  BY <1>2, <1>3, LoadOK DEF PlansInv
<1> QED
  BY <1>1, <1>4 DEF Mounts, PlansInv, StepOK

LEMMA onBackOK ==
  ASSUME PlansInv, onBack, saved' = saved
  PROVE  StepOK
<1>1. CASE returnChat
  BY <1>1, GoesAwayOK DEF onBack, PlansInv
<1>2. CASE ~returnChat /\ deepPlanId # NoPlan
  BY <1>2, MountsOK DEF onBack
<1>3. CASE ~returnChat /\ deepPlanId = NoPlan
  <2>1. /\ editor' = NoPlan /\ UNCHANGED <<away, deepPlanId, plans, deletePlan>>
        /\ \E r \in ListRequests : inFlight' = Orphaned(inFlight) \cup {r}
    BY <1>3 DEF onBack, load
  <2>2. RequestsOK(Orphaned(inFlight), NoPlan)
    BY GoneOK DEF PlansInv
  <2>3. RequestsOK(inFlight', NoPlan)
    BY <2>1, <2>2, LoadOK DEF PlansInv
  <2> QED
    BY <2>1, <2>3 DEF PlansInv, StepOK
<1> QED
  BY <1>1, <1>2, <1>3

LEMMA TravelOK ==
  ASSUME PlansInv,
         \/ \E id \in Plans \cup {NoPlan}, chat \in BOOLEAN : Arrive(id, chat)
         \/ Leave \/ Back \/ closeMeta
         \/ \E r \in inFlight : TriggeredReply(r)
  PROVE  StepOK
<1>1. ASSUME NEW id \in Plans \cup {NoPlan}, NEW chat \in BOOLEAN, Arrive(id, chat) PROVE StepOK
  BY <1>1, MountsOK DEF Arrive
<1>2. CASE Leave
  BY <1>2, GoesAwayOK DEF Leave, PlansInv
<1>3. CASE Back \/ closeMeta
  BY <1>3, onBackOK DEF Back, closeMeta
<1>4. ASSUME NEW r \in inFlight, TriggeredReply(r) PROVE StepOK
  <2>1. RequestsOK(inFlight \ {r}, editor)
    BY DEF PlansInv, RequestsOK
  <2> QED
    BY <1>4, <2>1, GoesAwayOK DEF TriggeredReply
<1> QED
  BY <1>1, <1>2, <1>3, <1>4

\* The page opens an editor where there is none.
LEMMA OpensOK ==
  ASSUME PlansInv, editor = NoPlan, NEW id \in Plans \cup {NewPlan}, NEW plan \in Plan,
         NEW rs, RequestsOK(rs, editor), editor' = Editor(id, plan),
         inFlight' \in {rs, rs \cup {RunsRequest(id, FALSE, "runs")}},
         saved' = saved, plans' \in Listing, deepPlanId' = deepPlanId, deletePlan' = deletePlan
  PROVE  StepOK
<1>1. editor' \in Editors /\ editor' # NoPlan
  BY EditorOpens
<1>2. RequestOK(RunsRequest(id, FALSE, "runs"))
  BY RunsRequestOK
<1>3. RequestsOK(inFlight', editor')
  BY <1>1, <1>2 DEF RequestsOK
<1> QED
  BY <1>1, <1>3 DEF PlansInv, StepOK

LEMMA ListReplyOK ==
  ASSUME PlansInv, NEW r \in inFlight, ListReply(r)
  PROVE  StepOK
<1> DEFINE rs == inFlight \ {r}
<1>1. RequestsOK(rs, editor)
  BY DEF PlansInv, RequestsOK
<1>2. plans' \in Listing
  BY DEF PlansInv, RequestsOK, RequestOK, ListReply
<1>3. DeepLink(plans', rs) /\ UNCHANGED <<saved, deepPlanId, deletePlan>>
  BY DEF ListReply
<1> HIDE DEF rs
<1>4. CASE deepPlanId # NoPlan /\ plans'[deepPlanId] # NoPlan /\ editor = NoPlan
  <2>1. deepPlanId \in Plans /\ plans'[deepPlanId] \in Plan
    BY <1>2, <1>4 DEF PlansInv, Listing
  <2>2. /\ editor' = Editor(deepPlanId, plans'[deepPlanId])
        /\ inFlight' = rs \cup {RunsRequest(deepPlanId, FALSE, "runs")}
    BY <1>3, <1>4 DEF DeepLink
  <2> DEFINE plan == plans'[deepPlanId]
             run == RunsRequest(deepPlanId, FALSE, "runs")
  <2> HIDE DEF plan
  <2> QED
    BY <1>1, <1>2, <1>3, <1>4, <2>1, <2>2, OpensOK DEF plan
<1>5. CASE ~(deepPlanId # NoPlan /\ plans'[deepPlanId] # NoPlan /\ editor = NoPlan)
  <2>1. editor' = editor /\ inFlight' = rs
    BY <1>3, <1>5 DEF DeepLink
  <2> QED
    BY <1>1, <1>2, <1>3, <2>1 DEF PlansInv, StepOK
<1> QED
  BY <1>4, <1>5

LEMMA OpenOK ==
  ASSUME PlansInv, (\E p \in Plans : OpenRow(p)) \/ \E g \in Graphs : OpenNew(g)
  PROVE  StepOK
<1>1. RequestsOK(inFlight, editor) /\ plans \in Listing
  BY DEF PlansInv
<1>2. ASSUME NEW p \in Plans, OpenRow(p) PROVE StepOK
  <2> DEFINE plan == plans[p]
  <2>1. plan \in Plan /\ p \in Plans \cup {NewPlan} /\ p # NewPlan /\ editor = NoPlan
    BY <1>1, <1>2, PlansAssumption DEF OpenRow, ListRows, Listing
  <2>2. /\ editor' = Editor(p, plan) /\ inFlight' = inFlight \cup {RunsRequest(p, FALSE, "runs")}
        /\ UNCHANGED <<saved, plans, deepPlanId, deletePlan>>
    BY <1>2, <2>1 DEF OpenRow, Opens, pageVars
  <2> HIDE DEF plan
  <2> QED
    BY <1>1, <2>1, <2>2, OpensOK
<1>3. ASSUME NEW g \in Graphs, OpenNew(g) PROVE StepOK
  <2> DEFINE no == FALSE
             plan == [on |-> no, graph |-> g]
  <2>1. plan \in Plan
    <3>1. no \in BOOLEAN
      OBVIOUS
    <3> HIDE DEF no
    <3> QED
      BY <3>1 DEF Plan
  <2>2. /\ editor = NoPlan /\ editor' = Editor(NewPlan, plan) /\ inFlight' = inFlight
        /\ UNCHANGED <<saved, plans, deepPlanId, deletePlan>>
    BY <1>3 DEF OpenNew, Opens, pageVars
  <2> HIDE DEF plan
  <2> QED
    BY <1>1, <2>1, <2>2, OpensOK
<1> QED
  BY <1>2, <1>3

\* A request of the page or of the editor that is there.
LEMMA PostsOK ==
  ASSUME NEW rs, NEW e, RequestsOK(rs, e), NEW r, RequestOK(r), r.own => e # NoPlan
  PROVE  RequestsOK(rs \cup {r}, e)
BY DEF RequestsOK

LEMMA PlainRequestOK ==
  ASSUME NEW kind \in {"row", "delete", "save"}, NEW own \in BOOLEAN, NEW ok
  PROVE  /\ RequestOK([Request(kind, own) EXCEPT !.ok = ok])
         /\ [Request(kind, own) EXCEPT !.ok = ok].own = own
<1> DEFINE yes == TRUE
           q == [kind |-> kind, own |-> own, ok |-> yes]
           r == [q EXCEPT !.ok = ok]
<1>1. [Request(kind, own) EXCEPT !.ok = ok] = r
  BY DEF Request
<1> HIDE DEF yes
<1>2. /\ r = [x \in DOMAIN r |-> r[x]] /\ {"kind", "own"} \subseteq DOMAIN r
      /\ r.kind = kind /\ r.own = own
  OBVIOUS
<1> HIDE DEF r
<1>3. RequestOK(r)
  BY <1>2 DEF RequestOK
<1> QED
  BY <1>1, <1>2, <1>3

LEMMA RowsOK ==
  ASSUME PlansInv,
         \/ \E p \in Plans : AskDelete(p) \/ \E ok \in BOOLEAN : toggleRow(p, ok)
         \/ \E yes, ok \in BOOLEAN : AnswerDelete(yes, ok)
  PROVE  StepOK
<1>1. ASSUME NEW p \in Plans, AskDelete(p) PROVE StepOK
  BY <1>1 DEF AskDelete, PlansInv, StepOK
<1>2. ASSUME NEW p \in Plans, NEW ok \in BOOLEAN, toggleRow(p, ok) PROVE StepOK
  <2> DEFINE r == [Request("row", FALSE) EXCEPT !.ok = ok]
             plan == [plans[p] EXCEPT !.on = ~@]
  <2>1. RequestOK(r) /\ ~r.own
    BY PlainRequestOK
  <2> HIDE DEF r
  <2>2. /\ plans[p] \in Plan /\ inFlight' = inFlight \cup {r}
        /\ saved' = (IF ok THEN [saved EXCEPT ![p] = plan] ELSE saved)
        /\ UNCHANGED <<plans, deepPlanId, deletePlan, editor>>
    BY <1>2 DEF toggleRow, Posts, PlansInv, Listing, pageVars, r
  <2>3. plan \in Plan
    <3> DEFINE on == ~plans[p].on
    <3>1. on \in BOOLEAN /\ plan = [plans[p] EXCEPT !.on = on]
      BY <2>2 DEF Plan
    <3> HIDE DEF on, plan
    <3> QED
      BY <2>2, <3>1 DEF Plan
  <2> HIDE DEF plan
  <2>4. saved' \in Listing
    BY <2>2, <2>3 DEF PlansInv, Listing
  <2>5. RequestsOK(inFlight', editor')
    BY <2>1, <2>2, PostsOK DEF PlansInv
  <2> QED
    BY <2>2, <2>4, <2>5 DEF PlansInv, StepOK
<1>3. ASSUME NEW yes \in BOOLEAN, NEW ok \in BOOLEAN, AnswerDelete(yes, ok) PROVE StepOK
  <2> DEFINE r == [Request("delete", FALSE) EXCEPT !.ok = ok]
  <2>1. RequestOK(r) /\ ~r.own
    BY PlainRequestOK
  <2> HIDE DEF r
  <2>2. /\ inFlight' = inFlight \cup {r} \/ inFlight' = inFlight
        /\ saved' = saved \/ saved' = [saved EXCEPT ![deletePlan] = NoPlan]
        /\ deletePlan \in Plans /\ deletePlan' = NoPlan
        /\ UNCHANGED <<plans, deepPlanId, editor>>
    BY <1>3 DEF AnswerDelete, Posts, PlansInv, r
  <2>3. saved' \in Listing
    BY <2>2 DEF PlansInv, Listing
  <2>4. RequestsOK(inFlight', editor')
    BY <2>1, <2>2, PostsOK DEF PlansInv
  <2> QED
    BY <2>2, <2>3, <2>4 DEF PlansInv, StepOK
<1> QED
  BY <1>1, <1>2, <1>3

LEMMA RowReplyOK ==
  ASSUME PlansInv, NEW r \in inFlight, RowReply(r)
  PROVE  StepOK
<1>1. RequestsOK(inFlight \ {r}, editor)
  BY DEF PlansInv, RequestsOK
<1>2. \/ inFlight' = inFlight \ {r}
      \/ \E q \in ListRequests : inFlight' = (inFlight \ {r}) \cup {q}
  BY DEF RowReply, load
<1>3. UNCHANGED <<saved, plans, deepPlanId, editor>> /\ deletePlan' \in {NoPlan, deletePlan}
  BY DEF RowReply
<1>4. RequestsOK(inFlight', editor)
  BY <1>1, <1>2, <1>3, LoadOK DEF PlansInv
<1> QED
  BY <1>3, <1>4 DEF PlansInv, StepOK

-----------------------------------------------------------------------------
(* The editor. *)

\* The editor is there and stays.
LEMMA EditedOK ==
  ASSUME PlansInv, editor' \in Editors, RequestsOK(inFlight', editor'),
         inFlight' # inFlight => editor'.graph = editor.graph,
         saved' \in Listing, UNCHANGED <<plans, deepPlanId, deletePlan>>
  PROVE  StepOK
BY DEF PlansInv, StepOK

LEMMA SameRequests ==
  ASSUME PlansInv, editor # NoPlan, editor' \in Editors, inFlight' = inFlight
  PROVE  RequestsOK(inFlight', editor')
BY EditorParts DEF PlansInv, RequestsOK

LEMMA ChangesOK ==
  ASSUME PlansInv,
         OpenSettings \/ (\E g \in Graphs : Draw(g)) \/ \E on \in BOOLEAN : submitMeta(on)
  PROVE  StepOK
<1>1. /\ editor \in Editors /\ editor # NoPlan /\ inFlight' = inFlight
      /\ UNCHANGED <<saved, plans, deepPlanId, deletePlan>>
  BY DEF PlansInv, OpenSettings, Draw, submitMeta, Editing, pageVars
<1>2. editor' \in Editors
  <2>1. ASSUME NEW g \in Graphs, Draw(g) PROVE editor' \in Editors
    BY <1>1, <2>1 DEF Draw, Editors
  <2>2. CASE OpenSettings
    <3> DEFINE yes == TRUE
    <3>1. editor' = [editor EXCEPT !.metaOpen = yes] /\ yes \in BOOLEAN
      BY <2>2 DEF OpenSettings
    <3> HIDE DEF yes
    <3> QED
      BY <1>1, <3>1, EditorSwitched DEF Switches
  <2>3. ASSUME NEW on \in BOOLEAN, submitMeta(on) PROVE editor' \in Editors
    <3> DEFINE yes == TRUE
               no == FALSE
               e1 == [editor EXCEPT !.metaOpen = no]
               e2 == [e1 EXCEPT !.named = yes]
               e3 == [e2 EXCEPT !.on = on]
    <3>1. editor' = e1 \/ editor' = e3
      BY <2>3 DEF submitMeta
    <3>2. yes \in BOOLEAN /\ no \in BOOLEAN
      OBVIOUS
    <3> HIDE DEF yes, no
    <3>3. e1 \in Editors
      BY <1>1, <3>2, EditorSwitched DEF Switches
    <3> HIDE DEF e1
    <3>4. e2 \in Editors
      BY <3>2, <3>3, EditorSwitched DEF Switches
    <3> HIDE DEF e2
    <3>5. e3 \in Editors
      BY <3>4, EditorSwitched DEF Switches
    <3> HIDE DEF e3
    <3> QED
      BY <3>1, <3>3, <3>5
  <2> QED
    BY <2>1, <2>2, <2>3
<1> QED
  BY <1>1, <1>2, SameRequests, EditedOK DEF PlansInv

LEMMA savePlanOK ==
  ASSUME PlansInv, NEW ok \in BOOLEAN, savePlan(ok)
  PROVE  StepOK
<1>1. /\ editor \in Editors /\ editor # NoPlan /\ editor' = editor
      /\ UNCHANGED <<plans, deepPlanId, deletePlan>>
  BY DEF PlansInv, savePlan, Editing, pageVars
<1>2. Drawn \in Plan
  <2>1. editor.on \in BOOLEAN /\ editor.graph \in Graphs
    BY <1>1, EditorParts
  <2> QED
    BY <2>1 DEF Drawn, Plan
<1>3. CASE editor.id # NewPlan
  <2> DEFINE r == [Request("save", TRUE) EXCEPT !.ok = ok]
  <2>1. RequestOK(r)
    BY PlainRequestOK
  <2> HIDE DEF r
  <2>2. /\ inFlight' = inFlight \cup {r}
        /\ saved' = saved \/ saved' = [saved EXCEPT ![editor.id] = Drawn]
    BY <1>3 DEF savePlan, Posts, r
  <2>3. saved' \in Listing
    BY <1>2, <2>2 DEF PlansInv, Listing
  <2> QED
    BY <1>1, <2>1, <2>2, <2>3, PostsOK, EditedOK DEF PlansInv
<1>4. CASE editor.id = NewPlan
  <2>1. PICK p \in Plans :
          /\ saved' = IF ok THEN [saved EXCEPT ![p] = Drawn] ELSE saved
          /\ Posts([kind |-> "create", own |-> TRUE, ok |-> ok, id |-> p, on |-> editor.on])
    BY <1>4 DEF savePlan
  <2> DEFINE yes == TRUE
             on == editor.on
             r == [kind |-> "create", own |-> yes, ok |-> ok, id |-> p, on |-> on]
  <2>2. inFlight' = inFlight \cup {r} /\ on \in BOOLEAN
    BY <1>1, <2>1, EditorParts DEF Posts
  <2> HIDE DEF on, yes
  <2>3. RequestOK(r)
    BY <2>2 DEF RequestOK
  <2> HIDE DEF r
  <2>4. saved' \in Listing
    BY <1>2, <2>1 DEF PlansInv, Listing
  <2> QED
    BY <1>1, <2>2, <2>3, <2>4, PostsOK, EditedOK DEF PlansInv
<1> QED
  BY <1>3, <1>4

LEMMA toggleEnabledOK ==
  ASSUME PlansInv, NEW ok \in BOOLEAN, toggleEnabled(ok)
  PROVE  StepOK
<1> DEFINE next == ~editor.on
           e == [editor EXCEPT !.on = next]
<1>1. /\ editor \in Editors /\ editor # NoPlan
      /\ UNCHANGED <<plans, deepPlanId, deletePlan>>
  BY DEF PlansInv, toggleEnabled, Editing, pageVars
<1>2. editor.on \in BOOLEAN /\ editor.graph \in Graphs /\ next \in BOOLEAN
  BY <1>1, EditorParts
<1>3. editor' = e
  BY <1>1 DEF toggleEnabled, Editors
<1> HIDE DEF next
<1>4. e \in Editors /\ e.graph = editor.graph
  BY <1>1, <1>2, EditorSwitched DEF Switches
<1> HIDE DEF e
<1>5. CASE editor.id = NewPlan
  <2>1. UNCHANGED <<saved, inFlight>>
    BY <1>5 DEF toggleEnabled
  <2> QED
    BY <1>1, <1>3, <1>4, <2>1, SameRequests, EditedOK DEF PlansInv
<1>6. CASE editor.id # NewPlan
  <2> DEFINE yes == TRUE
             r == [kind |-> "toggle", own |-> yes, ok |-> ok, next |-> next]
             d == [Drawn EXCEPT !.on = ~@]
  <2>1. inFlight' = inFlight \cup {r} /\ (saved' = saved \/ saved' = [saved EXCEPT ![editor.id] = d])
    BY <1>6 DEF toggleEnabled, Posts, next
  <2>2. d \in Plan
    <3>1. d = [on |-> next, graph |-> editor.graph]
      BY DEF Drawn, next
    <3> HIDE DEF d
    <3> QED
      BY <1>2, <3>1 DEF Plan
  <2> HIDE DEF d
  <2>3. saved' \in Listing
    BY <2>1, <2>2 DEF PlansInv, Listing
  <2> HIDE DEF yes
  <2>4. RequestOK(r)
    BY <1>2 DEF RequestOK
  <2> HIDE DEF r
  <2>5. RequestsOK(inFlight, e)
    BY <1>1, <1>4, EditorParts DEF PlansInv, RequestsOK
  <2>6. RequestsOK(inFlight', editor')
    BY <1>3, <1>4, <2>1, <2>4, <2>5, PostsOK, EditorParts
  <2> QED
    BY <1>1, <1>3, <1>4, <2>3, <2>6, EditedOK
<1> QED
  BY <1>5, <1>6

LEMMA SaveReplyOK ==
  ASSUME PlansInv, NEW r \in inFlight, SaveReply(r)
  PROVE  StepOK
<1> DEFINE rs == inFlight \ {r}
<1>1. RequestsOK(rs, editor) /\ RequestOK(r) /\ (r.own => editor # NoPlan /\ editor \in Editors)
  BY DEF PlansInv, RequestsOK
<1>2. UNCHANGED <<saved, plans, deepPlanId, deletePlan>>
  BY DEF SaveReply
<1>3. CASE r.ok /\ r.kind = "create" /\ r.own
  <2> DEFINE yes == TRUE
             e1 == [editor EXCEPT !.id = r.id]
             e2 == [e1 EXCEPT !.on = r.on]
             e3 == [e2 EXCEPT !.named = yes]
             run == RunsRequest(r.id, FALSE, "runs")
  <2>1. /\ editor' = e3
        /\ \E q \in ListRequests : inFlight' = (rs \cup {run}) \cup {q}
    BY <1>3 DEF SaveReply, Created, load
  <2>2. r.id \in Plans /\ r.on \in BOOLEAN /\ yes \in BOOLEAN
    BY <1>1, <1>3 DEF RequestOK
  <2> HIDE DEF yes
  <2>3. e1 \in Editors /\ e1.graph = editor.graph
    BY <1>1, <1>3, <2>2 DEF Editors
  <2> HIDE DEF e1
  <2>4. e2 \in Editors /\ e2.graph = editor.graph
    BY <2>2, <2>3, EditorSwitched DEF Switches
  <2> HIDE DEF e2
  <2>5. e3 \in Editors /\ e3.graph = editor.graph
    BY <2>2, <2>4, EditorSwitched DEF Switches
  <2> HIDE DEF e3
  <2>6. RequestOK(run)
    BY RunsRequestOK
  <2> HIDE DEF run, rs
  <2>7. e3 # NoPlan
    BY <2>5, EditorParts
  <2>8. RequestsOK(rs \cup {run}, e3)
    BY <1>1, <2>6, <2>7 DEF RequestsOK
  <2>9. RequestsOK(inFlight', editor')
    BY <1>2, <2>1, <2>8, LoadOK DEF PlansInv
  <2> QED
    BY <1>2, <2>1, <2>5, <2>9, EditedOK DEF PlansInv
<1>4. CASE r.ok /\ ~(r.kind = "create" /\ r.own)
  <2>1. editor' = editor /\ \E q \in ListRequests : inFlight' = rs \cup {q}
    BY <1>4 DEF SaveReply, Created, load
  <2>2. RequestsOK(inFlight', editor')
    BY <1>1, <1>2, <2>1, LoadOK DEF PlansInv
  <2> QED
    BY <1>2, <2>1, <2>2 DEF PlansInv, StepOK
<1>5. CASE ~r.ok /\ r.kind = "toggle" /\ r.own
  <2> DEFINE on == ~r.next
             e == [editor EXCEPT !.on = on]
  <2>1. editor' = e /\ inFlight' = rs
    BY <1>5 DEF SaveReply
  <2>2. on \in BOOLEAN
    BY <1>1, <1>5 DEF RequestOK
  <2> HIDE DEF on
  <2>3. e \in Editors /\ e.graph = editor.graph
    BY <1>1, <1>5, <2>2, EditorSwitched DEF Switches
  <2> HIDE DEF e, rs
  <2>4. RequestsOK(inFlight', editor')
    BY <1>1, <2>1, <2>3, EditorParts DEF RequestsOK
  <2> QED
    BY <1>2, <2>1, <2>3, <2>4, EditedOK DEF PlansInv
<1>6. CASE ~r.ok /\ ~(r.kind = "toggle" /\ r.own)
  <2>1. editor' = editor /\ inFlight' = rs
    BY <1>6 DEF SaveReply
  <2> QED
    BY <1>1, <1>2, <2>1 DEF PlansInv, StepOK
<1> QED
  BY <1>3, <1>4, <1>5, <1>6

-----------------------------------------------------------------------------
(* The panel of runs. *)

LEMMA RunsOK ==
  ASSUME PlansInv, NEW r \in inFlight, RunsReply(r)
  PROVE  StepOK
<1>1. RequestsOK(inFlight \ {r}, editor) /\ RequestOK(r) /\ (r.own => editor # NoPlan /\ editor \in Editors)
  BY DEF PlansInv, RequestsOK
<1>2. /\ inFlight' = inFlight \ {r} /\ editor' = RunsShown(r) /\ r.kind = "runs"
      /\ UNCHANGED <<saved, plans, deepPlanId, deletePlan>>
  BY DEF RunsReply, pageVars
<1>3. CASE ~r.own
  <2>1. editor' = editor
    BY <1>2, <1>3 DEF RunsShown
  <2> QED
    BY <1>1, <1>2, <2>1 DEF PlansInv, StepOK
<1>4. CASE r.own
  <2> DEFINE e1 == [editor EXCEPT !.listed = r.has]
             drawn == editor.drawn \/ (r.expanded /\ r.has)
             e2 == [e1 EXCEPT !.drawn = drawn]
  <2>1. editor' = e2
    BY <1>1, <1>2, <1>4 DEF RunsShown, Editors
  <2>2. r.has \in BOOLEAN /\ drawn \in BOOLEAN
    BY <1>1, <1>2, <1>4, EditorParts DEF RequestOK
  <2> HIDE DEF drawn
  <2>3. e1 \in Editors /\ e1.graph = editor.graph
    BY <1>1, <1>4, <2>2, EditorSwitched DEF Switches
  <2> HIDE DEF e1
  <2>4. e2 \in Editors /\ e2.graph = editor.graph
    BY <2>2, <2>3, EditorSwitched DEF Switches
  <2> HIDE DEF e2
  <2>5. RequestsOK(inFlight', editor')
    BY <1>1, <1>2, <2>1, <2>4, EditorParts DEF RequestsOK
  <2> QED
    BY <1>2, <2>1, <2>4, <2>5, EditedOK DEF PlansInv
<1> QED
  BY <1>3, <1>4

LEMMA ToggleRunOK ==
  ASSUME PlansInv, ToggleRun
  PROVE  StepOK
<1> DEFINE next == ~editor.expanded
           e1 == [editor EXCEPT !.expanded = next]
           e2 == [e1 EXCEPT !.drawn = next]
           r == RunsRequest(editor.id, next, "runs")
<1>1. /\ editor \in Editors /\ editor # NoPlan /\ inFlight' = inFlight \cup {r}
      /\ UNCHANGED <<saved, plans, deepPlanId, deletePlan>>
  BY DEF PlansInv, ToggleRun, Editing, Posts, pageVars
<1>2. editor' = e2 /\ next \in BOOLEAN
  BY <1>1, EditorParts DEF ToggleRun, Editors
<1> HIDE DEF next
<1>3. e1 \in Editors /\ e1.graph = editor.graph
  BY <1>1, <1>2, EditorSwitched DEF Switches
<1> HIDE DEF e1
<1>4. e2 \in Editors /\ e2.graph = editor.graph
  BY <1>2, <1>3, EditorSwitched DEF Switches
<1> HIDE DEF e2
<1>5. RequestOK(r)
  BY <1>2, RunsRequestOK
<1> HIDE DEF r
<1>6. RequestsOK(inFlight', editor')
  BY <1>1, <1>2, <1>4, <1>5, EditorParts DEF PlansInv, RequestsOK
<1> QED
  BY <1>1, <1>2, <1>4, <1>6, EditedOK DEF PlansInv

LEMMA AskRunsOK ==
  ASSUME PlansInv, PollRuns \/ \E ok \in BOOLEAN, kind \in {"trigger", "cancel"} : AskRun(kind, ok)
  PROVE  StepOK
<1>1. /\ editor \in Editors /\ editor # NoPlan /\ editor' = editor
      /\ UNCHANGED <<saved, plans, deepPlanId, deletePlan>>
  BY DEF PlansInv, PollRuns, AskRun, Editing, pageVars
<1>2. RequestsOK(inFlight', editor)
  <2>1. CASE PollRuns
    <3> DEFINE r == loadRuns("runs")
    <3>1. inFlight' = inFlight \cup {r} /\ editor.expanded \in BOOLEAN
      BY <1>1, <2>1, EditorParts DEF PollRuns, Posts
    <3>2. RequestOK(r)
      BY <3>1, RunsRequestOK DEF loadRuns
    <3> HIDE DEF r
    <3> QED
      BY <1>1, <3>1, <3>2, PostsOK DEF PlansInv
  <2>2. ASSUME NEW ok \in BOOLEAN, NEW kind \in {"trigger", "cancel"}, AskRun(kind, ok)
        PROVE  RequestsOK(inFlight', editor)
    <3> DEFINE yes == TRUE
               r == [kind |-> kind, own |-> yes, ok |-> ok, id |-> editor.id]
    <3>1. inFlight' = inFlight \cup {r}
      BY <2>2 DEF AskRun, Posts
    <3> HIDE DEF yes
    <3>2. RequestOK(r)
      BY DEF RequestOK
    <3> HIDE DEF r
    <3> QED
      BY <1>1, <3>1, <3>2, PostsOK DEF PlansInv
  <2> QED
    BY <2>1, <2>2
<1> QED
  BY <1>1, <1>2 DEF PlansInv, StepOK

LEMMA AskRunReplyOK ==
  ASSUME PlansInv, NEW r \in inFlight, AskRunReply(r)
  PROVE  StepOK
<1> DEFINE rs == inFlight \ {r}
           was == r.own /\ editor.expanded
           then == IF r.kind = "trigger" THEN "triggered" ELSE "runs"
           run == RunsRequest(r.id, was, then)
           own == r.own
           q == [run EXCEPT !.own = own]
           yes == TRUE
           e1 == [editor EXCEPT !.expanded = yes]
           e2 == [e1 EXCEPT !.drawn = yes]
<1>1. RequestsOK(rs, editor) /\ RequestOK(r) /\ (r.own => editor # NoPlan /\ editor \in Editors)
  BY DEF PlansInv, RequestsOK
<1>2. UNCHANGED <<saved, plans, deepPlanId, deletePlan>>
  BY DEF AskRunReply, pageVars
<1>3. /\ inFlight' = rs \/ inFlight' = rs \cup {q}
      /\ editor' = editor \/ (r.own /\ editor' = e2)
  BY DEF AskRunReply
<1>4. RequestOK(q) /\ (q.own => r.own)
  <2>1. was \in BOOLEAN
    OBVIOUS
  <2>2. then # "list" /\ then # "create" /\ then # "toggle"
    OBVIOUS
  <2> HIDE DEF was, then
  <2>3. /\ RequestOK(run) /\ run.kind = then /\ run.expanded = was /\ run.has \in BOOLEAN
        /\ {"kind", "own", "expanded", "has"} \subseteq DOMAIN run
    <3> DEFINE has == r.id \in ran
               t == TRUE
               R == [kind |-> then, own |-> t, ok |-> t, expanded |-> was, has |-> has]
    <3>1. run = R /\ has \in BOOLEAN
      BY DEF RunsRequest
    <3>2. RequestOK(run)
      BY <2>1, <2>2, RunsRequestOK
    <3> HIDE DEF has, t, run
    <3> QED
      BY <3>1, <3>2
  <2> HIDE DEF run, own
  <2>4. /\ q.own = own /\ q.kind = then /\ q.expanded = was /\ q.has = run.has
        /\ q = [x \in DOMAIN q |-> q[x]] /\ {"kind", "own"} \subseteq DOMAIN q
    BY <2>3 DEF RequestOK
  <2> HIDE DEF q
  <2>5. RequestOK(q)
    BY <2>1, <2>2, <2>3, <2>4 DEF RequestOK
  <2> QED
    BY <2>4, <2>5 DEF own
<1> HIDE DEF q, rs
<1>5. r.own => e2 \in Editors /\ e2.graph = editor.graph
  <2> SUFFICES ASSUME r.own PROVE e2 \in Editors /\ e2.graph = editor.graph
    OBVIOUS
  <2>1. yes \in BOOLEAN
    OBVIOUS
  <2> HIDE DEF yes
  <2>2. e1 \in Editors /\ e1.graph = editor.graph
    BY <1>1, <2>1, EditorSwitched DEF Switches
  <2> HIDE DEF e1
  <2> QED
    BY <2>1, <2>2, EditorSwitched DEF Switches
<1> HIDE DEF e2
<1>6. editor # NoPlan => editor' # NoPlan
  BY <1>3, <1>5, EditorParts
<1>7. RequestsOK(inFlight', editor')
  BY <1>1, <1>3, <1>4, <1>6 DEF RequestsOK
<1>8. editor' = editor \/ (editor' \in Editors /\ editor'.graph = editor.graph)
  BY <1>3, <1>5
<1> QED
  BY <1>2, <1>7, <1>8 DEF PlansInv, StepOK

-----------------------------------------------------------------------------

LEMMA PlansStep == PlansInv /\ [PlansNext]_plansVars => StepOK
<1> SUFFICES ASSUME PlansInv, [PlansNext]_plansVars PROVE StepOK
  OBVIOUS
<1>1. CASE UNCHANGED plansVars
  BY <1>1 DEF plansVars, pageVars, PlansInv, StepOK
<1> QED
  BY <1>1, TravelOK, OpenOK, RowsOK, ChangesOK, savePlanOK, toggleEnabledOK, AskRunsOK, ToggleRunOK,
     ListReplyOK, RowReplyOK, SaveReplyOK, RunsOK, AskRunReplyOK DEF PlansNext

\* No answer of the server ever replaces what the user has drawn, with any number of plans
\* and of requests under way, answered in any order (PlansPage, PlanEditor, PlanRuns).
THEOREM DrawingStaysTheUsers == PlansSpec => DrawingIsTheUsers
<1>1. PlansInit => PlansInv
  <2> SUFFICES ASSUME PlansInit PROVE PlansInv
    OBVIOUS
  <2>1. NothingListed \in Listing
    BY DEF NothingListed, Listing
  <2>2. saved \in Listing
    <3>1. [on : {FALSE}, graph : Graphs] \subseteq Plan
      BY Zenon DEF Plan
    <3> QED
      BY <3>1 DEF PlansInit, Listing
  <2> QED
    BY <2>1, <2>2 DEF PlansInit, PlansInv, RequestsOK
<1>2. PlansInv /\ [PlansNext]_plansVars => PlansInv'
  BY PlansStep DEF StepOK
<1>3. PlansInv /\ [PlansNext]_plansVars =>
        [editor # NoPlan /\ editor' # NoPlan /\ inFlight' # inFlight => editor'.graph = editor.graph]_plansVars
  BY PlansStep DEF StepOK
<1> QED
  BY <1>1, <1>2, <1>3, PTL DEF PlansSpec, DrawingIsTheUsers

-----------------------------------------------------------------------------
(* PlanCanvas: The counter. *)

\* Finitely many numbers have an upper bound.
LEMMA Bounded ==
  ASSUME NEW n \in Nat, NEW f \in [1..n -> Nat]
  PROVE  \E b \in Nat : \A i \in 1..n : f[i] <= b
<1> DEFINE Bound(m, b) == \A i \in 1..m : f[i] <= b
           Free(m) == \A b \in Nat : ~Bound(m, b)
           Without == {m \in 0..n : Free(m)}
<1>2. SUFFICES ASSUME ~ \E b \in Nat : Bound(n, b)
               PROVE  FALSE
  OBVIOUS
<1>1. n \in Without /\ Without \subseteq Nat
  <2> HIDE DEF Bound
  <2>1. n \in 0..n /\ 0..n \subseteq Nat
    OBVIOUS
  <2> QED
    BY <1>2, <2>1, Zenon
<1>3. PICK m \in Without : \A j \in Without : ~(<<j, m>> \in OpToRel(<, Nat))
  <2> HIDE DEF Without
  <2> QED
    BY <1>1, NatLessThanWellFounded, WFMin, Zenon
<1>4. m \in Nat /\ m <= n /\ Free(m)
  <2>1. m \in 0..n /\ Free(m)
    <3> HIDE DEF Free
    <3> QED
      BY <1>3, Zenon
  <2> QED
    BY <2>1
<1>5. \A j \in Without : ~(j < m)
  BY <1>1, <1>3, <1>4 DEF OpToRel
<1>6. Bound(0, 0)
  OBVIOUS
<1>7. m # 0
  BY <1>4, <1>6
<1>8. m - 1 \in 0..n /\ m - 1 < m
  BY <1>4, <1>7
<1>9. ~Free(m - 1)
  BY <1>5, <1>8
<1>10. PICK b \in Nat : Bound(m - 1, b)
  BY <1>9
<1> DEFINE x == f[m]
           c == IF x <= b THEN b ELSE x
<1>11. x \in Nat /\ c \in Nat /\ x <= c /\ b <= c
  BY <1>4, <1>7
<1> HIDE DEF c, Without
<1>12. ASSUME NEW i \in 1..m
       PROVE  f[i] <= c
  <2>1. CASE i = m
    BY <1>11, <2>1
  <2>2. CASE i # m
    <3>1. i \in 1..(m - 1) /\ i \in 1..n
      BY <1>4, <1>7, <2>2
    <3>2. f[i] <= b /\ f[i] \in Nat
      BY <1>10, <3>1
    <3> QED
      BY <1>11, <3>2
  <2> QED
    BY <2>1, <2>2
<1> QED
  BY <1>4, <1>11, <1>12

\* The counter is set at or above every id.
LEMMA HighestIsHigh ==
  ASSUME NEW ns \in Seq(Node)
  PROVE  Highest(ns) \in Nat /\ \A i \in DOMAIN ns : ns[i].id <= Highest(ns)
<1> DEFINE S == {0} \cup IdsOf(ns)
           Up == {b \in Nat : \A s \in S : s <= b}
           n == Len(ns)
           f == [i \in 1..n |-> ns[i].id]
<1>0. n \in Nat /\ DOMAIN ns = 1..n /\ \A i \in 1..n : ns[i] \in Node
  OBVIOUS
<1>00. \A i \in 1..n : ns[i].id \in Nat
  BY <1>0, Zenon DEF Node
<1> HIDE DEF n
<1>1. S \subseteq Nat /\ 0 \in S
  BY <1>0, <1>00 DEF IdsOf
<1>2. Up # {}
  <2>1. f \in [1..n -> Nat]
    BY <1>00
  <2>2. PICK b \in Nat : \A i \in 1..n : f[i] <= b
    <3> HIDE DEF f
    <3> QED
      BY <1>0, <2>1, Bounded
  <2>3. \A s \in S : s <= b
    BY <1>0, <2>2 DEF IdsOf
  <2> QED
    BY <2>3
<1>3. PICK m \in Up : \A j \in Up : ~(<<j, m>> \in OpToRel(<, Nat))
  <2>1. Up \subseteq Nat
    OBVIOUS
  <2> HIDE DEF Up
  <2> QED
    BY <1>2, <2>1, NatLessThanWellFounded, WFMin, Zenon
<1> HIDE DEF S
<1>4. m \in Nat /\ \A s \in S : s <= m
  BY <1>3
<1>5. m \in S
  <2> SUFFICES ASSUME m \notin S PROVE FALSE
    OBVIOUS
  <2>1. \A s \in S : s \in Nat /\ s <= m /\ s # m
    BY <1>1, <1>4
  <2>2. m # 0
    BY <1>1, <2>1
  <2>3. m - 1 \in Nat /\ m - 1 < m /\ \A s \in S : s <= m - 1
    BY <1>4, <2>1, <2>2
  <2>4. m - 1 \in Up
    BY <2>3
  <2> QED
    BY <1>3, <1>4, <2>3, <2>4 DEF OpToRel
<1>6. \E x \in S : \A y \in S : x >= y
  BY <1>1, <1>4, <1>5
<1>7. Max(S) \in S /\ \A y \in S : Max(S) >= y
  BY <1>6, Zenon DEF Max
<1>8. Highest(ns) = Max(S)
  BY DEF Highest, S
<1>9. \A i \in DOMAIN ns : ns[i].id \in S
  BY DEF IdsOf, S
<1> HIDE DEF Up
<1>10. Max(S) \in Nat /\ \A i \in DOMAIN ns : ns[i].id \in Nat /\ Max(S) >= ns[i].id
  BY <1>1, <1>7, <1>9
<1> QED
  BY <1>8, <1>10

-----------------------------------------------------------------------------
(* What each change of the two lists leaves sound. *)

\* The ways out of a node are finitely many.
LEMMA WaysAreFinite ==
  ASSUME NEW es \in Seq(Edge), NEW id
  PROVE  /\ OutOf(id, es) \subseteq DOMAIN es
         /\ IsFiniteSet(OutOf(id, es)) /\ Cardinality(OutOf(id, es)) \in Nat
<1> DEFINE n == Len(es)
<1>1. n \in Nat /\ DOMAIN es = 1..n
  OBVIOUS
<1>2. OutOf(id, es) \in SUBSET (1..n)
  BY <1>1 DEF OutOf
<1> QED
  BY <1>1, <1>2, PositionsAreFinite

\* What is kept was there, and stays apart.
LEMMA KeptPoint ==
  ASSUME NEW T, NEW list \in Seq(T), NEW set \in SUBSET (DOMAIN list)
  PROVE  /\ \A k \in DOMAIN Kept(list, set) : Nth(set, k) \in set /\ Kept(list, set)[k] = list[Nth(set, k)]
         /\ \A k, l \in DOMAIN Kept(list, set) : Nth(set, k) = Nth(set, l) => k = l
         /\ \A i \in set : \E k \in DOMAIN Kept(list, set) : Nth(set, k) = i
<1> DEFINE n == Len(list)
<1>1. n \in Nat /\ DOMAIN list = 1..n
  OBVIOUS
<1>2. DOMAIN Kept(list, set) = 1..Cardinality(set)
  BY DEF Kept
<1> HIDE DEF n
<1>3. set \in SUBSET (1..n)
  BY <1>1
<1>4. \A k \in 1..Cardinality(set) : Nth(set, k) \in set /\ Cardinality(UpTo(set, Nth(set, k))) = k
  BY <1>1, <1>3, NthIsThere
<1>5. \A k, l \in 1..Cardinality(set) : Nth(set, k) = Nth(set, l) => k = l
  BY <1>4, Zenon
<1>6. \A i \in set : \E k \in 1..Cardinality(set) : Nth(set, k) = i
  BY <1>1, <1>3, EveryPositionIsNth
<1>7. \A k \in 1..Cardinality(set) : Kept(list, set)[k] = list[Nth(set, k)]
  BY DEF Kept
<1> QED
  BY <1>2, <1>4, <1>5, <1>6, <1>7

\* Filtering the edges opens no new way out.
LEMMA FewerWays ==
  ASSUME NEW es \in Seq(Edge), NEW set \in SUBSET (DOMAIN es), NEW id
  PROVE  /\ Cardinality(OutOf(id, Kept(es, set))) <= Cardinality(OutOf(id, es))
         /\ Cardinality(OutOf(id, Kept(es, set))) \in Nat
<1> DEFINE new == Kept(es, set)
           A == OutOf(id, new)
           B == OutOf(id, es)
           f == [k \in A |-> Nth(set, k)]
<1>1. new \in Seq(Edge)
  BY KeptIsList
<1>2. /\ \A k \in DOMAIN new : Nth(set, k) \in set /\ new[k] = es[Nth(set, k)]
      /\ \A k, l \in DOMAIN new : Nth(set, k) = Nth(set, l) => k = l
  BY KeptPoint
<1>3. A \subseteq DOMAIN new /\ B \subseteq DOMAIN es
  BY DEF OutOf
<1>4. IsFiniteSet(B) /\ Cardinality(A) \in Nat
  BY <1>1, WaysAreFinite
<1>5. \A k \in A : Nth(set, k) \in B
  BY <1>2 DEF OutOf
<1>6. \A k, l \in A : Nth(set, k) = Nth(set, l) => k = l
  BY <1>2, <1>3
<1> HIDE DEF A, B
<1>7. f \in Injection(A, B)
  BY <1>5, <1>6 DEF Injection, IsInjective
<1>8. Cardinality(A) <= Cardinality(B)
  BY <1>4, <1>7, FS_Injection
<1> QED
  BY <1>4, <1>8 DEF A, B

\* Nodes and edges may be taken away, the edges of a node with it.
LEMMA KeptSound ==
  ASSUME NEW ns \in Seq(Node), NEW es \in Seq(Edge), Sound(ns, es),
         NEW N \in SUBSET (DOMAIN ns), NEW E \in SUBSET (DOMAIN es),
         \A i \in E : \A id \in {es[i].source, es[i].target} : \E j \in N : ns[j].id = id
  PROVE  Sound(Kept(ns, N), Kept(es, E))
<1> DEFINE newNs == Kept(ns, N)
           newEs == Kept(es, E)
<1>1. /\ \A k \in DOMAIN newNs : Nth(N, k) \in N /\ newNs[k] = ns[Nth(N, k)]
      /\ \A k, l \in DOMAIN newNs : Nth(N, k) = Nth(N, l) => k = l
      /\ \A i \in N : \E k \in DOMAIN newNs : Nth(N, k) = i
  BY KeptPoint
<1>2. \A k \in DOMAIN newEs : Nth(E, k) \in E /\ newEs[k] = es[Nth(E, k)]
  BY KeptPoint
<1>3. \A id : /\ Cardinality(OutOf(id, newEs)) <= Cardinality(OutOf(id, es))
              /\ Cardinality(OutOf(id, newEs)) \in Nat
  BY FewerWays
<1>31. \A id : Cardinality(OutOf(id, es)) \in Nat
  BY WaysAreFinite
<1>4. N \subseteq DOMAIN ns /\ E \subseteq DOMAIN es
  OBVIOUS
<1>5. /\ \A i, j \in DOMAIN ns : ns[i].id = ns[j].id => i = j
      /\ \A i \in DOMAIN ns : Cardinality(OutOf(ns[i].id, es)) <= MaxOut(ns[i].type)
  BY DEF Sound
<1> HIDE DEF newNs, newEs
<1>6. \A k, l \in DOMAIN newNs : newNs[k].id = newNs[l].id => k = l
  BY <1>1, <1>4, <1>5
<1>7. \A k \in DOMAIN newEs : {newEs[k].source, newEs[k].target} \subseteq IdsOf(newNs)
  <2> SUFFICES ASSUME NEW k \in DOMAIN newEs, NEW id \in {newEs[k].source, newEs[k].target}
               PROVE  id \in IdsOf(newNs)
    OBVIOUS
  <2>1. PICK j \in N : ns[j].id = id
    BY <1>2
  <2>2. PICK l \in DOMAIN newNs : Nth(N, l) = j
    BY <1>1
  <2> QED
    BY <1>1, <2>1, <2>2 DEF IdsOf
<1>8. ASSUME NEW k \in DOMAIN newNs
      PROVE  Cardinality(OutOf(newNs[k].id, newEs)) <= MaxOut(newNs[k].type)
  <2> DEFINE i == Nth(N, k)
  <2>1. i \in DOMAIN ns /\ newNs[k] = ns[i]
    BY <1>1, <1>4
  <2> HIDE DEF i
  <2>2. Cardinality(OutOf(ns[i].id, es)) <= MaxOut(ns[i].type)
    BY <1>5, <2>1
  <2>3. MaxOut(ns[i].type) \in Nat
    BY DEF MaxOut
  <2> QED
    BY <1>3, <1>31, <2>1, <2>2, <2>3
<1> QED
  BY <1>6, <1>7, <1>8 DEF Sound, newNs, newEs

\* A node with a new id has no edges yet.
LEMMA AddedNodeSound ==
  ASSUME NEW ns \in Seq(Node), NEW es \in Seq(Edge), Sound(ns, es), NEW x \in Node,
         x.id \notin IdsOf(ns)
  PROVE  Sound(Append(ns, x), es)
<1> DEFINE new == Append(ns, x)
           n == Len(ns)
<1>1. /\ n \in Nat /\ DOMAIN ns = 1..n /\ DOMAIN new = 1..(n + 1)
      /\ new[n + 1] = x /\ \A i \in 1..n : new[i] = ns[i]
  OBVIOUS
<1> HIDE DEF new, n
<1>2. \A i \in DOMAIN new : (i \in DOMAIN ns /\ new[i] = ns[i]) \/ (i = n + 1 /\ new[i] = x)
  BY <1>1
<1>3. \A i \in DOMAIN ns : i \in DOMAIN new /\ new[i] = ns[i] /\ ns[i].id # x.id
  BY <1>1 DEF IdsOf
<1>4. /\ \A i, j \in DOMAIN ns : ns[i].id = ns[j].id => i = j
      /\ \A i \in DOMAIN es : {es[i].source, es[i].target} \subseteq IdsOf(ns)
      /\ \A i \in DOMAIN ns : Cardinality(OutOf(ns[i].id, es)) <= MaxOut(ns[i].type)
  BY DEF Sound
<1>5. \A i, j \in DOMAIN new : new[i].id = new[j].id => i = j
  BY <1>2, <1>3, <1>4
<1>6. IdsOf(ns) \subseteq IdsOf(new)
  BY <1>3 DEF IdsOf
<1>7. \A i \in DOMAIN es : {es[i].source, es[i].target} \subseteq IdsOf(new)
  BY <1>4, <1>6, Zenon
<1>8. OutOf(x.id, es) = {}
  BY <1>4 DEF OutOf
<1>9. Cardinality(OutOf(x.id, es)) = 0
  BY <1>8, FS_EmptySet
<1>10. Cardinality(OutOf(x.id, es)) <= MaxOut(x.type)
  BY <1>9 DEF MaxOut
<1>11. \A i \in DOMAIN new : Cardinality(OutOf(new[i].id, es)) <= MaxOut(new[i].type)
  BY <1>2, <1>4, <1>10
<1> QED
  BY <1>5, <1>7, <1>11 DEF Sound, new

\* An edge between nodes that are there takes one of the ways out of its first end.
LEMMA AddedEdgeSound ==
  ASSUME NEW ns \in Seq(Node), NEW es \in Seq(Edge), Sound(ns, es), NEW e \in Edge,
         {e.source, e.target} \subseteq IdsOf(ns),
         \A i \in DOMAIN ns : ns[i].id = e.source => Cardinality(OutOf(e.source, es)) < MaxOut(ns[i].type)
  PROVE  Sound(ns, Append(es, e))
<1> DEFINE new == Append(es, e)
           n == Len(es)
<1>1. /\ n \in Nat /\ DOMAIN es = 1..n /\ DOMAIN new = 1..(n + 1)
      /\ new[n + 1] = e /\ \A i \in 1..n : new[i] = es[i]
  OBVIOUS
<1> HIDE DEF new, n
<1>2. \A i \in DOMAIN new : (i \in DOMAIN es /\ new[i] = es[i]) \/ (i = n + 1 /\ new[i] = e)
  BY <1>1
<1>3. /\ \A i, j \in DOMAIN ns : ns[i].id = ns[j].id => i = j
      /\ \A i \in DOMAIN es : {es[i].source, es[i].target} \subseteq IdsOf(ns)
      /\ \A i \in DOMAIN ns : Cardinality(OutOf(ns[i].id, es)) <= MaxOut(ns[i].type)
  BY DEF Sound
<1>4. \A i \in DOMAIN new : {new[i].source, new[i].target} \subseteq IdsOf(ns)
  BY <1>2, <1>3
<1>5. ASSUME NEW i \in DOMAIN ns
      PROVE  Cardinality(OutOf(ns[i].id, new)) <= MaxOut(ns[i].type)
  <2> DEFINE id == ns[i].id
  <2>1. /\ IsFiniteSet(OutOf(id, es)) /\ Cardinality(OutOf(id, es)) \in Nat
        /\ OutOf(id, es) \subseteq DOMAIN es
    BY WaysAreFinite
  <2>2. MaxOut(ns[i].type) \in Nat
    BY DEF MaxOut
  <2>3. \A k \in DOMAIN es : k \in DOMAIN new /\ new[k] = es[k]
    BY <1>1
  <2>4. n + 1 \in DOMAIN new /\ new[n + 1] = e /\ n + 1 \notin DOMAIN es
    BY <1>1
  <2> HIDE DEF id
  <2>5. CASE id # e.source
    <3>1. OutOf(id, new) = OutOf(id, es)
      BY <1>2, <2>3, <2>5, Zenon DEF OutOf
    <3> QED
      BY <1>3, <3>1 DEF id
  <2>6. CASE id = e.source
    <3>1. OutOf(id, new) = OutOf(id, es) \cup {n + 1}
      BY <1>2, <2>3, <2>4, <2>6, Zenon DEF OutOf
    <3>2. n + 1 \notin OutOf(id, es)
      BY <2>1, <2>4
    <3>3. Cardinality(OutOf(id, new)) = Cardinality(OutOf(id, es)) + 1
      BY <2>1, <3>1, <3>2, FS_AddElement
    <3>4. Cardinality(OutOf(id, es)) < MaxOut(ns[i].type)
      BY <2>6 DEF id
    <3> QED
      BY <2>1, <2>2, <3>3, <3>4 DEF id
  <2> QED
    BY <2>5, <2>6
<1> QED
  BY <1>3, <1>4, <1>5 DEF Sound, new

\* Edges that keep their ends may change anything else.
LEMMA SameEndsSound ==
  ASSUME NEW ns \in Seq(Node), NEW es \in Seq(Edge), Sound(ns, es), NEW new \in Seq(Edge),
         DOMAIN new = DOMAIN es,
         \A i \in DOMAIN es : new[i].source = es[i].source /\ new[i].target = es[i].target
  PROVE  Sound(ns, new)
<1>1. \A id : OutOf(id, new) = OutOf(id, es)
  BY DEF OutOf
<1>2. /\ \A i, j \in DOMAIN ns : ns[i].id = ns[j].id => i = j
      /\ \A i \in DOMAIN es : {es[i].source, es[i].target} \subseteq IdsOf(ns)
      /\ \A i \in DOMAIN ns : Cardinality(OutOf(ns[i].id, es)) <= MaxOut(ns[i].type)
  BY DEF Sound
<1>3. \A i \in DOMAIN new : {new[i].source, new[i].target} \subseteq IdsOf(ns)
  BY <1>2
<1>4. \A i \in DOMAIN ns : Cardinality(OutOf(ns[i].id, new)) <= MaxOut(ns[i].type)
  BY <1>1, <1>2
<1> QED
  BY <1>2, <1>3, <1>4 DEF Sound

-----------------------------------------------------------------------------
(* The canvas. *)

\* What the lists are, and what the counter has to do with them: the next id is new because
\* the counter is at or above every id.
CanvasInv ==
    /\ nodes \in Seq(Node) /\ edges \in Seq(Edge) /\ nodeIdCounter \in Nat
    /\ \A i \in DOMAIN nodes : nodes[i].id <= nodeIdCounter
    /\ Sound(nodes, edges)

LEMMA CanvasInitOK == CanvasInit => CanvasInv
<1> SUFFICES ASSUME CanvasInit
             PROVE  CanvasInv
  OBVIOUS
<1>1. nodes \in Seq(Node) /\ edges \in Seq(Edge) /\ Sound(nodes, edges)
  BY CanvasAssumption, Zenon DEF CanvasInit
<1>2. nodeIdCounter = Highest(nodes)
  BY Zenon DEF CanvasInit
<1>3. Highest(nodes) \in Nat /\ \A i \in DOMAIN nodes : nodes[i].id <= Highest(nodes)
  BY <1>1, HighestIsHigh
<1> QED
  BY <1>1, <1>2, <1>3, Zenon DEF CanvasInv

LEMMA addNodeKeeps ==
  ASSUME CanvasInv, NEW type \in {"action", "decision"}, addNode(type)
  PROVE  CanvasInv'
<1> DEFINE c == nodeIdCounter + 1
           x == [id |-> c, type |-> type]
           n == Len(nodes)
<1>1. nodeIdCounter' = c /\ nodes' = Append(nodes, x) /\ edges' = edges
  BY DEF addNode
<1>2. /\ nodes \in Seq(Node) /\ edges \in Seq(Edge) /\ nodeIdCounter \in Nat /\ Sound(nodes, edges)
      /\ \A i \in DOMAIN nodes : nodes[i].id <= nodeIdCounter
  BY DEF CanvasInv
<1>3. c \in Nat /\ x \in Node /\ x.id = c
  BY <1>2 DEF Node
<1>4. \A i \in DOMAIN nodes : nodes[i].id \in Nat
  <2>1. \A i \in DOMAIN nodes : nodes[i] \in Node
    BY <1>2
  <2> QED
    BY <2>1, Zenon DEF Node
<1>5. c \notin IdsOf(nodes)
  BY <1>2, <1>4 DEF IdsOf
<1>6. \A i \in DOMAIN nodes : nodes[i].id <= c
  BY <1>2, <1>4
<1> HIDE DEF c, x
<1>7. Sound(Append(nodes, x), edges)
  BY <1>2, <1>3, <1>5, AddedNodeSound
<1>8. Append(nodes, x) \in Seq(Node)
  BY <1>2, <1>3
<1>9. /\ DOMAIN Append(nodes, x) = 1..(n + 1) /\ DOMAIN nodes = 1..n /\ n \in Nat
      /\ Append(nodes, x)[n + 1] = x /\ \A i \in 1..n : Append(nodes, x)[i] = nodes[i]
  BY <1>2, <1>3
<1>10. ASSUME NEW i \in DOMAIN Append(nodes, x)
       PROVE  Append(nodes, x)[i].id <= c
  <2>1. CASE i = n + 1
    BY <1>3, <1>9, <2>1
  <2>2. CASE i # n + 1
    <3>1. i \in 1..n
      BY <1>9, <2>2
    <3> QED
      BY <1>6, <1>9, <3>1
  <2> QED
    BY <2>1, <2>2
<1> QED
  BY <1>1, <1>2, <1>3, <1>7, <1>8, <1>10 DEF CanvasInv

\* The type looked up for an id is that of every node with the id: there is one.
LEMMA TypeIsTheNodes ==
  ASSUME CanvasInv, NEW k \in DOMAIN nodes
  PROVE  TypeOfNode(nodes[k].id) = nodes[k].type
<1> DEFINE id == nodes[k].id
           set == {i \in DOMAIN nodes : nodes[i].id = id}
           n == Len(nodes)
<1>1. nodes \in Seq(Node) /\ \A i, j \in DOMAIN nodes : nodes[i].id = nodes[j].id => i = j
  BY DEF CanvasInv, Sound
<1>2. n \in Nat /\ DOMAIN nodes = 1..n /\ set \in SUBSET (1..n) /\ k \in set
  BY <1>1
<1> HIDE DEF n
<1>3. Nth(set, 1) \in set
  <2> HIDE DEF set
  <2> QED
    BY <1>2, FirstIsThere
<1>4. Nth(set, 1) = k
  BY <1>1, <1>3
<1>5. TypeOfNode(id) = nodes[Nth(set, 1)].type
  BY Zenon DEF TypeOfNode
<1> QED
  BY <1>4, <1>5

LEMMA onConnectKeeps ==
  ASSUME CanvasInv, NEW from, NEW to, NEW handle \in Labels, onConnect(from, to, handle)
  PROVE  CanvasInv'
<1> DEFINE e == [source |-> from, target |-> to, drawnFrom |-> handle, handle |-> handle]
<1>1. /\ from \in NodeIds /\ to \in NodeIds
      /\ Cardinality(OutOf(from, edges)) < MaxOut(TypeOfNode(from))
      /\ edges' = addEdge(e, edges) /\ nodes' = nodes /\ nodeIdCounter' = nodeIdCounter
  BY Zenon DEF onConnect
<1>2. /\ nodes \in Seq(Node) /\ edges \in Seq(Edge) /\ nodeIdCounter \in Nat /\ Sound(nodes, edges)
      /\ \A i \in DOMAIN nodes : nodes[i].id <= nodeIdCounter
  BY DEF CanvasInv
<1>3. \A i \in DOMAIN nodes : nodes[i].id \in Nat
  <2>1. \A i \in DOMAIN nodes : nodes[i] \in Node
    BY <1>2
  <2> QED
    BY <2>1, Zenon DEF Node
<1>4. from \in Nat /\ to \in Nat /\ {from, to} \subseteq IdsOf(nodes)
  BY <1>1, <1>3 DEF NodeIds, IdsOf
<1>5. e \in Edge /\ e.source = from /\ e.target = to
  BY <1>4 DEF Edge
<1> HIDE DEF e
<1>6. \A i \in DOMAIN nodes : nodes[i].id = from => Cardinality(OutOf(from, edges)) < MaxOut(nodes[i].type)
  BY <1>1, TypeIsTheNodes, Zenon
<1>7. Sound(nodes, Append(edges, e))
  BY <1>2, <1>4, <1>5, <1>6, AddedEdgeSound
<1>8. Append(edges, e) \in Seq(Edge)
  BY <1>2, <1>5
<1>9. edges' = edges \/ edges' = Append(edges, e)
  BY <1>1, Zenon DEF addEdge
<1> QED
  BY <1>1, <1>2, <1>7, <1>8, <1>9 DEF CanvasInv

\* Taking some nodes and edges away keeps the invariant, if it leaves no loose end.
LEMMA TakingAwayKeeps ==
  ASSUME CanvasInv, NEW N \in SUBSET (DOMAIN nodes), NEW E \in SUBSET (DOMAIN edges),
         \A i \in E : \A id \in {edges[i].source, edges[i].target} : \E j \in N : nodes[j].id = id,
         nodes' = Kept(nodes, N), edges' = Kept(edges, E), nodeIdCounter' = nodeIdCounter
  PROVE  CanvasInv'
<1>1. /\ nodes \in Seq(Node) /\ edges \in Seq(Edge) /\ nodeIdCounter \in Nat /\ Sound(nodes, edges)
      /\ \A i \in DOMAIN nodes : nodes[i].id <= nodeIdCounter
  BY DEF CanvasInv
<1>2. Kept(nodes, N) \in Seq(Node) /\ Kept(edges, E) \in Seq(Edge)
  BY <1>1, KeptIsList
<1>3. Sound(Kept(nodes, N), Kept(edges, E))
  BY <1>1, KeptSound
<1>4. \A k \in DOMAIN Kept(nodes, N) : Nth(N, k) \in N /\ Kept(nodes, N)[k] = nodes[Nth(N, k)]
  BY <1>1, KeptPoint
<1>5. \A k \in DOMAIN Kept(nodes, N) : Kept(nodes, N)[k].id <= nodeIdCounter
  BY <1>1, <1>4
<1> QED
  BY <1>1, <1>2, <1>3, <1>5 DEF CanvasInv

\* An end of an edge is the id of a node.
LEMMA EndsAreThere ==
  ASSUME CanvasInv, NEW i \in DOMAIN edges, NEW id \in {edges[i].source, edges[i].target}
  PROVE  \E j \in DOMAIN nodes : nodes[j].id = id
BY DEF CanvasInv, Sound, IdsOf

LEMMA WithoutNodeKeeps ==
  ASSUME CanvasInv, NEW id, WithoutNode(id), nodeIdCounter' = nodeIdCounter
  PROVE  CanvasInv'
<1> DEFINE N == {i \in DOMAIN nodes : nodes[i].id # id}
           E == {i \in DOMAIN edges : id \notin {edges[i].source, edges[i].target}}
<1>1. nodes' = Kept(nodes, N) /\ edges' = Kept(edges, E)
  BY DEF WithoutNode
<1>2. \A i \in E : \A x \in {edges[i].source, edges[i].target} : \E j \in N : nodes[j].id = x
  <2> SUFFICES ASSUME NEW i \in E, NEW x \in {edges[i].source, edges[i].target}
               PROVE  \E j \in N : nodes[j].id = x
    OBVIOUS
  <2>1. i \in DOMAIN edges /\ x # id
    OBVIOUS
  <2>2. PICK j \in DOMAIN nodes : nodes[j].id = x
    BY <2>1, EndsAreThere
  <2> QED
    BY <2>1, <2>2
<1>3. N \in SUBSET (DOMAIN nodes) /\ E \in SUBSET (DOMAIN edges)
  OBVIOUS
<1> HIDE DEF N, E
<1> QED
  BY <1>1, <1>2, <1>3, TakingAwayKeeps

LEMMA WithoutEdgeKeeps ==
  ASSUME CanvasInv, NEW id, WithoutEdge(id), nodes' = nodes, nodeIdCounter' = nodeIdCounter
  PROVE  CanvasInv'
<1> DEFINE N == DOMAIN nodes
           E == {i \in DOMAIN edges : IdOf(edges[i]) # id}
<1>1. nodes \in Seq(Node)
  BY DEF CanvasInv
<1>2. nodes' = Kept(nodes, N) /\ edges' = Kept(edges, E)
  BY <1>1, KeptAll DEF WithoutEdge
<1>3. N \in SUBSET (DOMAIN nodes) /\ E \in SUBSET (DOMAIN edges)
  OBVIOUS
<1>4. \A i \in E : \A x \in {edges[i].source, edges[i].target} : \E j \in N : nodes[j].id = x
  BY <1>3, EndsAreThere
<1> HIDE DEF N, E
<1> QED
  BY <1>2, <1>3, <1>4, TakingAwayKeeps

LEMMA updateSelectedEdgeKeeps ==
  ASSUME CanvasInv, NEW label \in Labels, updateSelectedEdge(label)
  PROVE  CanvasInv'
<1> DEFINE hit(i) == IdOf(edges[i]) = picked.id
           Given(i) == [edges[i] EXCEPT !.handle = label]
           new == [i \in DOMAIN edges |-> IF hit(i) THEN Given(i) ELSE edges[i]]
           n == Len(edges)
<1>1. edges' = new /\ nodes' = nodes /\ nodeIdCounter' = nodeIdCounter
  BY Zenon DEF updateSelectedEdge
<1>2. /\ nodes \in Seq(Node) /\ edges \in Seq(Edge) /\ nodeIdCounter \in Nat /\ Sound(nodes, edges)
      /\ \A i \in DOMAIN nodes : nodes[i].id <= nodeIdCounter
  BY DEF CanvasInv
<1>3. n \in Nat /\ DOMAIN edges = 1..n /\ \A i \in DOMAIN edges : edges[i] \in Edge
  BY <1>2
<1>4. \A i \in DOMAIN edges : /\ Given(i) \in Edge
                              /\ Given(i).source = edges[i].source /\ Given(i).target = edges[i].target
  BY <1>3 DEF Edge
<1> HIDE DEF hit, Given
<1>5. \A i \in DOMAIN edges : /\ new[i] \in Edge
                              /\ new[i].source = edges[i].source /\ new[i].target = edges[i].target
  BY <1>3, <1>4
<1>6. DOMAIN new = DOMAIN edges /\ new = [i \in 1..n |-> new[i]]
  BY <1>3
<1> HIDE DEF new
<1>7. new \in Seq(Edge)
  BY <1>3, <1>5, <1>6
<1>8. Sound(nodes, new)
  BY <1>2, <1>5, <1>6, <1>7, SameEndsSound
<1> QED
  BY <1>1, <1>2, <1>7, <1>8 DEF CanvasInv

LEMMA SaveAndReopenKeeps ==
  ASSUME CanvasInv, SaveAndReopen
  PROVE  CanvasInv'
<1>1. nodes \in Seq(Node) /\ edges \in Seq(Edge) /\ Sound(nodes, edges)
  BY DEF CanvasInv
<1>2. nodes' = nodes /\ edges' = edges /\ nodeIdCounter' = Highest(nodes)
  BY DEF SaveAndReopen
<1>3. Highest(nodes) \in Nat /\ \A i \in DOMAIN nodes : nodes[i].id <= Highest(nodes)
  BY <1>1, HighestIsHigh
<1> QED
  BY <1>1, <1>2, <1>3 DEF CanvasInv

LEMMA CanvasStep == CanvasInv /\ [CanvasNext]_canvasVars => CanvasInv'
<1> SUFFICES ASSUME CanvasInv, [CanvasNext]_canvasVars
             PROVE  CanvasInv'
  OBVIOUS
<1>1. CASE \E type \in {"action", "decision"} : addNode(type)
  BY <1>1, addNodeKeeps
<1>2. CASE \E from, to \in NodeIds, handle \in Labels : onConnect(from, to, handle)
  BY <1>2, onConnectKeeps
<1>3. CASE UNCHANGED <<nodes, edges, nodeIdCounter>>
  BY <1>3 DEF CanvasInv
<1>4. CASE deleteSelectedNode
  BY <1>4, WithoutNodeKeeps DEF deleteSelectedNode
<1>5. CASE \E label \in Labels : updateSelectedEdge(label)
  BY <1>5, updateSelectedEdgeKeeps
<1>6. CASE deleteSelectedEdge
  BY <1>6, WithoutEdgeKeeps DEF deleteSelectedEdge
<1>7. CASE DeleteKey
  <2>1. CASE \E id \in NodeIds : WithoutNode(id)
    BY <1>7, <2>1, WithoutNodeKeeps DEF DeleteKey
  <2>2. CASE (\E i \in DOMAIN edges : WithoutEdge(IdOf(edges[i]))) /\ UNCHANGED nodes
    <3>1. nodeIdCounter' = nodeIdCounter
      BY <1>7 DEF DeleteKey
    <3>2. PICK i \in DOMAIN edges : WithoutEdge(IdOf(edges[i]))
      BY <2>2
    <3> DEFINE id == IdOf(edges[i])
    <3>3. WithoutEdge(id)
      BY <3>2
    <3> HIDE DEF id
    <3> QED
      BY <2>2, <3>1, <3>3, WithoutEdgeKeeps
  <2> QED
    BY <1>7, <2>1, <2>2 DEF DeleteKey
<1>8. CASE SaveAndReopen
  BY <1>8, SaveAndReopenKeeps
<1>9. CASE \E i \in DOMAIN nodes : onNodeClick(i)
  BY <1>3, <1>9 DEF onNodeClick, Pick
<1>10. CASE \E i \in DOMAIN edges : onEdgeClick(i)
  BY <1>3, <1>10 DEF onEdgeClick, Pick
<1>11. CASE onPaneClick \/ updateSelectedNode
  BY <1>3, <1>11 DEF updateSelectedNode, onPaneClick, Pick
<1>12. CASE UNCHANGED canvasVars
  BY <1>3, <1>12 DEF canvasVars
<1> QED
  BY <1>1, <1>2, <1>4, <1>5, <1>6, <1>7, <1>8, <1>9, <1>10, <1>11, <1>12, Zenon DEF CanvasNext

\* However the graph of a plan is edited, saved and opened again, ids name one node each,
\* edges join nodes that are there, and no node has more ways out than a run follows
\* (addNode, onConnect, deleteSelectedNode, deleteSelectedEdge).
THEOREM GraphsStaySound == CanvasSpec => []DrawnGraphIsSound
<1>1. CanvasInv => DrawnGraphIsSound
  BY DEF CanvasInv, DrawnGraphIsSound
<1> QED
  BY <1>1, CanvasInitOK, CanvasStep, PTL DEF CanvasSpec

-----------------------------------------------------------------------------
(* DesktopIcons. *)

Places == SUBSET (1..Cells)
Icons == ToSet(Ids)
Layouts == UNION {[set -> Places] : set \in SUBSET Icons}

\* The slot is a cell of the grid: the first one when none is free.
LEMMA SlotIsPlace ==
  ASSUME NEW taken
  PROVE  nextFreeGridSlot(taken) \in Places
<1> DEFINE free == {c \in 1..Cells : \A p \in taken : c \notin p}
<1>1. Cells \in Nat /\ 1 \in 1..Cells
  BY IconsAssumption
<1>2. CASE free = {}
  BY <1>1, <1>2 DEF nextFreeGridSlot, Places
<1>3. CASE free # {}
  <2>1. free \subseteq Nat /\ free \subseteq 1..Cells
    BY <1>1
  <2>2. PICK m \in free : \A j \in free : ~(<<j, m>> \in OpToRel(<, Nat))
    <3> HIDE DEF free
    <3> QED
      BY <1>3, <2>1, NatLessThanWellFounded, WFMin, Zenon
  <2>3. nextFreeGridSlot(taken) = {Min(free)}
    BY <1>3 DEF nextFreeGridSlot
  <2> HIDE DEF free
  <2>6. \A j \in free : j \in Nat /\ m \in Nat /\ ~(j < m)
    BY <2>1, <2>2 DEF OpToRel
  <2>4. \A j \in free : m <= j
    BY <2>6
  <2>5. Min(free) \in free
    BY <2>4, Zenon DEF Min
  <2> QED
    BY <2>1, <2>3, <2>5 DEF Places
<1> QED
  BY <1>2, <1>3

\* Laying an icon out gives it a place and leaves the others theirs.
LEMMA LaidIsLayout ==
  ASSUME NEW pos \in Layouts, NEW id \in Icons
  PROVE  Laid(pos, id) \in Layouts /\ DOMAIN Laid(pos, id) = DOMAIN pos \cup {id}
<1>1. PICK set \in SUBSET Icons : pos \in [set -> Places]
  BY DEF Layouts
<1>2. DOMAIN pos = set
  BY <1>1
<1>3. CASE id \in DOMAIN pos
  BY <1>2, <1>3 DEF Laid
<1>4. CASE id \notin DOMAIN pos
  <2> DEFINE slot == nextFreeGridSlot(Range(pos))
             new == [x \in DOMAIN pos \cup {id} |-> IF x = id THEN slot ELSE pos[x]]
  <2>1. Laid(pos, id) = new
    BY <1>4 DEF Laid
  <2>2. slot \in Places
    BY SlotIsPlace
  <2> HIDE DEF slot
  <2>3. new \in [set \cup {id} -> Places] /\ set \cup {id} \in SUBSET Icons
    BY <1>1, <1>2, <2>2
  <2>4. new \in Layouts /\ DOMAIN new = DOMAIN pos \cup {id}
    BY <1>2, <2>3 DEF Layouts
  <2> QED
    BY <2>1, <2>4
<1> QED
  BY <1>3, <1>4

\* The icons of a set of them, in the order of the desktop.
LEMMA IdsOfSet ==
  ASSUME NEW set \in SUBSET Icons
  PROVE  /\ allIds(set) \in Seq(Icons)
         /\ {allIds(set)[k] : k \in DOMAIN allIds(set)} = set
<1> DEFINE at == {i \in DOMAIN Ids : Ids[i] \in set}
<1>1. Ids \in Seq(Icons)
  BY IconsAssumption DEF Icons
<1>2. at \in SUBSET (DOMAIN Ids)
  OBVIOUS
<1>3. allIds(set) = Kept(Ids, at)
  BY DEF allIds
<1>4. {Ids[i] : i \in at} = set
  BY DEF Icons, ToSet
<1> HIDE DEF at
<1>5. Kept(Ids, at) \in Seq(Icons)
  BY <1>1, <1>2, KeptIsList
<1>6. {Kept(Ids, at)[k] : k \in DOMAIN Kept(Ids, at)} = {Ids[i] : i \in at}
  BY <1>1, <1>2, KeptRange
<1> QED
  BY <1>3, <1>4, <1>5, <1>6

\* Laying a set of icons out gives each of them a place.
LEMMA SeededPlaces ==
  ASSUME NEW pos \in Layouts, NEW set \in SUBSET Icons
  PROVE  /\ Seeded(pos, set) \in Layouts
         /\ DOMAIN Seeded(pos, set) = DOMAIN pos \cup set
<1> DEFINE ids == allIds(set)
           n == Len(ids)
           Laying(f) == f = [k \in 0..n |-> IF k = 0 THEN pos ELSE Laid(f[k - 1], ids[k])]
           laid == CHOOSE f : Laying(f)
           step == [k \in 1..n |-> [p \in Layouts |-> Laid(p, ids[k])]]
           Right == {k \in 0..n : /\ laid[k] \in Layouts
                                  /\ DOMAIN laid[k] = DOMAIN pos \cup {ids[j] : j \in 1..k}}
<1>1. Seeded(pos, set) = laid[n]
  BY DEF Seeded
<1>2. /\ n \in Nat /\ DOMAIN ids = 1..n /\ \A k \in 1..n : ids[k] \in Icons
      /\ {ids[k] : k \in 1..n} = set
  BY IdsOfSet
<1> HIDE DEF ids, n
<1>3. step \in [1..n -> [Layouts -> Layouts]]
  BY <1>2, LaidIsLayout
<1>4. PICK f : Computes(f, n, Layouts, pos, step)
  <2> HIDE DEF step
  <2> QED
    BY <1>2, <1>3, Iterates
<1>5. \A k \in 1..n : k - 1 \in 0..n /\ k # 0 /\ k \in 0..n
  BY <1>2
<1>6. \A k \in 0..n : k # 0 => k \in 1..n
  BY <1>2
<1>7. \A k \in 1..n : f[k] = Laid(f[k - 1], ids[k])
  BY <1>4, <1>5 DEF Computes
<1>8. Laying(f)
  BY <1>4, <1>6, <1>7 DEF Computes
<1>9. Laying(laid)
  <2> HIDE DEF Laying
  <2> QED
    BY <1>8, Zenon
<1> HIDE DEF laid
<1>10. laid[0] = pos /\ \A k \in 1..n : laid[k] = Laid(laid[k - 1], ids[k])
  <2>1. 0 \in 0..n
    BY <1>2
  <2> QED
    BY <1>5, <1>9, <2>1
<1>11. 0 \in Right
  <2>1. 0 \in 0..n /\ 1..0 = {}
    BY <1>2
  <2>2. {ids[j] : j \in 1..0} = {}
    BY <2>1
  <2> QED
    BY <1>10, <2>1, <2>2
<1>12. ASSUME NEW k \in 1..n, k - 1 \in Right
       PROVE  k \in Right
  <2>1. laid[k - 1] \in Layouts /\ DOMAIN laid[k - 1] = DOMAIN pos \cup {ids[j] : j \in 1..(k - 1)}
    BY <1>12
  <2>2. laid[k] = Laid(laid[k - 1], ids[k]) /\ ids[k] \in Icons /\ k \in 0..n
    BY <1>2, <1>5, <1>10
  <2>3. laid[k] \in Layouts /\ DOMAIN laid[k] = DOMAIN laid[k - 1] \cup {ids[k]}
    BY <2>1, <2>2, LaidIsLayout
  <2>4. {ids[j] : j \in 1..k} = {ids[j] : j \in 1..(k - 1)} \cup {ids[k]}
    <3>1. \A j \in 1..k : j = k \/ j \in 1..(k - 1)
      BY <1>2
    <3>2. k \in 1..k /\ \A j \in 1..(k - 1) : j \in 1..k
      BY <1>2
    <3> QED
      BY <3>1, <3>2
  <2> QED
    BY <2>1, <2>2, <2>3, <2>4
<1>13. n \in Right
  <2> HIDE DEF Right
  <2>1. \A k \in 0..n : k \in Right
    BY <1>2, <1>11, <1>12, Climbs
  <2>2. n \in 0..n
    BY <1>2
  <2> QED
    BY <2>1, <2>2
<1> QED
  BY <1>1, <1>2, <1>13

\* Whatever was stored is a layout, and every icon there may be has a key in the order.
IconsInv ==
    /\ positions \in Layouts /\ stored \in Layouts
    /\ shown \subseteq Icons /\ listed \subseteq Icons
    /\ shown \subseteq DOMAIN positions

LEMMA NowhereIsLayout == Nowhere \in Layouts /\ DOMAIN Nowhere = {}
<1>1. Nowhere \in [{} -> Places] /\ {} \in SUBSET Icons
  BY DEF Nowhere
<1> QED
  BY <1>1 DEF Layouts

LEMMA ShowsKeeps ==
  ASSUME IconsInv, NEW set \in SUBSET Icons, Shows(set), listed' \subseteq Icons
  PROVE  IconsInv'
<1>1. /\ Seeded(positions, set) \in Layouts
      /\ DOMAIN Seeded(positions, set) = DOMAIN positions \cup set
  BY SeededPlaces DEF IconsInv
<1>2. shown' = set /\ positions' = Seeded(positions, set) /\ stored' \in {stored, positions'}
  BY DEF Shows, Saves
<1> QED
  BY <1>1, <1>2 DEF IconsInv

LEMMA IconsStep == IconsInv /\ [IconsNext]_iconVars => IconsInv'
<1> SUFFICES ASSUME IconsInv, [IconsNext]_iconVars
             PROVE  IconsInv'
  OBVIOUS
<1>0. /\ positions \in Layouts /\ stored \in Layouts /\ shown \subseteq Icons /\ listed \subseteq Icons
      /\ shown \subseteq DOMAIN positions /\ Fixed \subseteq Icons
  BY IconsAssumption DEF IconsInv, Icons
<1>1. ASSUME NEW set \in SUBSET (ToSet(Ids) \ Fixed), ListSessions(set)
      PROVE  IconsInv'
  <2> DEFINE now == IF wizardOpen THEN {} ELSE Fixed \cup set
  <2>1. Shows(now) /\ listed' \subseteq Icons /\ now \in SUBSET Icons
    BY <1>0, <1>1 DEF ListSessions, Icons
  <2> HIDE DEF now
  <2> QED
    BY <2>1, ShowsKeeps
<1>2. CASE ToggleWizard
  <2> DEFINE now == IF wizardOpen THEN Fixed \cup listed ELSE {}
  <2>1. Shows(now) /\ listed' \subseteq Icons /\ now \in SUBSET Icons
    BY <1>0, <1>2 DEF ToggleWizard
  <2> HIDE DEF now
  <2> QED
    BY <2>1, ShowsKeeps
<1>3. CASE resetPositions
  <2>1. Seeded(Nowhere, shown) \in Layouts /\ shown \subseteq DOMAIN Seeded(Nowhere, shown)
    BY <1>0, NowhereIsLayout, SeededPlaces
  <2>2. /\ positions' = Seeded(Nowhere, shown) /\ stored' \in {stored, positions'}
        /\ shown' = shown /\ listed' = listed
    BY <1>3 DEF resetPositions, Arranged, Saves
  <2> QED
    BY <1>0, <2>1, <2>2 DEF IconsInv
<1>4. CASE Remount
  <2>1. Seeded(stored, Fixed) \in Layouts /\ Fixed \subseteq DOMAIN Seeded(stored, Fixed)
    BY <1>0, SeededPlaces
  <2>2. /\ positions' = Seeded(stored, Fixed) /\ stored' \in {stored, positions'}
        /\ shown' = Fixed /\ listed' = {}
    BY <1>4 DEF Remount, Saves
  <2> QED
    BY <1>0, <2>1, <2>2 DEF IconsInv
<1>5. ASSUME NEW id \in shown, NEW place \in Drops, setIconPosition(id, place)
      PROVE  IconsInv'
  <2>1. PICK set \in SUBSET Icons : positions \in [set -> Places]
    BY <1>0 DEF Layouts
  <2>2. place \in Places
    BY IconsAssumption DEF Places
  <2>3. /\ positions' = [positions EXCEPT ![id] = place] /\ stored' \in {stored, positions'}
        /\ shown' = shown /\ listed' = listed
    BY <1>5 DEF setIconPosition, Saves
  <2>4. positions' \in [set -> Places] /\ DOMAIN positions' = DOMAIN positions
    BY <2>1, <2>2, <2>3
  <2>5. positions' \in Layouts
    BY <2>4 DEF Layouts
  <2> QED
    BY <1>0, <2>3, <2>4, <2>5 DEF IconsInv
<1>6. CASE UNCHANGED iconVars
  BY <1>6 DEF iconVars, IconsInv
<1> QED
  BY <1>1, <1>2, <1>3, <1>4, <1>5, <1>6 DEF IconsNext

LEMMA IconsInitOK == IconsInit => IconsInv
<1> SUFFICES ASSUME IconsInit PROVE IconsInv
  OBVIOUS
<1>1. Fixed \in SUBSET Icons
  BY IconsAssumption DEF Icons
<1>2. Seeded(Nowhere, Fixed) \in Layouts /\ Fixed \subseteq DOMAIN Seeded(Nowhere, Fixed)
  BY <1>1, NowhereIsLayout, SeededPlaces
<1> QED
  BY <1>1, <1>2, NowhereIsLayout DEF IconsInit, IconsInv

\* Every icon on the desktop has a position, for any icons and any size of the grid: also
\* after Auto-arrange, after the wizard hid the icons, after a reload, and when the browser
\* refused to store the positions (useIconPositions).
THEOREM IconsStayPlaced == IconsSpec => []EveryIconIsPlaced
<1>1. IconsInv => EveryIconIsPlaced
  BY DEF IconsInv, EveryIconIsPlaced
<1> QED
  BY <1>1, IconsInitOK, IconsStep, PTL DEF IconsSpec
=============================================================================
