--------------------------- MODULE ChannelSettings ---------------------------
(***************************************************************************)
(* What becomes of the settings of one channel on their way from the form  *)
(* of the dashboard (providers-page.tsx) or a client of the API through    *)
(* the payload, the normalised entry and the stored row (config.ts,        *)
(* console-provider-store.ts) to the two gateways, and back into the form. *)
(* One write at a time: Registry and DashboardEditors let them overlap.    *)
(*                                                                         *)
(* `other` stands for the settings without rules of their own: name, base  *)
(* URL, priority, prompt and extra fields; `reach` for the visibility and  *)
(* the concurrency rule. A key is written with or without the word Bearer. *)
(* A model is its name, the upstream model it maps to and whether it tells *)
(* a context length.                                                       *)
(***************************************************************************)
EXTENDS Naturals, FiniteSets

CONSTANTS
  Unset,      \* a field a payload does not have
  NoAuth,
  NoChannel,
  NoForm,
  MaxWrites   \* bound: writes

ASSUME WritesAssumption == MaxWrites \in Nat

VARIABLES
  channel,  \* the row, as the entry it is loaded into
  filled,   \* history: the form, if the last write was that of a form, and what was touched
  writes    \* history: writes so far

settingVars == <<channel, filled, writes>>

Model(id, to, context) == [model |-> id, upstream |-> to, context |-> context]
UpstreamModels == {Model("u", "u", FALSE)}

DefaultHeader(type) == IF type = "anthropic" THEN "x-api-key" ELSE "authorization"

(* The value of an authorization header is stored with Bearer, and shown   *)
(* without; that of x-api-key is stored as it was typed.                   *)
StoredValue(value, header) == IF header = "authorization" THEN "bearer" ELSE value
EditableValue(auth) == IF auth.header = "authorization" THEN "plain" ELSE auth.value

Given(field, old) == IF field = Unset THEN old ELSE field

-----------------------------------------------------------------------------
\* The header a credential is sent under: that of the payload, else that it had.
HeaderFor(auth, type, old) ==
  Given(auth.header, IF old = NoAuth THEN DefaultHeader(type) ELSE old.header)

(* normalizeStaticAuthInput: no auth at all keeps the old one, null drops  *)
(* it, and a header without a value moves the old value under it.          *)
AuthFor(auth, type, old) ==
  IF auth = Unset THEN old
  ELSE IF auth = NoAuth THEN NoAuth
  ELSE LET header == HeaderFor(auth, type, old)
           value  == IF auth.value = Unset THEN EditableValue(old) ELSE auth.value
       IN  [header |-> header, value |-> StoredValue(value, header)]

AuthRefused(auth, old) == auth \notin {Unset, NoAuth} /\ auth.value = Unset /\ old = NoAuth

\* Mutant: a payload that does not tell the switch turns the channel on.
TurnsOn(p, old) ==
  LET type == Given(p.type, old.type) IN
  [type     |-> type,
   auth     |-> AuthFor(p.auth, type, old.auth),
   mode     |-> IF type = "openai" THEN Given(p.mode, old.mode) ELSE "unset",
   compat   |-> type = "anthropic" /\ Given(p.compat, old.compat),
   autosync |-> Given(p.autosync, old.autosync),
   enabled  |-> Given(p.enabled, TRUE),
   other    |-> Given(p.other, old.other),
   reach    |-> Given(p.reach, old.reach),
   models   |-> Given(p.models, old.models)]

(* buildNormalizedEntry. The mode is kept among the extra fields, and only *)
(* by an OpenAI channel.                                                   *)
NormalEntry(p, old) ==
  LET type == Given(p.type, old.type) IN
  [type     |-> type,
   auth     |-> AuthFor(p.auth, type, old.auth),
   mode     |-> IF type = "openai" THEN Given(p.mode, old.mode) ELSE "unset",
   compat   |-> type = "anthropic" /\ Given(p.compat, old.compat),
   autosync |-> Given(p.autosync, old.autosync),
   enabled  |-> Given(p.enabled, old.enabled),
   other    |-> Given(p.other, old.other),
   reach    |-> Given(p.reach, old.reach),
   models   |-> Given(p.models, old.models)]

\* What an entry has that nobody gave.
Fresh == [type |-> "openai", auth |-> NoAuth, mode |-> "unset",
          compat |-> FALSE, autosync |-> FALSE, enabled |-> TRUE, other |-> FALSE,
          reach |-> FALSE, models |-> {}]

ConnectionChanged(new, old) ==
  \/ new.other # old.other
  \/ new.type # old.type
  \/ IF new.auth = NoAuth \/ old.auth = NoAuth THEN new.auth # old.auth
     ELSE new.auth.value # old.auth.value

(* The entries a write may end in: none when it is refused, the models of  *)
(* the upstream when it turns the sync on or changes the connection of a   *)
(* channel that syncs (updateProvider; createProvider over Fresh).         *)
Outcomes(p, old) ==
  LET new == NormalEntry(p, old) IN
  IF AuthRefused(p.auth, old.auth) THEN {}
  ELSE IF new.autosync /\ (~old.autosync \/ ConnectionChanged(new, old))
    THEN IF new.auth = NoAuth THEN {} ELSE {[new EXCEPT !.models = UpstreamModels]}
  ELSE {new}

-----------------------------------------------------------------------------
(* The two gateways.                                                       *)
TsMode(e) == IF e.mode = "unset" THEN "native" ELSE e.mode
RustMode(e) ==
  IF e.type # "openai" THEN "none" ELSE IF e.mode # "unset" THEN e.mode ELSE "native"

(* What the form is filled with: the answer of the list has no credential, *)
(* that of the channel has.                                                *)
Info(e, detail) ==
  [type |-> e.type, header |-> IF e.auth = NoAuth THEN Unset ELSE e.auth.header,
   value |-> IF e.auth = NoAuth \/ ~detail THEN Unset ELSE EditableValue(e.auth),
   mode |-> IF e.type = "openai" THEN TsMode(e) ELSE Unset,
   compat |-> e.compat, autosync |-> e.autosync, other |-> e.other,
   reach |-> e.reach, models |-> e.models, enabled |-> e.enabled]

FormRow(m) == [model |-> m.model, upstream |-> m.upstream]

(* createFormState.                                                        *)
FormState(info) ==
  [type |-> info.type,
   header |-> IF info.header \in {Unset, DefaultHeader(info.type)} THEN "auto" ELSE info.header,
   key |-> info.value, dirty |-> FALSE, clear |-> FALSE,
   mode |-> Given(info.mode, "native"),
   compat |-> info.compat, autosync |-> info.autosync,
   other |-> info.other, reach |-> info.reach,
   models |-> {FormRow(m) : m \in info.models}]

BlankChannel ==
  [type |-> "anthropic", header |-> "auto", key |-> Unset, dirty |-> FALSE, clear |-> FALSE,
   mode |-> "native", compat |-> FALSE, autosync |-> FALSE,
   other |-> FALSE, reach |-> FALSE, models |-> {}]

-----------------------------------------------------------------------------
(* The fields of the form, each with what touching it may do.              *)
TouchesAccess(f) ==
  {<<"type", [f EXCEPT !.type = IF f.type = "openai" THEN "anthropic" ELSE "openai"]>>,
   <<"other", [f EXCEPT !.other = ~f.other]>>}
  \cup {<<"header", [f EXCEPT !.header = h, !.dirty = TRUE, !.clear = FALSE]>> :
          h \in {"auto", "x-api-key", "authorization"} \ {f.header}}
  \cup {<<"key", [f EXCEPT !.key = k, !.dirty = TRUE, !.clear = FALSE]>> :
          k \in {Unset, "plain", "bearer"} \ {f.key}}
  \cup {<<"key", [f EXCEPT !.key = Unset, !.dirty = TRUE, !.clear = TRUE]>>}

\* removeModelRow, the two inputs of a row, addModel.
TouchesModels(f) ==
  {<<"models", [f EXCEPT !.models = f.models \ {m}]>> : m \in f.models}
  \cup {<<"models", [f EXCEPT !.models = (f.models \ {m}) \cup
                       {[m EXCEPT !.upstream = IF m.upstream = "x" THEN m.model ELSE "x"]}]>> :
          m \in f.models}
  \cup {<<"models", [f EXCEPT !.models = f.models \cup {FormRow(m)}]>> :
          m \in {x \in {Model("m", "m", FALSE)} : \A y \in f.models : y.model # x.model}}

\* handleSyncConfirm: what the upstream has and the form has not is added.
TouchesBySync(f) ==
  {<<"models", [f EXCEPT !.models = f.models \cup
       {FormRow(m) : m \in {x \in UpstreamModels : \A y \in f.models : y.model # x.model}}]>>}

\* The fields that are shown for one type only, and the rest.
TouchesRest(f) ==
  (IF f.type = "openai"
     THEN {<<"mode", [f EXCEPT !.mode = m]>> : m \in {"native", "chat_compat", "disabled"}}
     ELSE {<<"compat", [f EXCEPT !.compat = ~f.compat]>>})
  \cup {<<"autosync", [f EXCEPT !.autosync = ~f.autosync]>>,
        <<"reach", [f EXCEPT !.reach = ~f.reach]>>}

Touches(f) == TouchesAccess(f) \cup TouchesModels(f) \cup TouchesBySync(f) \cup TouchesRest(f)

\* The form of a new channel has no field for the header, the prompt, the sync and so on.
TouchesNew(f) ==
  {t \in TouchesAccess(f) : t[1] # "header" /\ ~t[2].clear} \cup TouchesModels(f)
  \cup TouchesBySync(f) \cup {t \in TouchesRest(f) : t[1] = "mode"}

\* A form with one or two fields touched, or none.
Fillings(f, Touch(_)) ==
  LET one == {[form |-> t[2], touched |-> {t[1]}] : t \in Touch(f)}
  IN  {[form |-> f, touched |-> {}]} \cup one
      \cup UNION {{[form |-> t[2], touched |-> a.touched \cup {t[1]}] : t \in Touch(a.form)} :
                    a \in one}

(* buildProviderPayload.                                                   *)
PayloadAuth(f, mode) ==
  LET header == IF f.header = "auto" THEN Unset ELSE f.header IN
  IF f.clear THEN NoAuth
  ELSE IF f.key # Unset /\ (mode = "create" \/ f.dirty) THEN [header |-> header, value |-> f.key]
  ELSE IF mode = "edit" /\ f.dirty THEN NoAuth
  ELSE Unset

\* Mutant: the form sends the names of its models only.
DropsUpstream(f, mode) ==
  [type |-> f.type, auth |-> PayloadAuth(f, mode),
   mode |-> IF f.type = "openai" THEN f.mode ELSE "unset",
   compat |-> f.compat, autosync |-> f.autosync, enabled |-> Unset,
   other |-> f.other, reach |-> f.reach,
   models |-> {Model(m.model, m.model, FALSE) : m \in f.models}]

FormPayload(f, mode) ==
  [type |-> f.type, auth |-> PayloadAuth(f, mode),
   mode |-> IF f.type = "openai" THEN f.mode ELSE "unset",
   compat |-> f.compat, autosync |-> f.autosync, enabled |-> Unset,
   other |-> f.other, reach |-> f.reach,
   models |-> {Model(m.model, m.upstream, FALSE) : m \in f.models}]

-----------------------------------------------------------------------------
SettingsInit == channel = NoChannel /\ filled = NoForm /\ writes = 0

\* openCreateDialog, the fields and handleSubmit; the switch "enabled" makes a second call.
CreatesInForm ==
  /\ channel = NoChannel
  /\ \E a \in Fillings(BlankChannel, TouchesNew), on \in BOOLEAN :
       \E e \in Outcomes(FormPayload(a.form, "create"), Fresh) :
         /\ channel' = [e EXCEPT !.enabled = on]
         /\ filled' = [form |-> a.form, touched |-> {"type", "key"} \cup a.touched, shown |-> TRUE]

\* openEditDialog, whose second load may fail, the fields and handleSubmit.
SavesForm ==
  /\ channel # NoChannel
  /\ \E detail \in BOOLEAN : \E a \in Fillings(FormState(Info(channel, detail)), Touches) :
       \E e \in Outcomes(FormPayload(a.form, "edit"), channel) :
         /\ channel' = e
         /\ filled' = [form |-> a.form, touched |-> a.touched, shown |-> detail]

NothingGiven == [f \in DOMAIN Fresh |-> Unset]

\* The payloads of a client of the API, one or two fields each.
ApiFields ==
  {<<"mode", m>> : m \in {"unset", "native", "chat_compat", "disabled"}}
  \cup {<<"type", t>> : t \in {"openai", "anthropic"}}
  \cup {<<f, b>> : f \in {"compat", "autosync", "enabled", "reach", "other"}, b \in BOOLEAN}
  \cup {<<"auth", NoAuth>>}
  \cup {<<"auth", [header |-> h, value |-> v]>> :
          h \in {Unset, "x-api-key", "authorization"}, v \in {Unset, "plain", "bearer"}}
  \cup {<<"models", ms>> : ms \in {{}, {Model("m", "m", TRUE)}, {Model("m", "x", FALSE)}}}

CreatesByApi ==
  /\ channel = NoChannel
  /\ \E a, b, c \in ApiFields :
       \E e \in Outcomes([NothingGiven EXCEPT ![a[1]] = a[2], ![b[1]] = b[2],
                             ![c[1]] = c[2]], Fresh) : channel' = e
  /\ UNCHANGED filled

PatchesByApi ==
  /\ channel # NoChannel
  /\ \E a \in ApiFields :
       \E e \in Outcomes([NothingGiven EXCEPT ![a[1]] = a[2]], channel) : channel' = e
  /\ filled' = NoForm

Toggles ==
  /\ channel # NoChannel
  /\ channel' = [channel EXCEPT !.enabled = ~channel.enabled]
  /\ filled' = NoForm

\* runAutoModelSync.
SyncsDaily ==
  /\ channel # NoChannel
  /\ channel.autosync /\ channel.enabled /\ channel.auth # NoAuth
  /\ channel' = [channel EXCEPT !.models = UpstreamModels]
  /\ filled' = NoForm

(* handleExportConfig of the list, whose channels have no credential, and  *)
(* the import of it by an empty console: only some fields are sent.        *)
ImportPayload(info) ==
  [NothingGiven EXCEPT
     !.type = info.type, !.other = info.other, !.models = info.models,
     !.enabled = info.enabled,
     !.mode = IF info.type = "openai" THEN info.mode ELSE "unset",
     !.auth = IF info.header = Unset THEN NoAuth
              ELSE [header |-> info.header, value |-> info.value]]

MovesByExport ==
  /\ channel # NoChannel
  /\ \E e \in Outcomes(ImportPayload(Info(channel, FALSE)), Fresh) : channel' = e
  /\ filled' = NoForm

SettingsNext ==
  /\ writes < MaxWrites /\ writes' = writes + 1
  /\ \/ CreatesInForm \/ SavesForm \/ CreatesByApi \/ PatchesByApi
     \/ Toggles \/ SyncsDaily \/ MovesByExport

SettingsSpec == SettingsInit /\ [][SettingsNext]_settingVars

-----------------------------------------------------------------------------
\* The header a form asks for.
FormHeader(f) == IF f.header = "auto" THEN DefaultHeader(f.type) ELSE f.header

(* A form that was saved shows, when it is opened again, what was filled   *)
(* in, but that: "auto" leaves a credential under the header it has; the   *)
(* mode and the compatibility belong to one type; the word Bearer and the  *)
(* models may have been replaced. Both gateways use the mode it shows.     *)
ChannelSavedAsShown ==
  /\ filled # NoForm =>
       LET again == FormState(Info(channel, TRUE)) IN
       /\ \A f \in {"type", "other", "reach", "autosync"} : again[f] = filled.form[f]
       /\ again.type = "openai" => again.mode = filled.form.mode
       /\ again.type = "anthropic" => again.compat = filled.form.compat
       /\ channel.auth # NoAuth /\ filled.form.header # "auto" =>
            FormHeader(again) = FormHeader(filled.form)
       /\ filled.form.dirty => (again.key = Unset <=> filled.form.key = Unset)
       /\ \/ again.models = filled.form.models
          \/ channel.autosync /\ again.models = {FormRow(m) : m \in UpstreamModels}
  /\ channel # NoChannel =>
       Info(channel, TRUE).mode = IF channel.type = "openai" THEN RustMode(channel) ELSE Unset

(* Saving a form changes nothing that was not touched, but that: a context *)
(* length is lost with any save; a change of type takes the mode or the    *)
(* compatibility along; a synced list of models may be fetched again; and  *)
(* when the credential could not be loaded, a change of the header drops   *)
(* it.                                                                     *)
ChannelUntouchedKept ==
  [][channel # NoChannel /\ filled' # NoForm =>
       LET kept(f) == f \notin filled'.touched => channel'[f] = channel[f]
           retyped == "type" \in filled'.touched
       IN /\ \A f \in {"type", "other", "reach", "autosync"} : kept(f)
          /\ channel'.enabled = channel.enabled
          /\ ~retyped => kept("compat")
          /\ ~retyped /\ "mode" \notin filled'.touched => TsMode(channel') = TsMode(channel)
          /\ ~channel'.autosync /\ "models" \notin filled'.touched =>
               {FormRow(m) : m \in channel'.models} = {FormRow(m) : m \in channel.models}
          /\ "key" \notin filled'.touched /\ channel.auth # NoAuth
                /\ (filled'.shown \/ "header" \notin filled'.touched) =>
               /\ channel'.auth # NoAuth
               /\ "header" \notin filled'.touched => channel'.auth = channel.auth
    ]_settingVars
=============================================================================
