---------------------------- MODULE AliasSettings ----------------------------
(***************************************************************************)
(* What becomes of an alias and its targets on the way from the form of    *)
(* the routes page (routes-page.tsx) or a client of the API through the    *)
(* store (console-model-alias-store.ts) to the gateway and back into the   *)
(* form, and what the page says of the targets while their channels are    *)
(* renamed, switched, stripped of models and deleted.                      *)
(*                                                                         *)
(* One write at a time: Registry and DashboardEditors let them overlap,    *)
(* Routing tells which targets a request gets. A target names its channel  *)
(* by uuid, as the form does, or by name, as a client may. The alias and   *)
(* its notes are `text`.                                                   *)
(***************************************************************************)
EXTENDS Naturals, Sequences, SequencesExt

CONSTANTS
  Uuids,         \* of the channels
  NameOf,        \* what each channel is called at first
  NewName,       \* what one of them may be called later
  NoAlias,
  NotGiven,      \* a field a payload does not have
  AliasModels,   \* the models of the channels
  MaxDrafts,     \* bound: targets in the form
  MaxAliasOps    \* bound: operations

ASSUME AliasSettingsAssumption ==
  /\ MaxDrafts \in Nat \ {0} /\ MaxAliasOps \in Nat
  /\ NameOf \in [Uuids -> STRING] /\ NewName \notin {NameOf[u] : u \in Uuids}

VARIABLES
  rowsOfChannels,  \* the channels there are: name, switch and models
  aliasRow,        \* the row
  draft,           \* history: the form, if the last write was that of a form, and what was touched
  aliasOps         \* history: operations so far

aliasVars == <<rowsOfChannels, aliasRow, draft, aliasOps>>

There == DOMAIN rowsOfChannels
TargetOf(p, m) == [provider |-> p, model |-> m]
Empty == ""

-----------------------------------------------------------------------------
(* The channel a target means: the one of that uuid, else of that name.    *)
(* The gateway looks in uuidToChannelName, the page among the providers.   *)
Meant(provider) ==
  {u \in There : IF provider \in There THEN u = provider ELSE rowsOfChannels[u].name = provider}

(* resolveExplicitTargetRoute, for the type of the channel: it is sent the *)
(* model of the target, listed or not.                                     *)
Serves(target) == \E u \in Meant(target.provider) : rowsOfChannels[u].enabled

\* Mutant: only the first target is looked at.
FirstOnly(targets) ==
  IF Meant(targets[1].provider) = {} THEN "no_provider"
  ELSE IF \E u \in Meant(targets[1].provider) : targets[1].model \notin rowsOfChannels[u].models
    THEN "no_model"
  ELSE IF \E u \in Meant(targets[1].provider) : ~rowsOfChannels[u].enabled THEN "disabled"
  ELSE "none"

(* AliasStatus: the worst that can be said of any target.                  *)
AliasStatus(targets) ==
  LET meant == {Meant(targets[i].provider) : i \in DOMAIN targets} IN
  IF {} \in meant THEN "no_provider"
  ELSE IF \E i \in DOMAIN targets : \E u \in Meant(targets[i].provider) :
            targets[i].model \notin rowsOfChannels[u].models
    THEN "no_model"
  ELSE IF \E us \in meant : \E u \in us : ~rowsOfChannels[u].enabled THEN "disabled"
  ELSE "none"

-----------------------------------------------------------------------------
(* normalizeTargets: none of a payload that does not tell them, and        *)
(* refused when there is none or one of them lacks a part.                 *)
TargetsRefused(targets) ==
  \/ targets = <<>>
  \/ \E i \in DOMAIN targets : Empty \in {targets[i].provider, targets[i].model}

AliasGiven(field, old) == IF field = NotGiven THEN old ELSE field

(* The targets a payload asks for: a provider or a model of its own makes  *)
(* one target, for which the first of the old lends what is not told.      *)
TargetsAsked(p, old) ==
  IF p.targets # NotGiven THEN p.targets
  ELSE IF p.provider = NotGiven /\ p.model = NotGiven THEN old.targets
  ELSE <<TargetOf(AliasGiven(p.provider, old.targets[1].provider),
                  AliasGiven(p.model, old.targets[1].model))>>

\* What an alias has that nobody gave; its only target lacks both parts.
FreshAlias == [targets |-> <<TargetOf(Empty, Empty)>>, visible |-> TRUE, enabled |-> TRUE,
               real |-> FALSE, text |-> FALSE]

\* Mutant: an alias that is saved is switched on.
SwitchedOn(p, old) ==
  {[targets |-> ts, visible |-> AliasGiven(p.visible, old.visible),
    enabled |-> AliasGiven(p.enabled, TRUE), real |-> AliasGiven(p.real, old.real),
    text |-> AliasGiven(p.text, old.text)] :
      ts \in {x \in {TargetsAsked(p, old)} : ~TargetsRefused(x)}}

(* createModelAlias over FreshAlias, and updateModelAlias.                 *)
AliasOutcomes(p, old) ==
  {[targets |-> ts, visible |-> AliasGiven(p.visible, old.visible),
    enabled |-> AliasGiven(p.enabled, old.enabled), real |-> AliasGiven(p.real, old.real),
    text |-> AliasGiven(p.text, old.text)] :
      ts \in {x \in {TargetsAsked(p, old)} : ~TargetsRefused(x)}}

-----------------------------------------------------------------------------
(* openCreate and openEdit.                                                *)
BlankDraft == [targets |-> <<TargetOf(Empty, Empty)>>, visible |-> TRUE, real |-> FALSE,
               text |-> FALSE]
DraftOf(row) == [targets |-> row.targets, visible |-> row.visible, real |-> row.real,
                 text |-> row.text]

\* One row of the form: the channel, which takes the model along, and a model of the channel.
WithRow(d, i, t) == [d EXCEPT !.targets[i] = t]
TouchesRow(d, i) ==
  {WithRow(d, i, TargetOf(u, Empty)) : u \in There \ {d.targets[i].provider}}
  \cup {WithRow(d, i, TargetOf(u, m)) : u \in {x \in There : x = d.targets[i].provider},
                                        m \in AliasModels}

\* updateTarget, removeTarget, the button that adds a row, and dropTarget.
TouchesTargets(d) ==
  UNION {TouchesRow(d, i) : i \in DOMAIN d.targets}
  \cup {[d EXCEPT !.targets = RemoveAt(d.targets, i)] :
          i \in IF Len(d.targets) > 1 THEN DOMAIN d.targets ELSE {}}
  \cup (IF Len(d.targets) < MaxDrafts
          THEN {[d EXCEPT !.targets = Append(d.targets, TargetOf(Empty, Empty))]} ELSE {})
  \cup {[d EXCEPT !.targets = Reverse(d.targets)] : x \in {y \in {d} : Len(d.targets) = 2}}

TouchesDraft(d) ==
  {<<"targets", e>> : e \in TouchesTargets(d)}
  \cup {<<"visible", [d EXCEPT !.visible = ~d.visible]>>,
        <<"real", [d EXCEPT !.real = ~d.real]>>, <<"text", [d EXCEPT !.text = ~d.text]>>}

\* The forms of a set, and what one more touch makes of them.
Touched(ds) ==
  ds \cup UNION {{[form |-> t[2], touched |-> d.touched \cup {t[1]}] : t \in TouchesDraft(d.form)} :
                   d \in ds}

Nobody == [targets |-> NotGiven, provider |-> NotGiven, model |-> NotGiven,
           visible |-> NotGiven, enabled |-> NotGiven, real |-> NotGiven, text |-> NotGiven]

(* handleSubmit: every field of the form, and no other.                    *)
DraftPayload(d) == [Nobody EXCEPT !.targets = d.targets, !.visible = d.visible,
                                  !.real = d.real, !.text = d.text]

-----------------------------------------------------------------------------
AliasInit ==
  /\ rowsOfChannels \in {[u \in Uuids |-> [name |-> NameOf[u], enabled |-> TRUE,
                                           models |-> AliasModels]]}
  /\ aliasRow = NoAlias /\ draft = NoAlias /\ aliasOps = 0

SavesDraft ==
  /\ \E d \in IF aliasRow = NoAlias
                THEN Touched(Touched(Touched({[form |-> BlankDraft, touched |-> {}]})))
                ELSE Touched(Touched({[form |-> DraftOf(aliasRow), touched |-> {}]})) :
       /\ ~TargetsRefused(d.form.targets)
       /\ aliasRow' \in AliasOutcomes(DraftPayload(d.form),
                                   IF aliasRow = NoAlias THEN FreshAlias ELSE aliasRow)
       /\ draft' = d
  /\ UNCHANGED rowsOfChannels

\* The refs a client may use, and the payloads of one or two fields.
Refs == Uuids \cup {NameOf[u] : u \in Uuids}
AliasFields ==
  {<<"provider", p>> : p \in Refs \cup {Empty}} \cup {<<"model", m>> : m \in AliasModels}
  \cup {<<"targets", <<>>>>}
  \cup {<<"targets", <<TargetOf(p, m), TargetOf(q, m)>>>> : p, q \in Refs, m \in AliasModels}
  \cup {<<f, b>> : f \in {"visible", "enabled", "real", "text"}, b \in BOOLEAN}

AliasByApi ==
  /\ \E a, b \in AliasFields :
       aliasRow' \in AliasOutcomes([Nobody EXCEPT ![a[1]] = a[2], ![b[1]] = b[2]],
                                IF aliasRow = NoAlias THEN FreshAlias ELSE aliasRow)
  /\ draft' = NoAlias /\ UNCHANGED rowsOfChannels

TogglesAlias ==
  /\ aliasRow # NoAlias
  /\ aliasRow' = [aliasRow EXCEPT !.enabled = ~aliasRow.enabled]
  /\ draft' = NoAlias /\ UNCHANGED rowsOfChannels

DeletesAlias ==
  /\ aliasRow # NoAlias /\ aliasRow' = NoAlias /\ draft' = NoAlias /\ UNCHANGED rowsOfChannels

\* What the page for the channels does to one of them; nobody looks for aliases that need it.
ChannelChanges ==
  /\ \E u \in There :
       \/ rowsOfChannels' = [rowsOfChannels EXCEPT ![u].enabled = ~rowsOfChannels[u].enabled]
       \/ \E m \in rowsOfChannels[u].models :
            rowsOfChannels' = [rowsOfChannels EXCEPT ![u].models = rowsOfChannels[u].models \ {m}]
       \/ /\ \A v \in There : rowsOfChannels[v].name # NewName
          /\ rowsOfChannels' = [rowsOfChannels EXCEPT ![u].name = NewName]
       \/ rowsOfChannels' = [v \in There \ {u} |-> rowsOfChannels[v]]
  /\ draft' = NoAlias /\ UNCHANGED aliasRow

AliasNext ==
  /\ aliasOps < MaxAliasOps /\ aliasOps' = aliasOps + 1
  /\ SavesDraft \/ AliasByApi \/ TogglesAlias \/ DeletesAlias \/ ChannelChanges

AliasSpec == AliasInit /\ [][AliasNext]_aliasVars

-----------------------------------------------------------------------------
(* An alias that was saved in the form is shown by it again as it was      *)
(* filled in. The page finds nothing wrong with an alias only when the     *)
(* gateway can send a request to each of its targets, and calls a channel  *)
(* missing or disabled only when there is a target to which it cannot.     *)
AliasShown ==
  aliasRow # NoAlias =>
    LET served == \A i \in DOMAIN aliasRow.targets : Serves(aliasRow.targets[i]) IN
    /\ draft # NoAlias => DraftOf(aliasRow) = draft.form
    /\ AliasStatus(aliasRow.targets) = "none" => served
    /\ AliasStatus(aliasRow.targets) \in {"no_provider", "disabled"} => ~served

(* A form changes what was touched in it only; a channel that is renamed   *)
(* keeps what serves by its uuid; an alias never loses its last target.    *)
AliasKept ==
  [][aliasRow # NoAlias /\ aliasRow' # NoAlias =>
       /\ aliasRow'.targets # <<>>
       /\ draft' # NoAlias =>
            /\ aliasRow'.enabled = aliasRow.enabled
            /\ \A f \in {"targets", "visible", "real", "text"} \ draft'.touched :
                 aliasRow'[f] = aliasRow[f]
       /\ (/\ aliasRow' = aliasRow /\ There' = There
           /\ \A u \in There : rowsOfChannels'[u].enabled = rowsOfChannels[u].enabled) =>
            \A i \in DOMAIN aliasRow.targets :
              aliasRow.targets[i].provider \in There =>
                (Serves(aliasRow.targets[i])' <=> Serves(aliasRow.targets[i]))
    ]_aliasVars
=============================================================================
