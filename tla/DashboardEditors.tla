-------------------------- MODULE DashboardEditors --------------------------
(***************************************************************************)
(* What the dashboard lets the user change. The page of the channels       *)
(* (providers-page.tsx) reloads its list after each write and loads the    *)
(* channel that is edited; the pages of keys, aliases and models           *)
(* (keys-page.tsx, routes-page.tsx, models-page.tsx) put the answer of a   *)
(* write into the list they show. None of these calls is numbered: answers *)
(* are applied in the order they come.                                     *)
(*                                                                         *)
(* A stored row is whether it is on, the last edit of the rest, and a key: *)
(* the row it was given to and the edit that gave it.                      *)
(***************************************************************************)
EXTENDS Naturals, Sequences, FiniteSets, SequencesExt

CONSTANTS
  Rows,      \* channels, keys, aliases or models
  Absent, NoOne,
  MaxEdits,   \* bound: writes and loads asked for, and failures
  MaxFailed,  \* bound: calls that fail
  MaxFlying   \* bound: calls in flight

ASSUME EditorsAssumption ==
  /\ Rows # {} /\ NoOne \notin Rows
  /\ MaxEdits \in Nat /\ MaxFailed \in Nat /\ MaxFlying \in Nat \ {0}

VARIABLES
  stored,   \* rows of the database
  ui,       \* state of the page
  flying,   \* calls in flight, in the order they were sent
  edits, failures,
  lapses   \* history: what the code lets go wrong

editorVars == <<stored, ui, flying, edits, failures, lapses>>

Keys == [of : Rows, by : 0..MaxEdits]
FirstRow(n) == [on |-> TRUE, edit |-> 0, key |-> [of |-> n, by |-> 0]]
NoKey == [of |-> NoOne, by |-> 0]

(* createFormState: the list has no keys, the answer for one channel has.  *)
BlankForm == [of |-> NoOne, edit |-> 0, key |-> NoKey, dirty |-> FALSE]
FormOf(n, row, full) ==
  [of |-> n, edit |-> row.edit, key |-> IF full THEN row.key ELSE NoKey, dirty |-> FALSE]

Fly(op, n, row, after) ==
  [op |-> op, of |-> n, row |-> row, after |-> after, answer |-> "none", list |-> [m \in {} |-> Absent]]
Load(after) == Fly("load", NoOne, Absent, after)
Then(what, n) == [what |-> what, of |-> n]
Nothing == Then("nothing", NoOne)

CanFly == Len(flying) < MaxFlying
Flies(op) == \E i \in DOMAIN flying : flying[i].op = op

-----------------------------------------------------------------------------
(* The server answers a call: what was stored, or an error, before or      *)
(* after the write.                                                        *)

Applied(c) ==
  CASE c.op = "toggle" -> [stored EXCEPT ![c.of].on = c.row.on]
    [] c.op = "update" -> [stored EXCEPT ![c.of].edit = c.row.edit,
                                         ![c.of].key = IF c.row.key = NoKey THEN @ ELSE c.row.key]
    [] c.op = "create" -> [stored EXCEPT ![c.of] = [on |-> TRUE, edit |-> c.row.edit, key |-> c.row.key]]
    [] c.op = "delete" -> [stored EXCEPT ![c.of] = Absent]
    [] OTHER -> stored

Refused(c) == c.op # "load" /\ (c.op = "create") = (stored[c.of] # Absent)

Replies(i) ==
  LET c == flying[i] IN
  /\ c.answer = "none"
  /\ IF Refused(c)
     THEN /\ flying' = [flying EXCEPT ![i].answer = "error"]
          /\ UNCHANGED stored
     ELSE /\ stored' = Applied(c)
          /\ flying' = [flying EXCEPT ![i].answer = "ok", ![i].list = stored']
  /\ UNCHANGED <<ui, edits, failures, lapses>>

Fails(i) ==
  LET c == flying[i] IN
  /\ c.answer = "none" /\ failures < MaxFailed /\ edits + failures < MaxEdits
  /\ failures' = failures + 1
  /\ flying' = [flying EXCEPT ![i].answer = "error"]
  /\ \/ UNCHANGED <<stored, lapses>>
     \/ /\ ~Refused(c) /\ c.op \notin {"load", "detail"}
        /\ stored' = Applied(c) /\ lapses' = lapses \cup {"written"}
  /\ UNCHANGED <<ui, edits>>

-----------------------------------------------------------------------------
(* The page of the channels                                                *)

AtChannels == ui.page = "channels" /\ ~ui.error
Asks(call) == CanFly /\ edits + failures < MaxEdits /\ edits' = edits + 1 /\ flying' = Append(flying, call)
Listed1(n) == ui.list # Absent /\ ui.list[n] # Absent

Toggle(n) ==
  /\ AtChannels /\ Listed1(n) /\ n \notin ui.toggling
  /\ ui' = [ui EXCEPT !.toggling = @ \cup {n}]
  /\ Asks(Fly("toggle", n, [ui.list[n] EXCEPT !.on = ~@], Then("toggled", n)))
  /\ UNCHANGED <<stored, failures, lapses>>

OpenCreate ==
  /\ AtChannels /\ ~ui.creating
  /\ ui' = [ui EXCEPT !.mode = "create", !.active = Absent, !.form = BlankForm,
                      !.pane = FALSE, !.creating = TRUE]
  /\ lapses' = lapses \cup (IF Flies("detail") THEN {"reopened"} ELSE {})
  /\ UNCHANGED <<stored, flying, edits, failures>>

\* The dialog may be closed while its call is in flight.
CloseCreate ==
  /\ AtChannels /\ ui.creating
  /\ ui' = [ui EXCEPT !.creating = FALSE]
  /\ UNCHANGED <<stored, flying, edits, failures, lapses>>

OpenEdit(n) ==
  /\ AtChannels /\ ~ui.creating /\ Listed1(n)
  /\ ui' = [ui EXCEPT !.mode = "edit", !.active = [of |-> n, on |-> ui.list[n].on],
                      !.form = FormOf(n, ui.list[n], FALSE)]
  /\ Asks(Fly("detail", n, Absent, Nothing))
  /\ UNCHANGED <<stored, failures, lapses>>

\* The user types into an open form: a new key, or anything else.
Editing == (ui.mode = "edit" /\ ui.pane) \/ (ui.mode = "create" /\ ui.creating)
TypesKey ==
  /\ AtChannels /\ Editing /\ edits + failures < MaxEdits
  /\ edits' = edits + 1
  /\ \E n \in IF ui.mode = "edit" THEN {ui.active.of} ELSE Rows :
        ui' = [ui EXCEPT !.form.key = [of |-> n, by |-> edits'], !.form.dirty = TRUE]
  /\ UNCHANGED <<stored, flying, failures, lapses>>
TypesRest ==
  /\ AtChannels /\ Editing /\ edits + failures < MaxEdits
  /\ edits' = edits + 1
  /\ ui' = [ui EXCEPT !.form.edit = edits']
  /\ UNCHANGED <<stored, flying, failures, lapses>>

(* buildProviderPayload: an edit sends the key only if it was typed.       *)
Payload(form, mode) ==
  [on |-> TRUE, edit |-> form.edit,
   key |-> IF mode = "create" \/ form.dirty THEN form.key ELSE NoKey]

Submit ==
  /\ AtChannels /\ Editing /\ ~ui.pending
  /\ ui' = [ui EXCEPT !.pending = TRUE]
  /\ \/ /\ ui.mode = "edit" /\ ui.active # Absent
        /\ Asks(Fly("update", ui.active.of, Payload(ui.form, "edit"), Then("submitted", ui.form.of)))
     \/ /\ ui.mode = "create" /\ ui.form.key # NoKey
        /\ \E n \in Rows, on \in BOOLEAN :
              /\ ui.form.dirty => ui.form.key.of = n
              /\ Asks(Fly("create", n, [Payload(ui.form, "create") EXCEPT !.on = on], Then("submitted", n)))
  /\ UNCHANGED <<stored, failures, lapses>>

Delete(n) ==
  /\ AtChannels /\ Listed1(n) /\ ~ui.deleting
  /\ ui' = [ui EXCEPT !.deleting = TRUE]
  /\ Asks(Fly("delete", n, Absent, Then("deleted", n)))
  /\ UNCHANGED <<stored, failures, lapses>>

-----------------------------------------------------------------------------
(* An answer arrives at the page of the channels                           *)

Rest(i) == RemoveAt(flying, i)
ThenLoads(i, after) == flying' = Append(Rest(i), Load(after))

\* Mutant: the list is not loaded again.
ToggleArrivesOnly(i) ==
  LET c == flying[i] IN
  /\ c.op = "toggle" /\ c.after.what = "toggled"
  /\ ui' = [ui EXCEPT !.toggling = @ \ {c.of}]
  /\ flying' = Rest(i)

ToggleArrives(i) ==
  LET c == flying[i] IN
  /\ c.op = "toggle" /\ c.after.what = "toggled"
  /\ ui' = IF c.answer = "ok" /\ ui.active # Absent /\ ui.active.of = c.of
           THEN [ui EXCEPT !.active.on = c.list[c.of].on] ELSE ui
  /\ ThenLoads(i, c.after)

\* Mutant: the form is filled in for a channel that is not the active one.
DetailFillsForm(i) ==
  LET c == flying[i] IN
  /\ c.op = "detail"
  /\ ui' = IF c.answer = "ok"
           THEN [ui EXCEPT !.form = FormOf(c.of, c.list[c.of], TRUE), !.pane = TRUE]
           ELSE [ui EXCEPT !.pane = TRUE]
  /\ flying' = Rest(i)

(* A late answer is applied, whatever was opened since.                    *)
DetailArrives(i) ==
  LET c == flying[i] IN
  /\ c.op = "detail"
  /\ ui' = IF c.answer = "ok"
           THEN [ui EXCEPT !.active = [of |-> c.of, on |-> c.list[c.of].on],
                           !.form = FormOf(c.of, c.list[c.of], TRUE), !.pane = TRUE]
           ELSE [ui EXCEPT !.pane = TRUE]
  /\ flying' = Rest(i)

(* A channel that is created off is switched off by a second call.         *)
SubmitArrives(i) ==
  LET c == flying[i] IN
  /\ c.op \in {"create", "update"} \/ (c.op = "toggle" /\ c.after.what = "submitted")
  /\ IF c.answer = "ok"
     THEN /\ UNCHANGED ui
          /\ IF c.op = "create" /\ ~c.row.on
             THEN flying' = Append(Rest(i), Fly("toggle", c.of, [c.row EXCEPT !.on = FALSE], c.after))
             ELSE ThenLoads(i, c.after)
     ELSE /\ ui' = [ui EXCEPT !.pending = FALSE]
          /\ flying' = Rest(i)

DeleteArrives(i) ==
  LET c == flying[i] IN
  /\ c.op = "delete"
  /\ IF c.answer = "ok" THEN UNCHANGED ui /\ ThenLoads(i, c.after)
     ELSE ui' = [ui EXCEPT !.deleting = FALSE] /\ flying' = Rest(i)

(* The list is shown, and what waited for it goes on.                      *)
Reloaded(u, c) ==
  LET after == c.after.what
      shown == IF c.answer = "ok" THEN [u EXCEPT !.list = c.list, !.error = FALSE]
                                  ELSE [u EXCEPT !.error = TRUE]
  IN CASE after = "toggled"   -> [shown EXCEPT !.toggling = @ \ {c.after.of}]
       [] after = "submitted" -> [shown EXCEPT !.pane = FALSE, !.creating = FALSE, !.pending = FALSE]
       [] after = "deleted"   -> [shown EXCEPT !.deleting = FALSE]
       [] OTHER               -> shown

LoadArrives(i) ==
  LET c == flying[i] IN
  /\ c.op = "load"
  /\ ui' = Reloaded(ui, c)
  /\ flying' = Rest(i)

ChannelsArrive(i) ==
  /\ ui.page = "channels" /\ flying[i].answer # "none"
  /\ ToggleArrives(i) \/ DetailArrives(i) \/ SubmitArrives(i) \/ DeleteArrives(i) \/ LoadArrives(i)
  /\ lapses' = lapses \cup
        (IF flying[i].op = "load" /\ \E j \in 1..(i - 1) : flying[j].op = "load"
         THEN {"crossed"} ELSE {}) \cup
        (IF flying[i].op = "create" /\ flying[i].answer = "ok" /\ ~flying[i].row.on
         THEN {"two steps"} ELSE {})
  /\ UNCHANGED <<stored, edits, failures>>

-----------------------------------------------------------------------------
(* The pages that patch their list                                         *)

Patching == ui.page = "patched" /\ ui.list # Absent

(* A dialog renames a key, sets its models or its quota; two of one row    *)
(* may be in flight when the dialog of the first was closed.               *)
KeysSave(n) ==
  /\ Patching /\ ui.list[n] # Absent
  /\ Asks(Fly("update", n, [on |-> TRUE, edit |-> edits', key |-> NoKey], Nothing))
  /\ lapses' = lapses \cup (IF \E i \in DOMAIN flying : flying[i].of = n THEN {"crossed"} ELSE {})
  /\ UNCHANGED <<stored, ui, failures>>
KeysRename(n) == KeysSave(n)
KeysModels(n) == KeysSave(n)
KeysQuota(n) == KeysSave(n)
AliasSave(n) == KeysSave(n)
ModelsSave(n) == KeysSave(n)
ModelsReset(n) == KeysSave(n)

AliasToggle(n) ==
  /\ Patching /\ ui.list[n] # Absent
  /\ Asks(Fly("toggle", n, [ui.list[n] EXCEPT !.on = ~@], Nothing))
  /\ lapses' = lapses \cup (IF \E i \in DOMAIN flying : flying[i].of = n THEN {"crossed"} ELSE {})
  /\ UNCHANGED <<stored, ui, failures>>

KeysCreate(n) ==
  /\ Patching /\ ui.list[n] = Absent /\ stored[n] = Absent
  /\ ~\E i \in DOMAIN flying : flying[i].of = n
  /\ Asks(Fly("create", n, [on |-> TRUE, edit |-> edits', key |-> [of |-> n, by |-> edits']], Nothing))
  /\ UNCHANGED <<stored, ui, failures, lapses>>
AliasCreate(n) == KeysCreate(n)

KeysDelete(n) ==
  /\ Patching /\ ui.list[n] # Absent
  /\ Asks(Fly("delete", n, Absent, Nothing))
  /\ lapses' = lapses \cup (IF \E i \in DOMAIN flying : flying[i].of = n THEN {"crossed"} ELSE {})
  /\ UNCHANGED <<stored, ui, failures>>
AliasDelete(n) == KeysDelete(n)

(* The row is put where the list still has one; a new row is added.        *)
Patched(list, c) ==
  CASE c.op = "load" -> c.list
    [] c.op = "delete" -> [list EXCEPT ![c.of] = Absent]
    [] c.op = "create" -> [list EXCEPT ![c.of] = c.list[c.of]]
    [] OTHER -> [list EXCEPT ![c.of] = IF @ = Absent THEN Absent ELSE c.list[c.of]]

PatchArrives(i) ==
  LET c == flying[i] IN
  /\ ui.page = "patched" /\ c.answer # "none"
  /\ c.answer = "ok" \/ c.op # "load"
  /\ ui' = IF c.answer = "ok" THEN [ui EXCEPT !.list = Patched(@, c)] ELSE ui
  /\ flying' = Rest(i)
  /\ UNCHANGED <<stored, edits, failures, lapses>>

-----------------------------------------------------------------------------
Opened(p) ==
  [page |-> p, list |-> Absent, error |-> FALSE, mode |-> "create", active |-> Absent,
   form |-> BlankForm, pane |-> FALSE, creating |-> FALSE, pending |-> FALSE,
   deleting |-> FALSE, toggling |-> {}]

EditorsInit ==
  /\ stored = [n \in Rows |-> FirstRow(n)]
  /\ ui = Opened("none") /\ flying = << >>
  /\ edits = 0 /\ failures = 0 /\ lapses = {}

(* A page mounts on stored rows and loads them. *)
Opens(p, there) ==
  /\ ui.page = "none"
  /\ stored' = [n \in Rows |-> IF n \in there THEN FirstRow(n) ELSE Absent]
  /\ ui' = Opened(p) /\ flying' = <<Load(Nothing)>>
  /\ UNCHANGED <<edits, failures, lapses>>

EditorsNext ==
  \/ \E p \in {"channels", "patched"}, there \in SUBSET Rows : Opens(p, there)
  \/ \E i \in DOMAIN flying : Replies(i) \/ Fails(i) \/ ChannelsArrive(i) \/ PatchArrives(i)
  \/ OpenCreate \/ CloseCreate \/ TypesKey \/ TypesRest \/ Submit
  \/ \E n \in Rows :
        \/ Toggle(n) \/ OpenEdit(n) \/ Delete(n)
        \/ KeysRename(n) \/ KeysModels(n) \/ KeysQuota(n) \/ KeysCreate(n) \/ KeysDelete(n)
        \/ AliasSave(n) \/ AliasToggle(n) \/ AliasCreate(n) \/ AliasDelete(n)
        \/ ModelsSave(n) \/ ModelsReset(n)

EditorsSpec == EditorsInit /\ [][EditorsNext]_editorVars

-----------------------------------------------------------------------------
(* With nothing in flight the list is what is stored: its own writes show, *)
(* unless answers crossed, a write failed after it was done, a channel was *)
(* created in two steps, or the reload failed.                             *)
OwnWritesShown ==
  flying = << >> /\ ~ui.error /\ ui.list # Absent
  /\ lapses \cap {"crossed", "written", "two steps"} = {}
    => ui.list = stored

(* What is written to a channel was filled in for it, whatever was opened  *)
(* while its own data was loading (763-784, 875-901): an edit is sent from *)
(* a form of the same channel, and a channel's key is one that was given   *)
(* to it, unless the answer for another came into the form of a new one.   *)
NoCrossWrite ==
  /\ \A i \in DOMAIN flying :
       flying[i].op = "update" /\ ui.page = "channels" => flying[i].after.of = flying[i].of
  /\ "reopened" \notin lapses =>
       \A n \in Rows : stored[n] # Absent => stored[n].key.of = n
=============================================================================
