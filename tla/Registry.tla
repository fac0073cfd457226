------------------------------ MODULE Registry ------------------------------
(***************************************************************************)
(* The providers, model aliases and concurrency rules of the console       *)
(* (config.ts, console-provider-store.ts, console-model-alias-store.ts,    *)
(* concurrency-rule-store.ts): database rows, and the in-memory copy by    *)
(* which the TypeScript gateway routes. A provider handler reads the copy, *)
(* puts its candidate into it, writes the database and reloads the copy;   *)
(* handlers share one reload in flight, and a failed one puts back the     *)
(* copy it saw before it wrote.                                            *)
(*                                                                         *)
(* A provider row is its uuid, whether it is enabled, the rule it is bound *)
(* to and the mark of the last edit of everything else.                    *)
(***************************************************************************)
EXTENDS Naturals, FiniteSets

CONSTANTS
  Names,     \* channel names
  Rules,     \* concurrency rules there are at first
  Handlers,  \* console handlers at work
  NoRow, NoRule, NoName,
  MaxOps,    \* bound: operations begun, and faults
  MaxFaults  \* bound: reloads that fail

ProviderRow == [id : Nat, on : BOOLEAN, rule : Rules \cup {NoRule}, edits : Nat]
AliasRow == [on : BOOLEAN, edits : Nat]

ASSUME BoundsAssumption ==
  /\ NoRow \notin Rules /\ NoRule \notin Rules /\ NoName \notin Names
  /\ NoRow \notin ProviderRow /\ NoRow \notin AliasRow
  /\ MaxOps \in Nat \ {0} /\ MaxFaults \in Nat

VARIABLES
  rows,     \* console_providers
  alias,    \* the row of one alias: enabled, and the edits of the rest
  rules,    \* ids in concurrency_rules
  cache,    \* providerConfigs and aliasConfigs
  uuids,    \* uuidToChannelName
  loaded,   \* providerConfigsLoaded
  reload,   \* the reload behind providerConfigsPromise
  h,        \* what each handler is doing
  unsynced, \* what was stored since the Rust proxy was last sent the configuration
  ops, faults,
  excuses   \* history: what the code lets happen to the copy and the bindings

vars == <<rows, alias, rules, cache, uuids, loaded, reload, h, unsynced, ops, faults, excuses>>

Ids == 1..(MaxOps + 1)
NoId == 0
Resting == [pc |-> "idle", op |-> "none", name |-> NoName, next |-> NoName, on |-> FALSE,
            entry |-> NoRow, mark |-> 0, snapshot |-> [n \in Names |-> NoRow],
            overlapped |-> FALSE]
NoReload == [pc |-> "none", rows |-> [n \in Names |-> NoRow], alias |-> [on |-> TRUE, edits |-> 0]]

Busy(x) == h[x].pc # "idle"
\* Disabled aliases are left out of the copy.
Enabled(a) == IF a = NoRow THEN NoRow ELSE IF a.on THEN a ELSE NoRow
BoundRules(c) == {c[n].rule : n \in {m \in Names : c[m] # NoRow}} \ {NoRule}
UuidMap(c) == [i \in Ids |-> IF \E n \in Names : c[n] # NoRow /\ c[n].id = i
                             THEN CHOOSE n \in Names : c[n] # NoRow /\ c[n].id = i
                             ELSE NoName]

-----------------------------------------------------------------------------
Init ==
  /\ \E n \in Names :
        rows = [m \in Names |-> IF m = n THEN [id |-> 1, on |-> TRUE, rule |-> NoRule, edits |-> 0]
                                ELSE NoRow]
  /\ alias = [on |-> TRUE, edits |-> 0]
  /\ rules = Rules
  /\ cache = [rows |-> rows, alias |-> alias]
  /\ uuids = UuidMap(rows)
  /\ loaded = TRUE
  /\ reload = NoReload
  /\ h = [x \in Handlers |-> Resting]
  /\ ops = 0
  /\ faults = 0
  /\ unsynced = {}
  /\ excuses = {}

\* A handler starts; it and those at work overlap from now on.
Starts(x, state) ==
  /\ ~Busy(x)
  /\ x = CHOOSE y \in Handlers : ~Busy(y)
  /\ ops + faults < MaxOps /\ ops' = ops + 1
  /\ h' = [y \in Handlers |->
             IF y = x THEN [state EXCEPT !.mark = ops + 1, !.overlapped = \E z \in Handlers : Busy(z)]
             ELSE [h[y] EXCEPT !.overlapped = @ \/ Busy(y)]]

Ends(x) == h' = [h EXCEPT ![x] = Resting]

\* Mutant: buildNormalizedEntry as before its repair: an edit enables.
EditedEnables(op, old, rule) ==
  [old EXCEPT !.id = NoId, !.on = TRUE,
              !.rule = IF op = "bind" THEN rule ELSE @,
              !.edits = IF op = "edit" THEN ops + 1 ELSE @]

(* buildNormalizedEntry: what the request names, the rest from the entry   *)
(* in memory; the uuid is left to the store.                               *)
Edited(op, old, rule) ==
  [old EXCEPT !.id = NoId,
              !.rule = IF op = "bind" THEN rule ELSE @,
              !.edits = IF op = "edit" THEN ops + 1 ELSE @]

(* createProvider, up to its first await.                                  *)
StartsCreate(x, n) ==
  /\ loaded
  /\ cache.rows[n] = NoRow
  /\ Starts(x, [Resting EXCEPT !.pc = "validating", !.op = "create", !.name = n, !.next = n,
                 !.entry = [id |-> NoId, on |-> TRUE, rule |-> NoRule, edits |-> 0]])
  /\ UNCHANGED <<rows, alias, rules, cache, uuids, loaded, reload, unsynced, faults, excuses>>

(* updateProvider, up to its first await: an edit, a rename or a binding.  *)
StartsUpdate(x, op, n, next, rule) ==
  /\ loaded
  /\ cache.rows[n] # NoRow
  /\ Starts(x, [Resting EXCEPT !.pc = "validating", !.op = op, !.name = n, !.next = next,
                               !.entry = Edited(op, cache.rows[n], rule)])
  /\ UNCHANGED <<rows, alias, rules, cache, uuids, loaded, reload, unsynced, faults, excuses>>

Placed(x) == [n \in Names |-> IF n = h[x].next THEN h[x].entry
                              ELSE IF n = h[x].name THEN NoRow ELSE cache.rows[n]]

(* The rule of the entry exists, the upstream has listed its models if it  *)
(* was asked, and the candidate is put into the copy.                      *)
Places(x) ==
  /\ h[x].pc = "validating"
  /\ LET taken == cache.rows[h[x].next] # NoRow /\ (h[x].op = "create" \/ h[x].next # h[x].name)
         bound == h[x].entry.rule = NoRule \/ h[x].entry.rule \in rules
     IN IF bound /\ ~taken
          THEN /\ cache' = [cache EXCEPT !.rows = Placed(x)]
               /\ uuids' = UuidMap(Placed(x))
               /\ h' = [h EXCEPT ![x].pc = "writing", ![x].snapshot = cache.rows]
          ELSE Ends(x) /\ UNCHANGED <<cache, uuids>>
  /\ UNCHANGED <<rows, alias, rules, loaded, reload, unsynced, ops, faults, excuses>>

(* deleteProvider, toggleProvider and the model sync of one enabled        *)
(* provider (runAutoModelSync): no candidate, only a write.                *)
StartsWrite(x, op, n, on) ==
  /\ loaded
  /\ cache.rows[n] # NoRow
  /\ op = "models" => cache.rows[n].on
  /\ Starts(x, [Resting EXCEPT !.pc = "writing", !.op = op, !.name = n, !.next = n, !.on = on,
                               !.snapshot = cache.rows])
  /\ UNCHANGED <<rows, alias, rules, cache, uuids, loaded, reload, unsynced, faults, excuses>>

-----------------------------------------------------------------------------
\* The row of name `name` after the write of handler x.
Written(x) ==
  CASE h[x].op = "create" -> [h[x].entry EXCEPT !.id = h[x].mark + 1]
    [] h[x].op \in {"edit", "rename", "bind"} -> [h[x].entry EXCEPT !.id = rows[h[x].name].id]
    [] h[x].op = "toggle" -> [rows[h[x].name] EXCEPT !.on = h[x].on]
    [] h[x].op = "models" -> [rows[h[x].name] EXCEPT !.edits = h[x].mark]
    [] h[x].op = "delete" -> NoRow

\* The statement matches a row, and the unique channel name is free.
RowMatches(x) ==
  IF h[x].op = "create" THEN rows[h[x].name] = NoRow
  ELSE /\ rows[h[x].name] # NoRow
       /\ h[x].next = h[x].name \/ rows[h[x].next] = NoRow

\* Mutant: the copy is loaded already, so the refresh asks for nothing.
RefreshesNothing(x) ==
  /\ loaded' = FALSE
  /\ UNCHANGED <<reload, excuses>>
  /\ h' = [h EXCEPT ![x].pc = "refreshing"]

(* refreshProviderConfigs: a reload is started or the one in flight is     *)
(* joined, although it may have read the database before the write.        *)
Refreshes(x) ==
  /\ loaded' = FALSE
  /\ reload' = IF reload.pc = "none" THEN [NoReload EXCEPT !.pc = "asked"] ELSE reload
  /\ excuses' = IF reload.pc = "read" THEN excuses \cup {"joined"} ELSE excuses
  /\ h' = [h EXCEPT ![x].pc = "refreshing"]

(* The write of a provider handler.                                        *)
Writes(x) ==
  /\ h[x].pc = "writing" /\ RowMatches(x)
  /\ rows' = [n \in Names |-> IF n = h[x].next THEN Written(x)
                              ELSE IF n = h[x].name THEN NoRow ELSE rows[n]]
  /\ unsynced' = unsynced \cup {IF h[x].op = "models" THEN "models" ELSE "provider"}
  /\ Refreshes(x)
  /\ UNCHANGED <<alias, rules, cache, uuids, ops, faults>>

\* restoreProviderConfigs: the copy as the handler saw it, the uuids as they are.
Restored(x) == [cache EXCEPT !.rows = h[x].snapshot]

(* The write fails: the copy is put back, and called loaded; the model     *)
(* sync goes on with the next provider.                                    *)
WriteFails(x) ==
  /\ h[x].pc = "writing" /\ ~RowMatches(x)
  /\ IF h[x].op = "models" THEN UNCHANGED <<cache, loaded, excuses>>
     ELSE /\ cache' = Restored(x)
          /\ loaded' = TRUE
          /\ excuses' = excuses \cup {"restored"}
  /\ Ends(x)
  /\ UNCHANGED <<rows, alias, rules, uuids, reload, unsynced, ops, faults>>

-----------------------------------------------------------------------------
(* A gateway request finds the copy unloaded (ensureProviderConfigsLoaded).*)
Ensures ==
  /\ ~loaded /\ reload.pc = "none"
  /\ reload' = [NoReload EXCEPT !.pc = "asked"]
  /\ UNCHANGED <<rows, alias, rules, cache, uuids, loaded, h, unsynced, ops, faults, excuses>>

ReloadReads ==
  /\ reload.pc = "asked"
  /\ reload' = [pc |-> "read", rows |-> rows, alias |-> alias]
  /\ UNCHANGED <<rows, alias, rules, cache, uuids, loaded, h, unsynced, ops, faults, excuses>>

\* A toggle whose provider is not in the reloaded copy: "was deleted during
\* toggle", and the copy it saw, with the provider in it, is put back.
Vanished(x) == h[x].pc = "refreshing" /\ h[x].op = "toggle" /\ reload.rows[h[x].name] = NoRow

\* Mutant: the aliases' handlers forget the Rust proxy.
SyncsAliasless(op) == op \notin {"models", "aliasEdit", "aliasToggle", "aliasCreate", "aliasDelete"}

\* Every route calls syncConfigToRust when its handler is done; the timer
\* behind runAutoModelSync does not.
Syncs(op) == op # "models"

(* reloadProviderConfigs ends, and all who waited for it.                  *)
ReloadEnds ==
  /\ reload.pc = "read"
  /\ reload' = NoReload
  /\ loaded' = TRUE
  /\ uuids' = UuidMap(reload.rows)
  /\ h' = [x \in Handlers |-> IF h[x].pc = "refreshing" THEN Resting ELSE h[x]]
  /\ unsynced' = IF \E x \in Handlers : h[x].pc = "refreshing" /\ ~Vanished(x) /\ Syncs(h[x].op)
                   THEN {} ELSE unsynced
  /\ IF \E x \in Handlers : Vanished(x)
       THEN /\ \E x \in Handlers : /\ Vanished(x)
                                   /\ cache' = [rows |-> h[x].snapshot, alias |-> Enabled(reload.alias)]
            /\ excuses' = excuses \cup {"restored"}
       ELSE /\ cache' = [rows |-> reload.rows, alias |-> Enabled(reload.alias)]
            /\ UNCHANGED excuses
  /\ UNCHANGED <<rows, alias, rules, ops, faults>>

(* It fails: provider handlers put back their copies and call them loaded; *)
(* the routes answer 400 and send nothing to the Rust proxy.               *)
ReloadFails ==
  /\ reload.pc = "asked"
  /\ faults < MaxFaults /\ ops + faults < MaxOps /\ faults' = faults + 1
  /\ reload' = NoReload
  /\ LET waiting == {x \in Handlers : h[x].pc = "refreshing"}
         putters == {x \in waiting : h[x].op \in {"create", "edit", "rename", "bind", "toggle", "delete"}}
     IN /\ IF putters = {} THEN UNCHANGED <<cache, loaded>>
           ELSE /\ \E x \in putters : cache' = Restored(x)
                /\ loaded' = TRUE
        /\ excuses' = excuses \cup (IF putters = {} THEN {} ELSE {"restored"})
                               \cup (IF waiting = {} THEN {} ELSE {"unanswered"})
  /\ h' = [x \in Handlers |-> IF h[x].pc = "refreshing" THEN Resting ELSE h[x]]
  /\ UNCHANGED <<rows, alias, rules, uuids, unsynced, ops>>

-----------------------------------------------------------------------------
(* updateModelAlias reads the row; the other handlers of the alias store   *)
(* go straight on to their statement.                                      *)
StartsAlias(x, op, on) ==
  /\ op = "aliasEdit" => alias # NoRow
  /\ Starts(x, [Resting EXCEPT !.pc = "aliasing", !.op = op,
                               !.on = IF op = "aliasEdit" THEN alias.on ELSE on])
  /\ UNCHANGED <<rows, alias, rules, cache, uuids, loaded, reload, unsynced, faults, excuses>>

\* The statement matches a row; the alias of a new one is free.
AliasApplies(x) == (alias = NoRow) <=> (h[x].op = "aliasCreate")

(* It writes every column, those it only read too, and the route refreshes *)
(* the copy.                                                               *)
WritesAlias(x) ==
  /\ h[x].pc = "aliasing"
  /\ IF AliasApplies(x)
       THEN /\ alias' = CASE h[x].op = "aliasDelete" -> NoRow
                          [] h[x].op = "aliasToggle" -> [alias EXCEPT !.on = h[x].on]
                          [] OTHER -> [on |-> h[x].on, edits |-> h[x].mark]
            /\ unsynced' = unsynced \cup {"alias"}
            /\ Refreshes(x)
       ELSE Ends(x) /\ UNCHANGED <<alias, unsynced, loaded, reload, excuses>>
  /\ UNCHANGED <<rows, rules, cache, uuids, ops, faults>>

(* deleteConcurrencyRule: nobody is bound to it ...                        *)
StartsDropRule(x, r) ==
  /\ r \in rules
  /\ r \notin BoundRules(rows)
  /\ Starts(x, [Resting EXCEPT !.pc = "dropping", !.op = "dropRule", !.entry = r])
  /\ UNCHANGED <<rows, alias, rules, cache, uuids, loaded, reload, unsynced, faults, excuses>>

(* ... and it is deleted; a binding may have come between.                 *)
DropsRule(x) ==
  /\ h[x].pc = "dropping"
  /\ rules' = rules \ {h[x].entry}
  /\ excuses' = IF h[x].overlapped THEN excuses \cup {"dropped"} ELSE excuses
  /\ unsynced' = {}
  /\ Ends(x)
  /\ UNCHANGED <<rows, alias, cache, uuids, loaded, reload, ops, faults>>

-----------------------------------------------------------------------------
(* The routes that change the tables, twice: behind the console's session  *)
(* and behind the Bearer key of /api/v1. The timer of server.ts syncs the  *)
(* models of one provider.                                                 *)
ProviderRoutes(x) ==
  \E n \in Names :
     \/ StartsCreate(x, n)
     \/ StartsUpdate(x, "edit", n, n, NoRule)
     \/ \E next \in Names \ {n} : StartsUpdate(x, "rename", n, next, NoRule)
     \/ \E r \in Rules : StartsUpdate(x, "bind", n, n, r)
     \/ StartsWrite(x, "delete", n, FALSE)
     \/ \E on \in BOOLEAN : StartsWrite(x, "toggle", n, on)
OpenApiProviderRoutes(x) == ProviderRoutes(x)

AliasRoutes(x) ==
  \E op \in {"aliasEdit", "aliasToggle", "aliasCreate", "aliasDelete"}, on \in BOOLEAN : StartsAlias(x, op, on)
OpenApiAliasRoutes(x) == AliasRoutes(x)

ConcurrencyRuleRoutes(x) == \E r \in Rules : StartsDropRule(x, r)
SyncsModels(x) == \E n \in Names : StartsWrite(x, "models", n, FALSE)

Next ==
  \/ Ensures \/ ReloadReads \/ ReloadEnds \/ ReloadFails
  \/ \E x \in Handlers :
        \/ Places(x) \/ Writes(x) \/ WriteFails(x) \/ WritesAlias(x) \/ DropsRule(x)
        \/ ProviderRoutes(x) \/ OpenApiProviderRoutes(x) \/ AliasRoutes(x) \/ OpenApiAliasRoutes(x)
        \/ ConcurrencyRuleRoutes(x) \/ SyncsModels(x)

Spec == Init /\ [][Next]_vars

-----------------------------------------------------------------------------
Quiet == loaded /\ reload.pc = "none" /\ \A x \in Handlers : ~Busy(x)

(* When no handler is at work the gateway routes by what is stored, with   *)
(* every stored uuid known under its channel's name, unless a refresh      *)
(* joined a reload that had read the database before its write, or a       *)
(* failing handler put an old copy back (config.ts 292-299, 1000-1110).    *)
CopyIsStored ==
  Quiet /\ excuses \cap {"joined", "restored"} = {}
    => cache.rows = rows /\ cache.alias = Enabled(alias) /\ uuids = UuidMap(rows)

(* An edit that no other handler overlaps changes only what it names: the  *)
(* rest, taken from the copy in memory, is what the database holds.        *)
EditsKeepTheRest ==
  \A x \in Handlers :
    (/\ h[x].pc = "writing" /\ h[x].op \in {"edit", "rename", "bind"}
     /\ rows[h[x].name] # NoRow /\ ~h[x].overlapped /\ excuses \cap {"joined", "restored"} = {})
      => /\ h[x].entry.on = rows[h[x].name].on
         /\ h[x].op # "bind" => h[x].entry.rule = rows[h[x].name].rule
         /\ h[x].op # "edit" => h[x].entry.edits = rows[h[x].name].edits

(* When no handler is at work the Rust proxy has been sent whatever was    *)
(* stored, except models synced by the timer, unless a reload failed under *)
(* the handler (console-ui.ts 663-988, openapi-routes.ts 205-535).         *)
RustToldOfChanges ==
  (\A x \in Handlers : ~Busy(x)) /\ "unanswered" \notin excuses => unsynced \subseteq {"models"}
=============================================================================
