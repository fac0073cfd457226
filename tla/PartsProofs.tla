----------------------------- MODULE PartsProofs -----------------------------
(***************************************************************************)
(* What holds of the parts that MCParts composes, for all values of their  *)
(* constants: the copy that the gateways use of channels and aliases is    *)
(* what is stored (Registry), the dashboard shows what is chosen in it and *)
(* what this administrator wrote (DashboardProofs), the catalog is as      *)
(* fresh as it is taken for (ModelCatalog), and both gateways admit alike  *)
(* by an API key (KeyPush).                                                *)
(*                                                                         *)
(* Each part has an inductive invariant of its own; the theorems are of    *)
(* the specification that composes them, whose steps are steps of one part *)
(* that leave the others alone.                                            *)
(***************************************************************************)
EXTENDS MCParts, DashboardProofs, WellFoundedInduction

-----------------------------------------------------------------------------
(***************************************************************************)
(* The registry                                                            *)
(***************************************************************************)
Placers == {"create", "edit", "rename", "bind"}
Movers == Placers \cup {"delete"}
ProviderOps == Movers \cup {"toggle", "models"}
AliasOps == {"aliasEdit", "aliasToggle", "aliasCreate", "aliasDelete"}

Table == [Names -> ProviderRow \cup {NoRow}]
AliasState == AliasRow \cup {NoRow}
HandlerState ==
  [pc : {"idle", "validating", "writing", "refreshing", "aliasing", "dropping"},
   op : ProviderOps \cup AliasOps \cup {"none", "dropRule"},
   name : Names \cup {NoName}, next : Names \cup {NoName}, on : BOOLEAN,
   entry : ProviderRow \cup Rules \cup {NoRow}, mark : Nat, snapshot : Table, overlapped : BOOLEAN]

\* What a handler carries at each stage of its work.
CarriesOut(s) ==
  /\ s.pc = "validating" => s.op \in Placers
  /\ s.pc = "writing" => s.op \in ProviderOps
  /\ s.pc \in {"validating", "writing"} => s.name \in Names /\ s.next \in Names
  /\ s.pc \in {"validating", "writing"} /\ s.op \in Placers => s.entry \in ProviderRow
  /\ s.pc = "writing" /\ s.op \in {"delete", "toggle", "models"} => s.next = s.name
  /\ s.pc = "refreshing" => s.op \in ProviderOps \cup AliasOps
  /\ s.pc = "refreshing" /\ s.op = "toggle" => s.name \in Names
  /\ s.pc = "aliasing" => s.op \in AliasOps

RegistryTypeOK ==
  /\ rows \in Table /\ alias \in AliasState /\ rules \in SUBSET Rules
  /\ cache \in [rows : Table, alias : AliasState]
  /\ uuids \in [Ids -> Names \cup {NoName}]
  /\ loaded \in BOOLEAN
  /\ reload \in [pc : {"none", "asked", "read"}, rows : Table, alias : AliasState]
  /\ h \in [Handlers -> HandlerState] /\ \A x \in Handlers : CarriesOut(h[x])
  /\ unsynced \in SUBSET {"models", "provider", "alias"}
  /\ ops \in Nat /\ faults \in Nat
  /\ excuses \in SUBSET {"joined", "restored", "dropped", "unanswered"}

Refreshing(x) == h[x].pc = "refreshing"
ReloadAwaited == (\E x \in Handlers : Refreshing(x)) => reload.pc # "none"

\* A loaded copy is what is stored, but for the candidate of a handler that is about to write;
\* a reload in flight has read what is stored.
PlacedIn(x) == h[x].pc = "writing" /\ h[x].op \in Placers
CopyLoaded ==
  /\ uuids = UuidMap(cache.rows)
  /\ reload.pc # "none" => ~loaded
  /\ reload.pc = "read" => reload.rows = rows /\ reload.alias = alias
  /\ loaded => /\ cache.alias = Enabled(alias)
               /\ cache.rows = rows \/ \E x \in Handlers : PlacedIn(x)

\* A handler that none has overlapped is alone, and its entry is the row with the edit in it.
Alone == \A x \in Handlers : Busy(x) /\ ~h[x].overlapped => \A y \in Handlers : Busy(y) => y = x
Keeps(s, row) ==
  /\ s.entry.on = row.on
  /\ s.op # "bind" => s.entry.rule = row.rule
  /\ s.op # "edit" => s.entry.edits = row.edits
EntryKept ==
  \A x \in Handlers :
    h[x].pc \in {"validating", "writing"} /\ h[x].op \in {"edit", "rename", "bind"}
      /\ rows[h[x].name] # NoRow /\ ~h[x].overlapped
        => Keeps(h[x], rows[h[x].name])

Unexcused == excuses \cap {"joined", "restored"} = {}

\* A toggle that finds its provider gone from the reloaded copy waits for the reload together
\* with the handler that moved it.
MoverWaits == \E y \in Handlers : Refreshing(y) /\ h[y].op \in Movers
TogglesSeen ==
  MoverWaits \/
    /\ \A x \in Handlers : Refreshing(x) /\ h[x].op = "toggle" =>
         /\ reload.pc = "asked" => rows[h[x].name] # NoRow
         /\ reload.pc = "read" => reload.rows[h[x].name] # NoRow
    /\ reload.pc = "read" => \A n \in Names : rows[n] # NoRow => reload.rows[n] # NoRow

ToldOrTold ==
  "unanswered" \notin excuses =>
    unsynced \subseteq {"models"} \/ \E x \in Handlers : Refreshing(x) /\ Syncs(h[x].op)

\* What the handlers know, and the copy, as long as no old copy was put over it.
CopyTold == Unexcused => CopyLoaded /\ EntryKept
RustTelling == ReloadAwaited /\ TogglesSeen /\ ToldOrTold
RegistryInv == RegistryTypeOK /\ Alone /\ CopyTold /\ RustTelling

\* A call that starts goes on to check what it edits, or straight to its write.
Beginning(s) ==
  /\ s \in HandlerState /\ CarriesOut(s)
  /\ s.pc \notin {"idle", "refreshing"}
  /\ s.pc \in {"validating", "writing"} /\ s.op \in {"edit", "rename", "bind"}
       => loaded /\ cache.rows[s.name] # NoRow /\ Keeps(s, cache.rows[s.name])
StoredVars == <<rows, alias, rules, cache, uuids, loaded, reload, unsynced, faults, excuses>>

-----------------------------------------------------------------------------
SameWork(s, t) ==
  s.pc = t.pc /\ s.op = t.op /\ s.name = t.name /\ s.next = t.next /\ s.entry = t.entry
LEMMA RestingIsState == Resting \in HandlerState /\ CarriesOut(Resting) /\ Resting.pc = "idle"
BY BoundsAssumption DEF Resting, HandlerState, CarriesOut, Table

LEMMA RowsOfMaps ==
  ASSUME NEW c \in Table
  PROVE  UuidMap(c) \in [Ids -> Names \cup {NoName}]
<1>1. \A i \in Ids : (\E n \in Names : c[n] # NoRow /\ c[n].id = i)
        => (CHOOSE n \in Names : c[n] # NoRow /\ c[n].id = i) \in Names
  OBVIOUS
<1> QED BY <1>1 DEF UuidMap

LEMMA EnabledIsState ==
  ASSUME NEW a \in AliasState
  PROVE  Enabled(a) \in AliasState
BY DEF Enabled, AliasState

\* The work is carried out alike whatever mark and snapshot it has.
LEMMA SameWorkCarries ==
  ASSUME NEW s, NEW t, SameWork(s, t), CarriesOut(s)
  PROVE  CarriesOut(t)
BY DEF SameWork, CarriesOut

LEMMA StartsTells ==
  ASSUME NEW x \in Handlers, NEW s \in HandlerState, h \in [Handlers -> HandlerState],
         ops \in Nat, Starts(x, s)
  PROVE  /\ ~Busy(x) /\ h' \in [Handlers -> HandlerState]
         /\ SameWork(s, h'[x]) /\ h'[x].overlapped = (\E z \in Handlers : Busy(z))
         /\ \A y \in Handlers \ {x} :
              SameWork(h[y], h'[y]) /\ h'[y].overlapped = (h[y].overlapped \/ Busy(y))
         /\ ops' = ops + 1
<1> DEFINE now == \E z \in Handlers : Busy(z)
           begun == [s EXCEPT !.mark = ops + 1, !.overlapped = now]
           crossed(y) == [h[y] EXCEPT !.overlapped = h[y].overlapped \/ Busy(y)]
<1>1. ~Busy(x) /\ h' = [y \in Handlers |-> IF y = x THEN begun ELSE crossed(y)]
      /\ ops' = ops + 1
  BY DEF Starts
<1>2. begun \in HandlerState /\ SameWork(s, begun) /\ begun.overlapped = now
  <2>1. PICK b \in BOOLEAN : b = now BY Zenon
  <2>2. PICK m \in Nat : m = ops + 1 OBVIOUS
  <2>3. PICK t : t = [s EXCEPT !.mark = m] OBVIOUS
  <2>4. begun = [t EXCEPT !.overlapped = b] BY <2>1, <2>2, <2>3
  <2> HIDE DEF now, begun
  <2>5. t \in HandlerState /\ SameWork(s, t) BY <2>2, <2>3 DEF HandlerState, SameWork
  <2>6. begun \in HandlerState /\ SameWork(t, begun) /\ begun.overlapped = b
    BY <2>1, <2>4, <2>5 DEF HandlerState, SameWork
  <2>7. SameWork(s, begun) BY <2>5, <2>6 DEF SameWork
  <2> QED BY <2>1, <2>6, <2>7
<1>3. ASSUME NEW y \in Handlers
      PROVE  crossed(y) \in HandlerState /\ SameWork(h[y], crossed(y))
             /\ crossed(y).overlapped = (h[y].overlapped \/ Busy(y))
  <2>1. h[y] \in HandlerState OBVIOUS
  <2>2. PICK b \in BOOLEAN : b = (h[y].overlapped \/ Busy(y)) BY Zenon
  <2>3. crossed(y) = [h[y] EXCEPT !.overlapped = b] BY <2>2
  <2> HIDE DEF crossed
  <2> QED BY <2>1, <2>2, <2>3 DEF HandlerState, SameWork
<1> HIDE DEF begun, crossed
<1> QED BY <1>1, <1>2, <1>3

-----------------------------------------------------------------------------
(* Handlers that start                                                     *)

\* A call that starts goes on to check what it edits, or straight to its
\* write: whoever was at work is overlapped, and if nobody was, the copy it
\* took its entry from is what is stored.
LEMMA BeginsKeeps ==
  ASSUME NEW x \in Handlers, NEW s, RegistryInv, Beginning(s), Starts(x, s), UNCHANGED StoredVars
  PROVE  RegistryInv'
<1> USE DEF StoredVars
<1>1. RegistryTypeOK /\ Alone /\ CopyTold /\ RustTelling BY DEF RegistryInv
<1>2. s \in HandlerState /\ CarriesOut(s) /\ s.pc \notin {"idle", "refreshing"} BY DEF Beginning
<1>3. h \in [Handlers -> HandlerState] /\ ops \in Nat /\ \A y \in Handlers : CarriesOut(h[y])
  BY <1>1 DEF RegistryTypeOK
<1>4. /\ ~Busy(x) /\ h' \in [Handlers -> HandlerState]
      /\ SameWork(s, h'[x]) /\ h'[x].overlapped = (\E z \in Handlers : Busy(z))
      /\ \A y \in Handlers \ {x} :
           SameWork(h[y], h'[y]) /\ h'[y].overlapped = (h[y].overlapped \/ Busy(y))
      /\ ops' = ops + 1
  BY <1>2, <1>3, StartsTells
<1>5. ops' \in Nat BY <1>3, <1>4
<1>6. \A y \in Handlers : CarriesOut(h'[y])
  BY <1>2, <1>3, <1>4, SameWorkCarries
<1>7. RegistryTypeOK'
  BY <1>1, <1>4, <1>5, <1>6 DEF RegistryTypeOK
<1>8. \A y \in Handlers : Busy(y)' <=> (y = x \/ Busy(y))
  BY <1>2, <1>4 DEF Busy, SameWork
<1>9. Alone' BY <1>1, <1>4, <1>8 DEF Alone
<1>10. \A y \in Handlers : Refreshing(y)' <=> Refreshing(y)
  BY <1>2, <1>4 DEF Refreshing, Busy, SameWork
<1>11. \A y \in Handlers : Refreshing(y) => h'[y].op = h[y].op /\ h'[y].name = h[y].name
  BY <1>4 DEF Refreshing, Busy, SameWork
<1>12. RustTelling'
  <2>1. ReloadAwaited' BY <1>1, <1>10 DEF RustTelling, ReloadAwaited
  <2>2. MoverWaits' <=> MoverWaits BY <1>10, <1>11 DEF MoverWaits
  <2>3. TogglesSeen' BY <1>1, <1>10, <1>11, <2>2 DEF RustTelling, TogglesSeen
  <2>4. ToldOrTold' BY <1>1, <1>10, <1>11 DEF RustTelling, ToldOrTold, Syncs
  <2> QED BY <2>1, <2>3, <2>4 DEF RustTelling
<1>13. ASSUME Unexcused' PROVE (CopyLoaded /\ EntryKept)'
  <2>1. CopyLoaded /\ EntryKept BY <1>1, <1>13 DEF CopyTold, Unexcused
  <2>2. CopyLoaded'
    BY <2>1, <1>4 DEF CopyLoaded, PlacedIn, SameWork, Busy
  <2>3. ASSUME NEW y \in Handlers, h'[y].pc \in {"validating", "writing"},
               h'[y].op \in {"edit", "rename", "bind"}, rows[h'[y].name] # NoRow, ~h'[y].overlapped
        PROVE  Keeps(h'[y], rows[h'[y].name])
    <3>1. Busy(y)' BY <2>3 DEF Busy
    <3>2. y = x /\ \A z \in Handlers : ~Busy(z) BY <3>1, <2>3, <1>4, <1>8
    <3>3. loaded /\ Keeps(s, cache.rows[s.name])
      BY <3>2, <2>3, <1>4 DEF Beginning, SameWork
    <3>4. cache.rows = rows BY <3>3, <3>2, <2>1 DEF CopyLoaded, PlacedIn, Busy
    <3> QED BY <3>2, <3>3, <3>4, <1>4 DEF Keeps, SameWork
  <2>4. EntryKept' BY <2>3 DEF EntryKept
  <2> QED BY <2>2, <2>4
<1> QED BY <1>7, <1>9, <1>12, <1>13 DEF RegistryInv, CopyTold

LEMMA CreateBegins ==
  ASSUME NEW x \in Handlers, NEW n \in Names, RegistryInv, StartsCreate(x, n)
  PROVE  RegistryInv'
<1> DEFINE entry == [id |-> NoId, on |-> TRUE, rule |-> NoRule, edits |-> 0]
           begun == [Resting EXCEPT !.pc = "validating", !.op = "create", !.name = n, !.next = n,
                                    !.entry = entry]
<1>1. entry \in ProviderRow BY DEF ProviderRow, NoId
<1>2. PICK s : s = begun OBVIOUS
<1> HIDE DEF entry
<1>3. Beginning(s)
  <2>1. s \in HandlerState /\ s.pc = "validating" /\ s.op = "create" /\ s.entry \in ProviderRow
        /\ s.name \in Names /\ s.next \in Names
    BY <1>1, <1>2, RestingIsState DEF HandlerState, Placers, Movers, ProviderOps
  <2> QED BY <2>1 DEF Beginning, CarriesOut, Placers
<1>4. Starts(x, s) /\ UNCHANGED StoredVars
  BY <1>2 DEF StartsCreate, StoredVars, entry
<1> QED BY <1>3, <1>4, BeginsKeeps

LEMMA UpdateBegins ==
  ASSUME NEW x \in Handlers, NEW op \in {"edit", "rename", "bind"}, NEW n \in Names,
         NEW next \in Names, NEW rule \in Rules \cup {NoRule}, RegistryInv,
         StartsUpdate(x, op, n, next, rule)
  PROVE  RegistryInv'
<1>1. PICK row : row = cache.rows[n] OBVIOUS
<1>2. PICK e : e = Edited(op, cache.rows[n], rule) OBVIOUS
<1>3. PICK s : s = [Resting EXCEPT !.pc = "validating", !.op = op, !.name = n, !.next = next,
                                   !.entry = e]
  OBVIOUS
<1>4. cache.rows \in Table /\ ops \in Nat BY DEF RegistryInv, RegistryTypeOK
<1>5. row \in ProviderRow BY <1>1, <1>4 DEF StartsUpdate, Table
<1>6. e \in ProviderRow /\ e.on = row.on /\ (op # "bind" => e.rule = row.rule)
      /\ (op # "edit" => e.edits = row.edits)
  <2>1. e = [row EXCEPT !.id = 0, !.rule = IF op = "bind" THEN rule ELSE row.rule,
                        !.edits = IF op = "edit" THEN ops + 1 ELSE row.edits]
    BY <1>1, <1>2 DEF Edited, NoId
  <2>2. ops + 1 \in Nat BY <1>4
  <2> QED BY <2>1, <2>2, <1>5 DEF ProviderRow
<1>7. s \in HandlerState /\ s.pc = "validating" /\ s.op = op /\ s.entry = e
      /\ s.name = n /\ s.next = next
  BY <1>3, <1>6, RestingIsState DEF HandlerState, Placers, Movers, ProviderOps
<1>8. CarriesOut(s) BY <1>6, <1>7 DEF CarriesOut, Placers
<1>9. Keeps(s, cache.rows[s.name]) BY <1>1, <1>6, <1>7 DEF Keeps
<1>10. loaded /\ cache.rows[s.name] # NoRow BY <1>7 DEF StartsUpdate
<1>11. Beginning(s) BY <1>7, <1>8, <1>9, <1>10 DEF Beginning
<1>12. Starts(x, s) /\ UNCHANGED StoredVars
  BY <1>2, <1>3 DEF StartsUpdate, StoredVars
<1> QED BY <1>11, <1>12, BeginsKeeps

LEMMA WriteBegins ==
  ASSUME NEW x \in Handlers, NEW op \in {"delete", "toggle", "models"}, NEW n \in Names,
         NEW on \in BOOLEAN, RegistryInv, StartsWrite(x, op, n, on)
  PROVE  RegistryInv'
<1>1. PICK saw : saw = cache.rows OBVIOUS
<1>2. PICK s : s = [Resting EXCEPT !.pc = "writing", !.op = op, !.name = n, !.next = n, !.on = on,
                                   !.snapshot = saw]
  OBVIOUS
<1>3. saw \in Table BY <1>1 DEF RegistryInv, RegistryTypeOK
<1>4. s \in HandlerState /\ s.pc = "writing" /\ s.op = op /\ s.name = n /\ s.next = n
  <2>1. op \in ProviderOps BY DEF Placers, Movers, ProviderOps
  <2>2. s \in HandlerState BY <2>1, <1>2, <1>3, RestingIsState DEF HandlerState
  <2> QED BY <2>2, <1>2, RestingIsState DEF HandlerState
<1>5. Beginning(s) BY <1>4 DEF Beginning, CarriesOut, ProviderOps, Movers, Placers
<1>6. Starts(x, s) /\ UNCHANGED StoredVars BY <1>1, <1>2 DEF StartsWrite, StoredVars
<1> QED BY <1>5, <1>6, BeginsKeeps

LEMMA AliasBegins ==
  ASSUME NEW x \in Handlers, NEW op \in AliasOps, NEW on \in BOOLEAN, RegistryInv,
         StartsAlias(x, op, on)
  PROVE  RegistryInv'
<1>1. PICK o : o = IF op = "aliasEdit" THEN alias.on ELSE on OBVIOUS
<1>2. PICK s : s = [Resting EXCEPT !.pc = "aliasing", !.op = op, !.on = o] OBVIOUS
<1>3. o \in BOOLEAN
  BY <1>1 DEF StartsAlias, RegistryInv, RegistryTypeOK, AliasState, AliasRow
<1>4. s \in HandlerState /\ s.pc = "aliasing" /\ s.op = op
  BY <1>2, <1>3, RestingIsState DEF HandlerState
<1>5. Beginning(s) BY <1>4 DEF Beginning, CarriesOut, AliasOps
<1>6. Starts(x, s) /\ UNCHANGED StoredVars BY <1>1, <1>2 DEF StartsAlias, StoredVars
<1> QED BY <1>5, <1>6, BeginsKeeps

LEMMA DropBegins ==
  ASSUME NEW x \in Handlers, NEW r \in Rules, RegistryInv, StartsDropRule(x, r)
  PROVE  RegistryInv'
<1>1. PICK s : s = [Resting EXCEPT !.pc = "dropping", !.op = "dropRule", !.entry = r] OBVIOUS
<1>2. s \in HandlerState /\ s.pc = "dropping" /\ s.op = "dropRule"
  BY <1>1, RestingIsState DEF HandlerState
<1>3. Beginning(s) BY <1>2 DEF Beginning, CarriesOut
<1>4. Starts(x, s) /\ UNCHANGED StoredVars BY <1>1 DEF StartsDropRule, StoredVars
<1> QED BY <1>3, <1>4, BeginsKeeps
\* A handler that ends before it has written leaves the rest as it is.
LEMMA EndsKeeps ==
  ASSUME NEW x \in Handlers, RegistryInv, ~Refreshing(x), ~PlacedIn(x), Ends(x),
         UNCHANGED <<rows, alias, rules, cache, uuids, loaded, reload, unsynced, ops, faults, excuses>>
  PROVE  RegistryInv'
<1>1. RegistryTypeOK /\ Alone /\ CopyTold /\ RustTelling BY DEF RegistryInv
<1>2. h \in [Handlers -> HandlerState] /\ \A y \in Handlers : CarriesOut(h[y])
  BY <1>1 DEF RegistryTypeOK
<1>3. h' \in [Handlers -> HandlerState] /\ h'[x] = Resting /\ \A y \in Handlers \ {x} : h'[y] = h[y]
  BY <1>2, RestingIsState DEF Ends
<1>4. RegistryTypeOK' BY <1>1, <1>2, <1>3, RestingIsState DEF RegistryTypeOK
<1>5. Alone' BY <1>1, <1>3, RestingIsState DEF Alone, Busy
<1>6. RustTelling'
  <2>1. \A y \in Handlers : Refreshing(y)' <=> Refreshing(y)
    BY <1>3, RestingIsState DEF Refreshing
  <2>2. \A y \in Handlers : Refreshing(y) => h'[y] = h[y] BY <1>3 DEF Refreshing
  <2> QED BY <2>1, <2>2, <1>1 DEF RustTelling, ReloadAwaited, TogglesSeen, MoverWaits, ToldOrTold, Syncs
<1>7. CopyTold'
  BY <1>1, <1>3, RestingIsState DEF CopyTold, Unexcused, CopyLoaded, EntryKept, Keeps, PlacedIn
<1> QED BY <1>4, <1>5, <1>6, <1>7 DEF RegistryInv
-----------------------------------------------------------------------------
(* Handlers at work                                                        *)

LEMMA PlacesKeeps ==
  ASSUME NEW x \in Handlers, RegistryInv, Places(x)
  PROVE  RegistryInv'
<1>1. RegistryTypeOK /\ Alone /\ CopyTold /\ RustTelling BY DEF RegistryInv
<1>2. h \in [Handlers -> HandlerState] /\ \A y \in Handlers : CarriesOut(h[y])
  BY <1>1 DEF RegistryTypeOK
<1>3. h[x] \in HandlerState /\ h[x].pc = "validating" /\ h[x].op \in Placers
      /\ h[x].name \in Names /\ h[x].next \in Names /\ h[x].entry \in ProviderRow
  BY <1>2 DEF Places, CarriesOut
<1>4. UNCHANGED <<rows, alias, rules, loaded, reload, unsynced, ops, faults, excuses>>
  BY DEF Places
<1>5. CASE Ends(x) /\ UNCHANGED <<cache, uuids>>
  BY <1>3, <1>4, <1>5, EndsKeeps DEF Refreshing, PlacedIn
<1>6. CASE /\ cache' = [cache EXCEPT !.rows = Placed(x)]
           /\ uuids' = UuidMap(Placed(x))
           /\ h' = [h EXCEPT ![x].pc = "writing", ![x].snapshot = cache.rows]
  <2>1. PICK saw : saw = cache.rows OBVIOUS
  <2>2. PICK put : put = Placed(x) OBVIOUS
  <2>3. saw \in Table BY <2>1, <1>1 DEF RegistryTypeOK
  <2>4. put \in Table BY <2>1, <2>2, <2>3, <1>3 DEF Placed, Table
  <2>5. cache' = [cache EXCEPT !.rows = put] /\ uuids' = UuidMap(put) BY <1>6, <2>2
  <2>6. cache' \in [rows : Table, alias : AliasState] /\ cache'.rows = put /\ cache'.alias = cache.alias
    BY <2>4, <2>5, <1>1 DEF RegistryTypeOK
  <2>7. uuids' \in [Ids -> Names \cup {NoName}] BY <2>4, <2>5, RowsOfMaps
  <2>8. PICK t : t = [h[x] EXCEPT !.pc = "writing", !.snapshot = saw] OBVIOUS
  <2>9. t \in HandlerState /\ t.pc = "writing" /\ t.op = h[x].op /\ t.name = h[x].name
        /\ t.next = h[x].next /\ t.entry = h[x].entry /\ t.overlapped = h[x].overlapped
    BY <2>3, <2>8, <1>3 DEF HandlerState
  <2>10. CarriesOut(t) BY <2>9, <1>3 DEF CarriesOut, Placers, ProviderOps, Movers
  <2>11. h' = [h EXCEPT ![x] = t] BY <1>6, <2>1, <2>8, <1>2
  <2>12. h' \in [Handlers -> HandlerState] /\ h'[x] = t /\ \A y \in Handlers \ {x} : h'[y] = h[y]
    BY <2>9, <2>11, <1>2
  <2>13. RegistryTypeOK'
    BY <2>6, <2>7, <2>10, <2>12, <1>1, <1>4 DEF RegistryTypeOK
  <2>14. Alone' BY <2>9, <2>12, <1>1, <1>3 DEF Alone, Busy
  <2>15. RustTelling'
    <3>1. \A y \in Handlers : Refreshing(y)' <=> Refreshing(y)
      BY <2>9, <2>12, <1>3 DEF Refreshing
    <3>2. \A y \in Handlers : Refreshing(y) => h'[y] = h[y] BY <2>12, <1>3 DEF Refreshing
    <3> QED BY <3>1, <3>2, <1>1, <1>4 DEF RustTelling, ReloadAwaited, TogglesSeen, MoverWaits, ToldOrTold, Syncs
  <2>16. ASSUME Unexcused' PROVE (CopyLoaded /\ EntryKept)'
    <3>1. CopyLoaded /\ EntryKept BY <1>1, <1>4, <2>16 DEF CopyTold, Unexcused
    <3>2. PlacedIn(x)' BY <2>9, <2>12, <1>3 DEF PlacedIn
    <3>3. CopyLoaded' BY <3>1, <3>2, <2>5, <2>6, <1>4 DEF CopyLoaded
    <3>4. EntryKept' BY <3>1, <2>9, <2>12, <1>3, <1>4 DEF EntryKept, Keeps
    <3> QED BY <3>3, <3>4
  <2> QED BY <2>13, <2>14, <2>15, <2>16 DEF RegistryInv, CopyTold
<1> QED BY <1>5, <1>6 DEF Places
\* A write marks the copy unloaded and asks for a reload, if none is under way.
LEMMA RefreshesTells ==
  ASSUME NEW x \in Handlers, RegistryTypeOK, Refreshes(x),
         h[x].op \in ProviderOps \cup AliasOps, h[x].op = "toggle" => h[x].name \in Names
  PROVE  /\ h' \in [Handlers -> HandlerState] /\ \A y \in Handlers : CarriesOut(h'[y])
         /\ h'[x].pc = "refreshing" /\ h'[x].op = h[x].op /\ h'[x].name = h[x].name
         /\ h'[x].overlapped = h[x].overlapped
         /\ \A y \in Handlers \ {x} : h'[y] = h[y]
         /\ loaded' = FALSE
         /\ reload' \in [pc : {"none", "asked", "read"}, rows : Table, alias : AliasState]
         /\ reload.pc = "none" => reload'.pc = "asked"
         /\ reload.pc # "none" => reload' = reload
         /\ excuses' \in SUBSET {"joined", "restored", "dropped", "unanswered"}
         /\ excuses \subseteq excuses' /\ ("unanswered" \in excuses' => "unanswered" \in excuses)
         /\ Unexcused' => Unexcused /\ reload'.pc = "asked"
<1>1. h \in [Handlers -> HandlerState] /\ \A y \in Handlers : CarriesOut(h[y]) BY DEF RegistryTypeOK
<1>2. h[x] \in HandlerState BY <1>1
<1>3. PICK t : t = [h[x] EXCEPT !.pc = "refreshing"] OBVIOUS
<1>4. t \in HandlerState /\ t.pc = "refreshing" /\ t.op = h[x].op /\ t.name = h[x].name
      /\ t.overlapped = h[x].overlapped
  BY <1>2, <1>3 DEF HandlerState
<1>5. CarriesOut(t) BY <1>4 DEF CarriesOut
<1>6. h' = [h EXCEPT ![x] = t] BY <1>1, <1>3 DEF Refreshes
<1>7. /\ h' \in [Handlers -> HandlerState] /\ \A y \in Handlers : CarriesOut(h'[y])
      /\ h'[x] = t /\ \A y \in Handlers \ {x} : h'[y] = h[y]
  BY <1>1, <1>4, <1>5, <1>6
<1>8. /\ loaded' = FALSE
      /\ reload' \in [pc : {"none", "asked", "read"}, rows : Table, alias : AliasState]
      /\ reload.pc = "none" => reload'.pc = "asked"
      /\ reload.pc # "none" => reload' = reload
  BY BoundsAssumption DEF Refreshes, RegistryTypeOK, NoReload, Table, AliasState, AliasRow
<1>9. reload.pc \in {"none", "asked", "read"} BY DEF RegistryTypeOK
<1>10. /\ excuses' \in SUBSET {"joined", "restored", "dropped", "unanswered"}
       /\ excuses \subseteq excuses' /\ ("unanswered" \in excuses' => "unanswered" \in excuses)
       /\ reload.pc = "read" => "joined" \in excuses'
  BY DEF Refreshes, RegistryTypeOK
<1>11. Unexcused' => Unexcused /\ reload'.pc = "asked" BY <1>8, <1>9, <1>10 DEF Unexcused
<1> QED BY <1>4, <1>7, <1>8, <1>10, <1>11

\* The copy is told of the write by the reload that it waits for, and nobody
\* that is not overlapped edits a row another handler has written.
LEMMA WritesKeeps ==
  ASSUME NEW x \in Handlers, RegistryInv, Writes(x)
  PROVE  RegistryInv'
<1>1. RegistryTypeOK /\ Alone /\ CopyTold /\ RustTelling BY DEF RegistryInv
<1>2. h \in [Handlers -> HandlerState] /\ \A y \in Handlers : CarriesOut(h[y])
  BY <1>1 DEF RegistryTypeOK
<1>3. h[x] \in HandlerState /\ h[x].pc = "writing" /\ h[x].op \in ProviderOps
      /\ h[x].name \in Names /\ h[x].next \in Names
      /\ (h[x].op \in Placers => h[x].entry \in ProviderRow)
      /\ (h[x].op \in {"delete", "toggle", "models"} => h[x].next = h[x].name)
  BY <1>2 DEF Writes, CarriesOut
<1>4. /\ rows' = [n \in Names |-> IF n = h[x].next THEN Written(x)
                                  ELSE IF n = h[x].name THEN NoRow ELSE rows[n]]
      /\ unsynced' = unsynced \cup {IF h[x].op = "models" THEN "models" ELSE "provider"}
      /\ UNCHANGED <<alias, rules, cache, uuids, ops, faults>>
      /\ RowMatches(x) /\ Refreshes(x)
  BY DEF Writes
<1>5. /\ h' \in [Handlers -> HandlerState] /\ \A y \in Handlers : CarriesOut(h'[y])
      /\ h'[x].pc = "refreshing" /\ h'[x].op = h[x].op /\ h'[x].name = h[x].name
      /\ h'[x].overlapped = h[x].overlapped
      /\ \A y \in Handlers \ {x} : h'[y] = h[y]
      /\ loaded' = FALSE
      /\ reload' \in [pc : {"none", "asked", "read"}, rows : Table, alias : AliasState]
      /\ reload.pc = "none" => reload'.pc = "asked"
      /\ reload.pc # "none" => reload' = reload
      /\ excuses' \in SUBSET {"joined", "restored", "dropped", "unanswered"}
      /\ excuses \subseteq excuses' /\ ("unanswered" \in excuses' => "unanswered" \in excuses)
      /\ Unexcused' => Unexcused /\ reload'.pc = "asked"
  BY <1>1, <1>3, <1>4, RefreshesTells
<1>6. rows \in Table BY <1>1 DEF RegistryTypeOK
<1>7. PICK w : w = Written(x) OBVIOUS
<1>8. w \in ProviderRow \cup {NoRow} /\ (h[x].op \in {"toggle", "models"} => w # NoRow)
  <2>1. CASE h[x].op = "create"
    <3>1. w = [h[x].entry EXCEPT !.id = h[x].mark + 1] BY <1>7, <2>1 DEF Written
    <3>2. h[x].mark + 1 \in Nat BY <1>3 DEF HandlerState
    <3> QED BY <3>1, <3>2, <1>3, <2>1 DEF Placers, ProviderRow
  <2>2. CASE h[x].op \in {"edit", "rename", "bind"}
    <3>1. w = [h[x].entry EXCEPT !.id = rows[h[x].name].id] BY <1>7, <2>2 DEF Written
    <3>2. rows[h[x].name] \in ProviderRow BY <1>3, <1>4, <1>6, <2>2 DEF RowMatches, Table
    <3> QED BY <3>1, <3>2, <1>3, <2>2 DEF Placers, ProviderRow
  <2>3. CASE h[x].op \in {"toggle", "models"}
    <3>1. rows[h[x].name] \in ProviderRow BY <1>3, <1>4, <1>6, <2>3 DEF RowMatches, Table
    <3>2. h[x].on \in BOOLEAN /\ h[x].mark \in Nat BY <1>3 DEF HandlerState
    <3>3. \/ w = [rows[h[x].name] EXCEPT !.on = h[x].on]
          \/ w = [rows[h[x].name] EXCEPT !.edits = h[x].mark]
      BY <1>7, <2>3 DEF Written
    <3>4. w \in ProviderRow BY <3>1, <3>2, <3>3 DEF ProviderRow
    <3> QED BY <3>4, BoundsAssumption
  <2>4. CASE h[x].op = "delete" BY <1>7, <2>4 DEF Written
  <2> QED BY <1>3, <2>1, <2>2, <2>3, <2>4 DEF ProviderOps, Movers, Placers
<1>9. rows' = [n \in Names |-> IF n = h[x].next THEN w
                               ELSE IF n = h[x].name THEN NoRow ELSE rows[n]]
  BY <1>4, <1>7
<1>10. rows' \in Table BY <1>6, <1>8, <1>9, <1>3 DEF Table
<1>11. unsynced' \in SUBSET {"models", "provider", "alias"}
  BY <1>1, <1>4 DEF RegistryTypeOK
<1>12. RegistryTypeOK'
  <2>1. alias' \in AliasState /\ rules' \in SUBSET Rules
        /\ cache' \in [rows : Table, alias : AliasState]
        /\ uuids' \in [Ids -> Names \cup {NoName}] /\ ops' \in Nat /\ faults' \in Nat
    BY <1>1, <1>4 DEF RegistryTypeOK
  <2> QED BY <2>1, <1>5, <1>10, <1>11 DEF RegistryTypeOK
<1>13. Alone' BY <1>1, <1>3, <1>5 DEF Alone, Busy
<1>14. ReloadAwaited' BY <1>5, <1>1 DEF RustTelling, ReloadAwaited, Refreshing, RegistryTypeOK
<1>15. TogglesSeen'
  <2>1. CASE h[x].op \in Movers BY <2>1, <1>5 DEF TogglesSeen, MoverWaits, Refreshing
  <2>2. CASE MoverWaits
    <3>1. PICK y \in Handlers : Refreshing(y) /\ h[y].op \in Movers BY <2>2 DEF MoverWaits
    <3>2. h'[y] = h[y] BY <3>1, <1>3, <1>5 DEF Refreshing
    <3> QED BY <3>1, <3>2 DEF TogglesSeen, MoverWaits, Refreshing
  <2>3. CASE ~MoverWaits /\ h[x].op \in {"toggle", "models"}
    <3>1. \A n \in Names : rows'[n] = NoRow <=> rows[n] = NoRow
      BY <2>3, <1>3, <1>4, <1>8, <1>9 DEF RowMatches
    <3>2. rows[h[x].name] # NoRow BY <2>3, <1>4 DEF RowMatches
    <3>3. ASSUME NEW y \in Handlers, Refreshing(y)', h'[y].op = "toggle"
          PROVE  /\ reload'.pc = "asked" => rows'[h'[y].name] # NoRow
                 /\ reload'.pc = "read" => reload'.rows[h'[y].name] # NoRow
      <4>1. CASE y = x
        BY <4>1, <3>1, <3>2, <1>1, <1>3, <1>5, <2>3 DEF RustTelling, TogglesSeen
      <4>2. CASE y # x
        <5>1. h'[y] = h[y] /\ Refreshing(y) BY <4>2, <3>3, <1>5 DEF Refreshing
        <5>2. h[y].name \in Names BY <5>1, <3>3, <1>2 DEF CarriesOut, Refreshing
        <5>3. reload' = reload BY <5>1, <1>1, <1>5 DEF RustTelling, ReloadAwaited
        <5> QED BY <5>1, <5>2, <5>3, <3>1, <3>3, <1>1, <2>3 DEF RustTelling, TogglesSeen
      <4> QED BY <4>1, <4>2
    <3>4. reload'.pc = "read" => \A n \in Names : rows'[n] # NoRow => reload'.rows[n] # NoRow
      BY <3>1, <1>1, <1>5, <2>3 DEF RustTelling, TogglesSeen, RegistryTypeOK
    <3> QED BY <3>3, <3>4 DEF TogglesSeen
  <2> QED BY <1>3, <2>1, <2>2, <2>3 DEF ProviderOps, Movers, Placers
<1>16. ToldOrTold'
  <2>1. CASE h[x].op # "models" BY <2>1, <1>5 DEF ToldOrTold, Refreshing, Syncs
  <2>2. CASE h[x].op = "models"
    <3>1. unsynced' = unsynced \cup {"models"} BY <2>2, <1>4
    <3>2. \A y \in Handlers : Refreshing(y) => h'[y] = h[y] BY <1>3, <1>5 DEF Refreshing
    <3> QED BY <3>1, <3>2, <1>1, <1>5 DEF RustTelling, ToldOrTold, Refreshing, Syncs
  <2> QED BY <2>1, <2>2
<1>17. ASSUME Unexcused' PROVE (CopyLoaded /\ EntryKept)'
  <2>1. CopyLoaded /\ EntryKept /\ reload'.pc = "asked" BY <1>1, <1>5, <1>17 DEF CopyTold
  <2>2. CopyLoaded' BY <2>1, <1>4, <1>5 DEF CopyLoaded
  <2>3. \A y \in Handlers : Busy(y)' => h'[y].overlapped \/ y = x
    BY <1>1, <1>3, <1>5 DEF Alone, Busy
  <2>4. EntryKept' BY <2>3, <1>5 DEF EntryKept, Busy
  <2> QED BY <2>2, <2>4
<1>18. RustTelling' BY <1>14, <1>15, <1>16 DEF RustTelling
<1> QED BY <1>12, <1>13, <1>17, <1>18 DEF RegistryInv, CopyTold

LEMMA WritesAliasKeeps ==
  ASSUME NEW x \in Handlers, RegistryInv, WritesAlias(x)
  PROVE  RegistryInv'
<1>1. RegistryTypeOK /\ Alone /\ CopyTold /\ RustTelling BY DEF RegistryInv
<1>2. h \in [Handlers -> HandlerState] /\ \A y \in Handlers : CarriesOut(h[y])
  BY <1>1 DEF RegistryTypeOK
<1>3. h[x] \in HandlerState /\ h[x].pc = "aliasing" /\ h[x].op \in AliasOps
  BY <1>2 DEF WritesAlias, CarriesOut
<1>4. UNCHANGED <<rows, rules, cache, uuids, ops, faults>> BY DEF WritesAlias
<1>5. CASE ~AliasApplies(x)
  <2>1. Ends(x) /\ UNCHANGED <<alias, unsynced, loaded, reload, excuses>> BY <1>5 DEF WritesAlias
  <2> QED BY <2>1, <1>3, <1>4, EndsKeeps DEF Refreshing, PlacedIn
<1>6. CASE AliasApplies(x)
  <2>1. /\ alias' = CASE h[x].op = "aliasDelete" -> NoRow
                      [] h[x].op = "aliasToggle" -> [alias EXCEPT !.on = h[x].on]
                      [] OTHER -> [on |-> h[x].on, edits |-> h[x].mark]
        /\ unsynced' = unsynced \cup {"alias"}
        /\ Refreshes(x)
    BY <1>6 DEF WritesAlias
  <2>2. /\ h' \in [Handlers -> HandlerState] /\ \A y \in Handlers : CarriesOut(h'[y])
        /\ h'[x].pc = "refreshing" /\ h'[x].op = h[x].op
        /\ h'[x].overlapped = h[x].overlapped
        /\ \A y \in Handlers \ {x} : h'[y] = h[y]
        /\ loaded' = FALSE
        /\ reload' \in [pc : {"none", "asked", "read"}, rows : Table, alias : AliasState]
        /\ reload.pc = "none" => reload'.pc = "asked"
        /\ reload.pc # "none" => reload' = reload
        /\ excuses' \in SUBSET {"joined", "restored", "dropped", "unanswered"}
        /\ ("unanswered" \in excuses' => "unanswered" \in excuses)
        /\ Unexcused' => Unexcused /\ reload'.pc = "asked"
    BY <1>1, <1>3, <2>1, RefreshesTells DEF AliasOps
  <2>3. alias' \in AliasState
    <3>1. h[x].on \in BOOLEAN /\ h[x].mark \in Nat BY <1>3 DEF HandlerState
    <3>2. alias \in AliasState BY <1>1 DEF RegistryTypeOK
    <3>3. h[x].op = "aliasToggle" => alias \in AliasRow
      BY <3>2, <1>6 DEF AliasApplies, AliasState
    <3> QED BY <3>1, <3>3, <2>1 DEF AliasState, AliasRow
  <2>4. RegistryTypeOK'
    <3>1. unsynced' \in SUBSET {"models", "provider", "alias"} BY <1>1, <2>1 DEF RegistryTypeOK
    <3>2. rows' \in Table /\ rules' \in SUBSET Rules
          /\ cache' \in [rows : Table, alias : AliasState]
          /\ uuids' \in [Ids -> Names \cup {NoName}] /\ ops' \in Nat /\ faults' \in Nat
      BY <1>1, <1>4 DEF RegistryTypeOK
    <3> QED BY <3>1, <3>2, <2>2, <2>3 DEF RegistryTypeOK
  <2>5. Alone' BY <1>1, <1>3, <2>2 DEF Alone, Busy
  <2>6. \A y \in Handlers : Refreshing(y)' <=> (y = x \/ Refreshing(y))
    BY <2>2, <1>3 DEF Refreshing
  <2>7. \A y \in Handlers : Refreshing(y) => h'[y] = h[y] /\ y # x
    BY <2>2, <1>3 DEF Refreshing
  <2>8. RustTelling'
    <3>1. ReloadAwaited' BY <2>2, <1>1 DEF RustTelling, ReloadAwaited, Refreshing, RegistryTypeOK
    <3>2. MoverWaits' <=> MoverWaits
      BY <2>2, <2>6, <2>7, <1>3 DEF MoverWaits, AliasOps, Movers, Placers
    <3>3. ASSUME ~MoverWaits,
                 NEW y \in Handlers, Refreshing(y)', h'[y].op = "toggle"
          PROVE  /\ reload'.pc = "asked" => rows'[h'[y].name] # NoRow
                 /\ reload'.pc = "read" => reload'.rows[h'[y].name] # NoRow
      <4>1. y # x BY <3>3, <2>2, <1>3 DEF AliasOps
      <4>2. Refreshing(y) /\ h'[y] = h[y] BY <4>1, <3>3, <2>6, <2>7
      <4>3. reload' = reload BY <4>2, <2>2, <1>1 DEF RustTelling, ReloadAwaited
      <4> QED BY <4>2, <4>3, <3>3, <1>1, <1>4 DEF RustTelling, TogglesSeen
    <3>4. ~MoverWaits /\ reload'.pc = "read"
            => \A n \in Names : rows'[n] # NoRow => reload'.rows[n] # NoRow
      BY <2>2, <1>1, <1>4 DEF RustTelling, TogglesSeen, RegistryTypeOK
    <3>5. TogglesSeen' BY <3>2, <3>3, <3>4 DEF TogglesSeen
    <3>6. ToldOrTold'
      BY <2>2, <1>3 DEF ToldOrTold, Refreshing, Syncs, AliasOps
    <3> QED BY <3>1, <3>5, <3>6 DEF RustTelling
  <2>9. ASSUME Unexcused' PROVE (CopyLoaded /\ EntryKept)'
    <3>1. CopyLoaded /\ EntryKept /\ reload'.pc = "asked" BY <1>1, <2>2, <2>9 DEF CopyTold
    <3>2. CopyLoaded' BY <3>1, <1>4, <2>2 DEF CopyLoaded
    <3>3. EntryKept' BY <3>1, <2>2, <1>4 DEF EntryKept
    <3> QED BY <3>2, <3>3
  <2> QED BY <2>4, <2>5, <2>8, <2>9 DEF RegistryInv, CopyTold
<1> QED BY <1>5, <1>6

LEMMA WriteFailsKeeps ==
  ASSUME NEW x \in Handlers, RegistryInv, WriteFails(x)
  PROVE  RegistryInv'
<1>1. RegistryTypeOK /\ Alone /\ CopyTold /\ RustTelling BY DEF RegistryInv
<1>2. h \in [Handlers -> HandlerState] /\ \A y \in Handlers : CarriesOut(h[y])
  BY <1>1 DEF RegistryTypeOK
<1>3. h[x] \in HandlerState /\ h[x].pc = "writing" BY <1>2 DEF WriteFails
<1>4. Ends(x) /\ UNCHANGED <<rows, alias, rules, uuids, reload, unsynced, ops, faults>>
  BY DEF WriteFails
<1>5. CASE h[x].op = "models"
  <2>1. UNCHANGED <<cache, loaded, excuses>> BY <1>5 DEF WriteFails
  <2> QED BY <2>1, <1>3, <1>4, <1>5, EndsKeeps DEF Refreshing, PlacedIn, Placers
<1>6. CASE h[x].op # "models"
  <2>1. cache' = Restored(x) /\ loaded' = TRUE /\ excuses' = excuses \cup {"restored"}
    BY <1>6 DEF WriteFails
  <2>2. h' \in [Handlers -> HandlerState] /\ h'[x] = Resting /\ \A y \in Handlers \ {x} : h'[y] = h[y]
    BY <1>2, <1>4, RestingIsState DEF Ends
  <2>3. cache' \in [rows : Table, alias : AliasState]
    BY <2>1, <1>1, <1>3 DEF RegistryTypeOK, Restored, HandlerState
  <2>4. RegistryTypeOK'
    BY <2>1, <2>2, <2>3, <1>1, <1>2, <1>4, RestingIsState DEF RegistryTypeOK
  <2>5. Alone' BY <1>1, <2>2, RestingIsState DEF Alone, Busy
  <2>6. ~Unexcused' BY <2>1 DEF Unexcused
  <2>7. RustTelling'
    <3>1. \A y \in Handlers : Refreshing(y)' <=> Refreshing(y)
      BY <2>2, <1>3, RestingIsState DEF Refreshing
    <3>2. \A y \in Handlers : Refreshing(y) => h'[y] = h[y] BY <2>2, <1>3 DEF Refreshing
    <3> QED BY <3>1, <3>2, <2>1, <1>1, <1>4
            DEF RustTelling, ReloadAwaited, TogglesSeen, MoverWaits, ToldOrTold, Syncs
  <2> QED BY <2>4, <2>5, <2>6, <2>7 DEF RegistryInv, CopyTold
<1> QED BY <1>5, <1>6

LEMMA DropsRuleKeeps ==
  ASSUME NEW x \in Handlers, RegistryInv, DropsRule(x)
  PROVE  RegistryInv'
<1>1. RegistryTypeOK /\ Alone /\ CopyTold /\ RustTelling BY DEF RegistryInv
<1>2. h \in [Handlers -> HandlerState] /\ \A y \in Handlers : CarriesOut(h[y])
  BY <1>1 DEF RegistryTypeOK
<1>3. /\ h[x].pc = "dropping" /\ Ends(x) /\ rules' \subseteq rules /\ unsynced' = {}
      /\ excuses' \in {excuses, excuses \cup {"dropped"}}
      /\ UNCHANGED <<rows, alias, cache, uuids, loaded, reload, ops, faults>>
  BY DEF DropsRule
<1>4. h' \in [Handlers -> HandlerState] /\ h'[x] = Resting /\ \A y \in Handlers \ {x} : h'[y] = h[y]
  BY <1>2, <1>3, RestingIsState DEF Ends
<1>5. RegistryTypeOK'
  BY <1>1, <1>2, <1>3, <1>4, RestingIsState DEF RegistryTypeOK
<1>6. Alone' BY <1>1, <1>4, RestingIsState DEF Alone, Busy
<1>7. RustTelling'
  <2>1. \A y \in Handlers : Refreshing(y)' <=> Refreshing(y)
    BY <1>3, <1>4, RestingIsState DEF Refreshing
  <2>2. \A y \in Handlers : Refreshing(y) => h'[y] = h[y] BY <1>3, <1>4 DEF Refreshing
  <2> QED BY <2>1, <2>2, <1>1, <1>3 DEF RustTelling, ReloadAwaited, TogglesSeen, MoverWaits, ToldOrTold
<1>8. ASSUME Unexcused' PROVE (CopyLoaded /\ EntryKept)'
  <2>1. CopyLoaded /\ EntryKept BY <1>1, <1>3, <1>8 DEF CopyTold, Unexcused
  <2>2. CopyLoaded' BY <2>1, <1>3, <1>4 DEF CopyLoaded, PlacedIn
  <2>3. EntryKept' BY <2>1, <1>3, <1>4, RestingIsState DEF EntryKept, Keeps
  <2> QED BY <2>2, <2>3
<1> QED BY <1>5, <1>6, <1>7, <1>8 DEF RegistryInv, CopyTold
-----------------------------------------------------------------------------
(* The reload                                                              *)

LEMMA EnsuresKeeps == RegistryInv /\ Ensures => RegistryInv'
<1> SUFFICES ASSUME RegistryInv, Ensures PROVE RegistryInv' OBVIOUS
<1>1. RegistryTypeOK /\ Alone /\ CopyTold /\ RustTelling BY DEF RegistryInv
<1>2. /\ ~loaded /\ reload.pc = "none" /\ reload' = [NoReload EXCEPT !.pc = "asked"]
      /\ UNCHANGED <<rows, alias, rules, cache, uuids, loaded, h, unsynced, ops, faults, excuses>>
  BY DEF Ensures
<1>3. reload' \in [pc : {"none", "asked", "read"}, rows : Table, alias : AliasState]
      /\ reload'.pc = "asked"
  BY <1>2, BoundsAssumption DEF NoReload, Table, AliasState, AliasRow
<1>4. RegistryTypeOK' BY <1>1, <1>2, <1>3 DEF RegistryTypeOK
<1>5. Alone' BY <1>1, <1>2 DEF Alone, Busy
<1>6. \A y \in Handlers : ~Refreshing(y) BY <1>1, <1>2 DEF RustTelling, ReloadAwaited
<1>7. RustTelling'
  BY <1>1, <1>2, <1>3, <1>6 DEF RustTelling, ReloadAwaited, TogglesSeen, ToldOrTold, Refreshing, Syncs
<1>8. CopyTold'
  BY <1>1, <1>2, <1>3 DEF CopyTold, Unexcused, CopyLoaded, PlacedIn, EntryKept, Keeps
<1> QED BY <1>4, <1>5, <1>7, <1>8 DEF RegistryInv

LEMMA ReloadReadsKeeps == RegistryInv /\ ReloadReads => RegistryInv'
<1> SUFFICES ASSUME RegistryInv, ReloadReads PROVE RegistryInv' OBVIOUS
<1>1. RegistryTypeOK /\ Alone /\ CopyTold /\ RustTelling BY DEF RegistryInv
<1>2. /\ reload.pc = "asked" /\ reload' = [pc |-> "read", rows |-> rows, alias |-> alias]
      /\ UNCHANGED <<rows, alias, rules, cache, uuids, loaded, h, unsynced, ops, faults, excuses>>
  BY DEF ReloadReads
<1>3. RegistryTypeOK' BY <1>1, <1>2 DEF RegistryTypeOK
<1>4. Alone' BY <1>1, <1>2 DEF Alone, Busy
<1>5. RustTelling'
  <2>1. ReloadAwaited' BY <1>2 DEF ReloadAwaited
  <2>2. MoverWaits' <=> MoverWaits BY <1>2 DEF MoverWaits, Refreshing
  <2>3. TogglesSeen' BY <2>2, <1>1, <1>2 DEF RustTelling, TogglesSeen, Refreshing
  <2>4. ToldOrTold' BY <1>1, <1>2 DEF RustTelling, ToldOrTold, Refreshing, Syncs
  <2> QED BY <2>1, <2>3, <2>4 DEF RustTelling
<1>6. CopyTold'
  BY <1>1, <1>2 DEF CopyTold, Unexcused, CopyLoaded, PlacedIn, EntryKept, Keeps
<1> QED BY <1>3, <1>4, <1>5, <1>6 DEF RegistryInv

\* All who waited for the reload go home.
LEMMA WaitersRest ==
  ASSUME RegistryTypeOK, Alone,
         h' = [x \in Handlers |-> IF h[x].pc = "refreshing" THEN Resting ELSE h[x]]
  PROVE  /\ h' \in [Handlers -> HandlerState] /\ \A y \in Handlers : CarriesOut(h'[y])
         /\ \A y \in Handlers : ~Refreshing(y)'
         /\ \A y \in Handlers : Busy(y)' => ~Refreshing(y) /\ h'[y] = h[y]
         /\ \A y \in Handlers : Busy(y) => Refreshing(y) \/ h'[y] = h[y]
         /\ Alone'
<1>1. h \in [Handlers -> HandlerState] /\ \A y \in Handlers : CarriesOut(h[y]) BY DEF RegistryTypeOK
<1>2. h' \in [Handlers -> HandlerState] /\ \A y \in Handlers : CarriesOut(h'[y])
  BY <1>1, RestingIsState
<1>3. \A y \in Handlers : h'[y] = IF Refreshing(y) THEN Resting ELSE h[y] BY DEF Refreshing
<1>4. \A y \in Handlers : ~Refreshing(y)' BY <1>3, RestingIsState DEF Refreshing
<1>5. \A y \in Handlers : Busy(y)' => ~Refreshing(y) /\ h'[y] = h[y]
  BY <1>3, RestingIsState DEF Busy
<1>6. Alone' BY <1>5 DEF Alone, Busy
<1> QED BY <1>2, <1>3, <1>4, <1>5, <1>6

\* What a reload brings is what is stored; a toggle that finds its channel
\* gone waits together with the handler that moved it, which tells the proxy.
LEMMA ReloadEndsKeeps == RegistryInv /\ ReloadEnds => RegistryInv'
<1> SUFFICES ASSUME RegistryInv, ReloadEnds PROVE RegistryInv' OBVIOUS
<1>1. RegistryTypeOK /\ Alone /\ CopyTold /\ RustTelling BY DEF RegistryInv
<1>2. h \in [Handlers -> HandlerState] /\ \A y \in Handlers : CarriesOut(h[y])
  BY <1>1 DEF RegistryTypeOK
<1>3. /\ reload.pc = "read" /\ reload' = NoReload /\ loaded' = TRUE /\ uuids' = UuidMap(reload.rows)
      /\ h' = [x \in Handlers |-> IF h[x].pc = "refreshing" THEN Resting ELSE h[x]]
      /\ unsynced' = IF \E x \in Handlers : h[x].pc = "refreshing" /\ ~Vanished(x) /\ Syncs(h[x].op)
                       THEN {} ELSE unsynced
      /\ UNCHANGED <<rows, alias, rules, ops, faults>>
  BY DEF ReloadEnds
<1>4. /\ h' \in [Handlers -> HandlerState] /\ \A y \in Handlers : CarriesOut(h'[y])
      /\ \A y \in Handlers : ~Refreshing(y)'
      /\ \A y \in Handlers : Busy(y)' => ~Refreshing(y) /\ h'[y] = h[y]
      /\ \A y \in Handlers : Busy(y) => Refreshing(y) \/ h'[y] = h[y]
      /\ Alone'
  BY <1>1, <1>3, WaitersRest
<1>5. reload.rows \in Table /\ reload.alias \in AliasState BY <1>1 DEF RegistryTypeOK
<1>6. \/ /\ \E x \in Handlers : Vanished(x)
         /\ \E x \in Handlers : cache' = [rows |-> h[x].snapshot, alias |-> Enabled(reload.alias)]
         /\ excuses' = excuses \cup {"restored"}
      \/ /\ cache' = [rows |-> reload.rows, alias |-> Enabled(reload.alias)]
         /\ excuses' = excuses
  <2>1. CASE \E x \in Handlers : Vanished(x) BY <2>1 DEF ReloadEnds
  <2>2. CASE ~\E x \in Handlers : Vanished(x) BY <2>2 DEF ReloadEnds
  <2> QED BY <2>1, <2>2
<1>7. cache' \in [rows : Table, alias : AliasState]
  <2>1. PICK a : a = Enabled(reload.alias) OBVIOUS
  <2>2. a \in AliasState BY <2>1, <1>5, EnabledIsState
  <2>3. \A x \in Handlers : h[x].snapshot \in Table BY <1>2 DEF HandlerState
  <2> QED BY <2>1, <2>2, <2>3, <1>5, <1>6
<1>8. RegistryTypeOK'
  <2>1. uuids' \in [Ids -> Names \cup {NoName}] BY <1>3, <1>5, RowsOfMaps
  <2>2. reload' \in [pc : {"none", "asked", "read"}, rows : Table, alias : AliasState]
    BY <1>3, BoundsAssumption DEF NoReload, Table, AliasState, AliasRow
  <2>3. unsynced' \in SUBSET {"models", "provider", "alias"}
        /\ excuses' \in SUBSET {"joined", "restored", "dropped", "unanswered"}
    BY <1>1, <1>3, <1>6 DEF RegistryTypeOK
  <2>4. rows' \in Table /\ alias' \in AliasState /\ rules' \in SUBSET Rules /\ ops' \in Nat
        /\ faults' \in Nat /\ loaded' \in BOOLEAN
    BY <1>1, <1>3 DEF RegistryTypeOK
  <2> QED BY <2>1, <2>2, <2>3, <2>4, <1>4, <1>7 DEF RegistryTypeOK
<1>9. RustTelling'
  <2>1. ReloadAwaited' BY <1>4 DEF ReloadAwaited
  <2>2. TogglesSeen' BY <1>3, <1>4 DEF TogglesSeen, NoReload
  <2>3. ASSUME "unanswered" \notin excuses' PROVE unsynced' \subseteq {"models"}
    <3>1. "unanswered" \notin excuses BY <2>3, <1>6
    <3>2. CASE unsynced \subseteq {"models"} BY <3>2, <1>3
    <3>3. CASE \E x \in Handlers : Refreshing(x) /\ Syncs(h[x].op)
      <4>1. PICK x \in Handlers : Refreshing(x) /\ Syncs(h[x].op) BY <3>3
      <4>2. CASE ~Vanished(x) BY <4>1, <4>2, <1>3 DEF Refreshing
      <4>3. CASE Vanished(x)
        <5>1. ~(reload.pc = "read" => reload.rows[h[x].name] # NoRow) /\ h[x].op = "toggle"
          BY <4>3, <1>3 DEF Vanished
        <5>2. MoverWaits BY <4>1, <5>1, <1>1 DEF RustTelling, TogglesSeen
        <5>3. PICK y \in Handlers : Refreshing(y) /\ h[y].op \in Movers BY <5>2 DEF MoverWaits
        <5>4. ~Vanished(y) /\ Syncs(h[y].op) BY <5>3 DEF Vanished, Syncs, Movers, Placers
        <5> QED BY <5>3, <5>4, <1>3 DEF Refreshing
      <4> QED BY <4>2, <4>3
    <3> QED BY <3>1, <3>2, <3>3, <1>1 DEF RustTelling, ToldOrTold
  <2>4. ToldOrTold' BY <2>3 DEF ToldOrTold
  <2> QED BY <2>1, <2>2, <2>4 DEF RustTelling
<1>10. ASSUME Unexcused' PROVE (CopyLoaded /\ EntryKept)'
  <2>1. cache' = [rows |-> reload.rows, alias |-> Enabled(reload.alias)] /\ excuses' = excuses
    BY <1>6, <1>10 DEF Unexcused
  <2>2. CopyLoaded /\ EntryKept BY <2>1, <1>1, <1>10 DEF CopyTold, Unexcused
  <2>3. reload.rows = rows /\ reload.alias = alias BY <2>2, <1>3 DEF CopyLoaded
  <2>4. CopyLoaded' BY <2>1, <2>3, <1>3 DEF CopyLoaded, NoReload
  <2>5. EntryKept' BY <2>2, <1>3, <1>4 DEF EntryKept, Busy
  <2> QED BY <2>4, <2>5
<1> QED BY <1>4, <1>8, <1>9, <1>10 DEF RegistryInv, CopyTold

LEMMA ReloadFailsKeeps == RegistryInv /\ ReloadFails => RegistryInv'
<1> SUFFICES ASSUME RegistryInv, ReloadFails PROVE RegistryInv' OBVIOUS
<1> DEFINE waiters == {x \in Handlers : h[x].pc = "refreshing"}
           putters == {x \in waiters : h[x].op \in {"create", "edit", "rename", "bind", "toggle", "delete"}}
<1>1. RegistryTypeOK /\ Alone /\ CopyTold /\ RustTelling BY DEF RegistryInv
<1>2. h \in [Handlers -> HandlerState] /\ \A y \in Handlers : CarriesOut(h[y])
  BY <1>1 DEF RegistryTypeOK
<1>3. /\ reload.pc = "asked" /\ reload' = NoReload /\ faults' = faults + 1
      /\ h' = [x \in Handlers |-> IF h[x].pc = "refreshing" THEN Resting ELSE h[x]]
      /\ UNCHANGED <<rows, alias, rules, uuids, unsynced, ops>>
  BY DEF ReloadFails
<1>4. /\ \/ putters = {} /\ UNCHANGED <<cache, loaded>>
         \/ /\ putters # {} /\ loaded' = TRUE
            /\ \E x \in Handlers : cache' = Restored(x)
      /\ excuses' = excuses \cup (IF putters = {} THEN {} ELSE {"restored"})
                             \cup (IF waiters = {} THEN {} ELSE {"unanswered"})
  <2>1. CASE putters = {} BY <2>1 DEF ReloadFails
  <2>2. CASE putters # {} BY <2>2 DEF ReloadFails
  <2> QED BY <2>1, <2>2
<1>5. /\ h' \in [Handlers -> HandlerState] /\ \A y \in Handlers : CarriesOut(h'[y])
      /\ \A y \in Handlers : ~Refreshing(y)'
      /\ \A y \in Handlers : Busy(y)' => ~Refreshing(y) /\ h'[y] = h[y]
      /\ \A y \in Handlers : Busy(y) => Refreshing(y) \/ h'[y] = h[y]
      /\ Alone'
  BY <1>1, <1>3, WaitersRest
<1>6. waiters = {} <=> \A x \in Handlers : ~Refreshing(x) BY DEF Refreshing
<1> HIDE DEF waiters, putters
<1>7. RegistryTypeOK'
  <2>1. cache' \in [rows : Table, alias : AliasState]
    <3>1. \A x \in Handlers : h[x].snapshot \in Table BY <1>2 DEF HandlerState
    <3> QED BY <3>1, <1>1, <1>4 DEF Restored, RegistryTypeOK
  <2>2. reload' \in [pc : {"none", "asked", "read"}, rows : Table, alias : AliasState]
    BY <1>3, BoundsAssumption DEF NoReload, Table, AliasState, AliasRow
  <2>3. excuses' \in SUBSET {"joined", "restored", "dropped", "unanswered"}
    BY <1>1, <1>4 DEF RegistryTypeOK
  <2>4. rows' \in Table /\ alias' \in AliasState /\ rules' \in SUBSET Rules /\ ops' \in Nat
        /\ faults' \in Nat /\ uuids' \in [Ids -> Names \cup {NoName}]
        /\ unsynced' \in SUBSET {"models", "provider", "alias"}
    BY <1>1, <1>3 DEF RegistryTypeOK
  <2>5. loaded' \in BOOLEAN BY <1>1, <1>4 DEF RegistryTypeOK
  <2> QED BY <2>1, <2>2, <2>3, <2>4, <2>5, <1>5 DEF RegistryTypeOK
<1>8. RustTelling'
  <2>1. ReloadAwaited' BY <1>5 DEF ReloadAwaited
  <2>2. TogglesSeen' BY <1>3, <1>5 DEF TogglesSeen, NoReload
  <2>3. ToldOrTold' BY <1>1, <1>3, <1>4, <1>6 DEF RustTelling, ToldOrTold
  <2> QED BY <2>1, <2>2, <2>3 DEF RustTelling
<1>9. ASSUME Unexcused' PROVE (CopyLoaded /\ EntryKept)'
  <2>1. Unexcused /\ UNCHANGED <<cache, loaded>> BY <1>4, <1>9 DEF Unexcused
  <2>2. CopyLoaded /\ EntryKept BY <2>1, <1>1 DEF CopyTold
  <2>3. CopyLoaded' BY <2>1, <2>2, <1>3 DEF CopyLoaded, NoReload
  <2>4. EntryKept' BY <2>2, <1>3, <1>5 DEF EntryKept, Busy
  <2> QED BY <2>3, <2>4
<1> QED BY <1>5, <1>7, <1>8, <1>9 DEF RegistryInv, CopyTold

-----------------------------------------------------------------------------
LEMMA RegistryStarts == Init => RegistryInv
<1> SUFFICES ASSUME Init PROVE RegistryInv OBVIOUS
<1>1. rows \in Table
  <2>1. [id |-> 1, on |-> TRUE, rule |-> NoRule, edits |-> 0] \in ProviderRow BY DEF ProviderRow
  <2> QED BY <2>1 DEF Init, Table
<1>2. /\ alias \in AliasRow /\ alias.on = TRUE /\ rules = Rules
      /\ cache = [rows |-> rows, alias |-> alias] /\ uuids = UuidMap(rows) /\ loaded = TRUE
      /\ reload = NoReload /\ h = [x \in Handlers |-> Resting]
      /\ ops = 0 /\ faults = 0 /\ unsynced = {} /\ excuses = {}
  BY DEF Init, AliasRow
<1>3. alias # NoRow BY <1>2, BoundsAssumption
<1>4. \A x \in Handlers : h[x] = Resting BY <1>2
<1>5. RegistryTypeOK
  <2>1. uuids \in [Ids -> Names \cup {NoName}] BY <1>1, <1>2, RowsOfMaps
  <2>2. reload \in [pc : {"none", "asked", "read"}, rows : Table, alias : AliasState]
    BY <1>2, BoundsAssumption DEF NoReload, Table, AliasState, AliasRow
  <2>3. h \in [Handlers -> HandlerState] BY <1>2, RestingIsState
  <2> QED BY <2>1, <2>2, <2>3, <1>1, <1>2, <1>4, RestingIsState DEF RegistryTypeOK, AliasState
<1>6. Alone BY <1>4, RestingIsState DEF Alone, Busy
<1>7. RustTelling
  BY <1>2, <1>4, RestingIsState DEF RustTelling, ReloadAwaited, TogglesSeen, ToldOrTold, Refreshing, NoReload
<1>8. CopyLoaded BY <1>2, <1>3 DEF CopyLoaded, NoReload, Enabled
<1>9. EntryKept BY <1>4, RestingIsState DEF EntryKept
<1> QED BY <1>5, <1>6, <1>7, <1>8, <1>9 DEF RegistryInv, CopyTold

LEMMA RegistrySteps == RegistryInv /\ Next => RegistryInv'
<1> SUFFICES ASSUME RegistryInv, Next PROVE RegistryInv' OBVIOUS
<1>1. CASE Ensures \/ ReloadReads \/ ReloadEnds \/ ReloadFails
  BY <1>1, EnsuresKeeps, ReloadReadsKeeps, ReloadEndsKeeps, ReloadFailsKeeps
<1>2. ASSUME NEW x \in Handlers, Places(x) \/ Writes(x) \/ WriteFails(x) \/ WritesAlias(x) \/ DropsRule(x)
      PROVE  RegistryInv'
  BY <1>2, PlacesKeeps, WritesKeeps, WriteFailsKeeps, WritesAliasKeeps, DropsRuleKeeps
<1>3. ASSUME NEW x \in Handlers, ProviderRoutes(x) PROVE RegistryInv'
  <2>1. PICK n \in Names :
           \/ StartsCreate(x, n)
           \/ StartsUpdate(x, "edit", n, n, NoRule)
           \/ \E next \in Names : StartsUpdate(x, "rename", n, next, NoRule)
           \/ \E r \in Rules : StartsUpdate(x, "bind", n, n, r)
           \/ StartsWrite(x, "delete", n, FALSE)
           \/ \E on \in BOOLEAN : StartsWrite(x, "toggle", n, on)
    BY <1>3 DEF ProviderRoutes
  <2> QED BY <2>1, CreateBegins, UpdateBegins, WriteBegins
<1>4. ASSUME NEW x \in Handlers, AliasRoutes(x) PROVE RegistryInv'
  BY <1>4, AliasBegins DEF AliasRoutes, AliasOps
<1>5. ASSUME NEW x \in Handlers, ConcurrencyRuleRoutes(x) PROVE RegistryInv'
  BY <1>5, DropBegins DEF ConcurrencyRuleRoutes
<1>6. ASSUME NEW x \in Handlers, SyncsModels(x) PROVE RegistryInv'
  BY <1>6, WriteBegins DEF SyncsModels
<1> QED
  BY <1>1, <1>2, <1>3, <1>4, <1>5, <1>6 DEF Next, OpenApiProviderRoutes, OpenApiAliasRoutes

LEMMA RegistryStutters == RegistryInv /\ UNCHANGED vars => RegistryInv'
<1> SUFFICES ASSUME RegistryInv, UNCHANGED vars PROVE RegistryInv' OBVIOUS
<1> USE DEF vars
<1>1. RegistryTypeOK' BY DEF RegistryInv, RegistryTypeOK
<1>2. Alone' BY DEF RegistryInv, Alone, Busy
<1>3. CopyTold'
  BY DEF RegistryInv, CopyTold, Unexcused, CopyLoaded, PlacedIn, EntryKept, Keeps
<1>4. RustTelling'
  BY DEF RegistryInv, RustTelling, ReloadAwaited, TogglesSeen, MoverWaits, ToldOrTold, Refreshing
<1> QED BY <1>1, <1>2, <1>3, <1>4 DEF RegistryInv

LEMMA RegistryTells == RegistryInv => CopyIsStored /\ EditsKeepTheRest /\ RustToldOfChanges
<1> SUFFICES ASSUME RegistryInv PROVE CopyIsStored /\ EditsKeepTheRest /\ RustToldOfChanges OBVIOUS
<1>1. CopyIsStored
  BY DEF RegistryInv, CopyTold, Unexcused, CopyLoaded, CopyIsStored, Quiet, Busy, PlacedIn
<1>2. EditsKeepTheRest
  BY DEF RegistryInv, CopyTold, Unexcused, EntryKept, Keeps, EditsKeepTheRest
<1>3. RustToldOfChanges
  BY DEF RegistryInv, RustTelling, ToldOrTold, RustToldOfChanges, Refreshing, Busy
<1> QED BY <1>1, <1>2, <1>3

-----------------------------------------------------------------------------
(***************************************************************************)
(* The catalog                                                             *)
(***************************************************************************)
CatalogSave == [map : [CatalogModels -> Nat], at : Nat, left : SUBSET CatalogModels]
CatalogTypeOK ==
  /\ past \in Seq([CatalogModels -> Nat]) /\ tick >= 1
  /\ table \in CatalogRows /\ booted \in Nat
  /\ contexts \in CatalogCopy \cup {NotLoaded} /\ prices \in CatalogCopy \cup {NotLoaded}
  /\ waiting \in SUBSET {"both", "contexts", "prices"} /\ retryAt \in Nat
  /\ reading \in CatalogRows \cup {NotLoaded}
  /\ saves \in SUBSET CatalogSave
  /\ looked \in Nat /\ partial \in BOOLEAN

\* An edition is never of a time to come, and no earlier than those published before it.
PastGrows ==
  \A t \in 1..tick, m \in CatalogModels :
    /\ past[t][m] <= t
    /\ \A u \in t..tick : past[u][m] # 0 => past[t][m] <= past[u][m]

\* What a copy tells of a model that was always listed is of its time or later.
Dated(copy) ==
  \A m \in CatalogModels :
    copy.map[m] # 0 /\ AlwaysListed(m) =>
      \E t \in 1..tick : copy.at <= t /\ past[t][m] = copy.map[m]
CopiesDated == ~partial => \A copy \in Caches : Dated(copy)

\* A row is what was published at its time; the saves under way are of this tick.
RowsTrue ==
  \A m \in CatalogModels :
    /\ table[m].at <= tick
    /\ table[m].edition = IF table[m].at = 0 THEN 0 ELSE past[table[m].at][m]
SavesTold ==
  \A s \in saves :
    /\ s.at = tick /\ s.map = Published
    /\ \A m \in CatalogModels :
         /\ m \in s.left => Published[m] # 0
         /\ Published[m] # 0 /\ m \notin s.left => table[m].at = tick

\* Unless a save was cut short, the rows of a model that was always listed are the newest.
StillSaved(m) == \E s \in saves : m \in s.left
NewestRows ==
  ~partial => \A m, n \in CatalogModels :
    AlwaysListed(m) => table[n].at <= table[m].at \/ StillSaved(m)

\* The rows that were read and have not arrived.
RowsRead ==
  reading # NotLoaded =>
    /\ \A m \in CatalogModels : reading[m].at <= tick /\ reading[m].edition <= table[m].edition
    /\ ~partial /\ OfRows(reading) # NotLoaded => Dated(OfRows(reading))

\* What the copies tell is in the table, or will be saved.
SavedOrSaving ==
  ~partial => \A copy \in Caches, m \in CatalogModels :
    copy.map[m] <= table[m].edition \/ (StillSaved(m) /\ copy.map[m] <= Published[m])

\* Who looked at prices in this tick left them fresh, asked for, or refused.
PricesLooked ==
  /\ looked <= tick
  /\ looked = tick /\ reading = NotLoaded =>
       \/ FreshCopy(prices)
       \/ {"both", "prices"} \cap waiting # {}
       \/ FetchRefused
NothingRuns ==
  booted = 0 => saves = {} /\ waiting = {} /\ reading = NotLoaded /\ looked = 0

CatalogInv ==
  /\ CatalogTypeOK /\ PastGrows /\ CopiesDated /\ RowsTrue /\ SavesTold /\ NewestRows
  /\ RowsRead /\ SavedOrSaving /\ PricesLooked /\ NothingRuns


-----------------------------------------------------------------------------
LEMMA CatalogParts ==
  ASSUME CatalogInv
  PROVE  /\ CatalogTypeOK /\ PastGrows /\ CopiesDated /\ RowsTrue /\ SavesTold /\ NewestRows
         /\ RowsRead /\ SavedOrSaving /\ PricesLooked /\ NothingRuns
         /\ tick \in Nat /\ tick >= 1 /\ tick \in 1..tick
         /\ \A t \in 1..tick, m \in CatalogModels : past[t][m] \in Nat
         /\ Published \in [CatalogModels -> Nat]
         /\ CatalogTTL \in Nat /\ CatalogTTL >= 1 /\ FetchCooldown \in Nat /\ FetchCooldown >= 1
<1>1. /\ CatalogTypeOK /\ PastGrows /\ CopiesDated /\ RowsTrue /\ SavesTold /\ NewestRows
      /\ RowsRead /\ SavedOrSaving /\ PricesLooked /\ NothingRuns
  BY DEF CatalogInv
<1>2. past \in Seq([CatalogModels -> Nat]) /\ Len(past) \in Nat /\ Len(past) >= 1 /\ tick = Len(past)
  BY <1>1 DEF CatalogTypeOK, tick
<1>3. \A t \in 1..tick : past[t] \in [CatalogModels -> Nat] BY <1>2
<1>4. tick \in 1..tick BY <1>2
<1>5. Published \in [CatalogModels -> Nat] BY <1>3, <1>4 DEF Published
<1>6. CatalogTTL \in Nat \ {0} /\ FetchCooldown \in Nat \ {0} BY CatalogAssumption
<1> QED BY <1>1, <1>2, <1>3, <1>4, <1>5, <1>6

LEMMA NotLoadedIsNone ==
  /\ \A c \in CatalogCopy : c # NotLoaded
  /\ \A r \in CatalogRows : r # NotLoaded
  /\ NoRows \in CatalogRows /\ Dropped \in CatalogModels
BY CatalogAssumption DEF NoRows, CatalogRows

\* Of the rows of a table there is a newest.
LEMMA NewestRow ==
  ASSUME NEW stocked \in CatalogRows, NEW last \in Nat, \A m \in CatalogModels : stocked[m].at <= last
  PROVE  \E n \in CatalogModels : /\ \A m \in CatalogModels : stocked[m].at <= stocked[n].at
                                  /\ Max({stocked[m].at : m \in CatalogModels}) = stocked[n].at
<1> DEFINE ages == {last - stocked[m].at : m \in CatalogModels}
<1>1. \A m \in CatalogModels : stocked[m].at \in Nat /\ last - stocked[m].at \in Nat
  BY DEF CatalogRows
<1>2. ages \subseteq Nat /\ ages # {} BY <1>1, NotLoadedIsNone
<1>3. \E a \in ages : \A b \in ages : ~(<<b, a>> \in OpToRel(<, Nat))
  <2> HIDE DEF ages
  <2> QED BY <1>2, NatLessThanWellFounded, WFMin
<1>4. PICK a \in ages : \A b \in ages : ~(<<b, a>> \in OpToRel(<, Nat)) BY <1>3
<1>5. PICK n \in CatalogModels : a = last - stocked[n].at OBVIOUS
<1>6. \A m \in CatalogModels : stocked[m].at <= stocked[n].at
  <2> SUFFICES ASSUME NEW m \in CatalogModels PROVE stocked[m].at <= stocked[n].at
    OBVIOUS
  <2>1. ~(<<last - stocked[m].at, a>> \in OpToRel(<, Nat)) BY <1>4
  <2>2. ~(last - stocked[m].at < a) BY <2>1, <1>1, <1>5 DEF OpToRel
  <2> QED BY <2>2, <1>1, <1>5
<1>7. Max({stocked[m].at : m \in CatalogModels}) = stocked[n].at
  <2> DEFINE S == {stocked[m].at : m \in CatalogModels}
  <2>1. stocked[n].at \in S /\ \A y \in S : stocked[n].at >= y BY <1>1, <1>6
  <2>2. \A x \in S : x \in Nat BY <1>1
  <2>3. PICK top : top = Max(S) OBVIOUS
  <2>4. top = CHOOSE x \in S : \A y \in S : x >= y BY <2>3 DEF Max
  <2> HIDE DEF S
  <2>5. top \in S /\ \A y \in S : top >= y BY <2>1, <2>4
  <2>6. top >= stocked[n].at /\ stocked[n].at >= top BY <2>1, <2>5
  <2>7. top = stocked[n].at BY <2>1, <2>2, <2>5, <2>6
  <2> QED BY <2>3, <2>7 DEF S
<1> QED BY <1>6, <1>7

LEMMA OfRowsIs ==
  ASSUME NEW stocked \in CatalogRows, NEW last \in Nat, \A m \in CatalogModels : stocked[m].at <= last,
         OfRows(stocked) # NotLoaded
  PROVE  /\ OfRows(stocked) \in CatalogCopy
         /\ \A m \in CatalogModels : OfRows(stocked).map[m] = stocked[m].edition
         /\ \E n \in CatalogModels : /\ OfRows(stocked).at = stocked[n].at
                                     /\ \A m \in CatalogModels : stocked[m].at <= stocked[n].at
<1>1. PICK n \in CatalogModels : /\ \A m \in CatalogModels : stocked[m].at <= stocked[n].at
                                 /\ Max({stocked[m].at : m \in CatalogModels}) = stocked[n].at
  BY NewestRow
<1>2. PICK map : map = [m \in CatalogModels |-> stocked[m].edition] OBVIOUS
<1>3. OfRows(stocked) = [map |-> map, at |-> stocked[n].at] BY <1>1, <1>2 DEF OfRows
<1>4. map \in [CatalogModels -> Nat] /\ stocked[n].at \in Int
      /\ \A m \in CatalogModels : map[m] = stocked[m].edition
  BY <1>2 DEF CatalogRows
<1> QED BY <1>1, <1>3, <1>4 DEF CatalogCopy

LEMMA OfRowsType ==
  ASSUME NEW stocked \in CatalogRows, NEW last \in Nat, \A m \in CatalogModels : stocked[m].at <= last
  PROVE  OfRows(stocked) \in CatalogCopy \cup {NotLoaded}
BY OfRowsIs

\* The rows of a table that is whole are as new as they are dated.
LEMMA TableDated ==
  ASSUME CatalogInv, saves = {}, OfRows(table) # NotLoaded, ~partial
  PROVE  Dated(OfRows(table))
<1>1. PICK c : c = OfRows(table) OBVIOUS
<1>2. table \in CatalogRows /\ tick \in Nat /\ RowsTrue /\ NewestRows BY CatalogParts DEF CatalogTypeOK
<1>3. \A m \in CatalogModels : table[m].at \in Nat /\ table[m].at <= tick
  BY <1>2 DEF CatalogRows, RowsTrue
<1>4. PICK n \in CatalogModels : c.at = table[n].at BY <1>1, <1>2, <1>3, OfRowsIs
<1>5. \A m \in CatalogModels : c.map[m] = table[m].edition BY <1>1, <1>2, <1>3, OfRowsIs
<1>6. SUFFICES ASSUME NEW m \in CatalogModels, c.map[m] # 0, AlwaysListed(m)
               PROVE  \E t \in 1..tick : c.at <= t /\ past[t][m] = c.map[m]
  BY <1>1 DEF Dated
<1>7. table[n].at <= table[m].at BY <1>2, <1>6 DEF NewestRows, StillSaved
<1>8. table[m].at # 0 /\ c.map[m] = past[table[m].at][m] BY <1>2, <1>5, <1>6 DEF RowsTrue
<1>9. table[m].at \in 1..tick BY <1>2, <1>3, <1>8
<1> QED BY <1>4, <1>7, <1>8, <1>9

\* The table as it is told: nothing is written, published or saved.
LEMMA StoreStill ==
  ASSUME CatalogInv, UNCHANGED <<past, table, saves>>, partial => partial'
  PROVE  /\ PastGrows' /\ RowsTrue' /\ SavesTold' /\ NewestRows'
         /\ tick' = tick /\ Published' = Published
         /\ \A m \in CatalogModels : AlwaysListed(m)' = AlwaysListed(m) /\ StillSaved(m)' = StillSaved(m)
<1>1. tick' = tick /\ Published' = Published BY DEF tick, Published
<1>2. \A m \in CatalogModels : AlwaysListed(m)' = AlwaysListed(m) /\ StillSaved(m)' = StillSaved(m)
  BY <1>1 DEF AlwaysListed, StillSaved
<1>3. PastGrows' BY <1>1, CatalogParts DEF PastGrows
<1>4. RowsTrue' BY <1>1, CatalogParts DEF RowsTrue
<1>5. SavesTold' BY <1>1, CatalogParts DEF SavesTold
<1>6. NewestRows' BY <1>2, CatalogParts DEF NewestRows
<1> QED BY <1>1, <1>2, <1>3, <1>4, <1>5, <1>6

LEMMA DatedStill ==
  ASSUME CatalogInv, UNCHANGED <<past, table, saves>>, partial => partial', NEW c
  PROVE  Dated(c)' = Dated(c)
BY StoreStill DEF Dated

\* A copy is as told if it was one, or if it is one of the table's rows as read.
Kept(c) ==
  ~partial => /\ Dated(c)
              /\ \A m \in CatalogModels :
                   c.map[m] <= table[m].edition \/ (StillSaved(m) /\ c.map[m] <= Published[m])

LEMMA CopiesAreKept == CopiesDated /\ SavedOrSaving <=> \A c \in Caches : Kept(c)
BY DEF CopiesDated, SavedOrSaving, Kept

LEMMA KeptStill ==
  ASSUME CatalogInv, UNCHANGED <<past, table, saves>>, partial => partial', NEW c, Kept(c)
  PROVE  Kept(c)'
<1>1. Dated(c)' = Dated(c) BY DatedStill
<1>2. \A m \in CatalogModels : StillSaved(m)' = StillSaved(m) BY StoreStill
<1>3. Published' = Published BY StoreStill
<1> QED BY <1>1, <1>2, <1>3 DEF Kept

LEMMA TableKept ==
  ASSUME CatalogInv, saves = {}, OfRows(table) # NotLoaded
  PROVE  Kept(OfRows(table)) /\ OfRows(table) \in CatalogCopy
<1>1. PICK c : c = OfRows(table) OBVIOUS
<1>2. table \in CatalogRows /\ tick \in Nat /\ RowsTrue BY CatalogParts DEF CatalogTypeOK
<1>3. \A m \in CatalogModels : table[m].at <= tick /\ table[m].edition \in Nat
  BY <1>2 DEF CatalogRows, RowsTrue
<1>4. c \in CatalogCopy /\ \A m \in CatalogModels : c.map[m] = table[m].edition
  BY <1>1, <1>2, <1>3, OfRowsIs
<1>5. \A m \in CatalogModels : c.map[m] <= table[m].edition BY <1>3, <1>4
<1> QED BY <1>1, <1>4, <1>5, TableDated DEF Kept

LEMMA ReadKept ==
  ASSUME CatalogInv, reading # NotLoaded, OfRows(reading) # NotLoaded
  PROVE  Kept(OfRows(reading)) /\ OfRows(reading) \in CatalogCopy
<1>1. PICK c : c = OfRows(reading) OBVIOUS
<1>2. reading \in CatalogRows /\ tick \in Nat /\ RowsRead BY CatalogParts DEF CatalogTypeOK
<1>3. \A m \in CatalogModels : reading[m].at <= tick /\ reading[m].edition <= table[m].edition
  BY <1>2 DEF RowsRead
<1>4. c \in CatalogCopy /\ \A m \in CatalogModels : c.map[m] = reading[m].edition
  BY <1>1, <1>2, <1>3, OfRowsIs
<1>5. ~partial => Dated(c) BY <1>1, <1>2 DEF RowsRead
<1>6. \A m \in CatalogModels : c.map[m] <= table[m].edition BY <1>3, <1>4
<1> QED BY <1>1, <1>4, <1>5, <1>6 DEF Kept


-----------------------------------------------------------------------------
(* Steps that neither write nor publish                                    *)

LEMMA RowsReadStill ==
  ASSUME CatalogInv, UNCHANGED <<past, table, saves>>, partial => partial',
         reading' \in {reading, NotLoaded}
  PROVE  RowsRead' /\ reading' \in CatalogRows \cup {NotLoaded}
<1>1. RowsRead /\ reading \in CatalogRows \cup {NotLoaded} BY CatalogParts DEF CatalogTypeOK
<1>2. reading' \in CatalogRows \cup {NotLoaded} BY <1>1
<1>3. SUFFICES ASSUME reading' # NotLoaded PROVE RowsRead'
  BY <1>2 DEF RowsRead
<1>4. reading' = reading /\ tick' = tick /\ table' = table BY <1>3, StoreStill
<1>5. PICK c : c = OfRows(reading) OBVIOUS
<1>6. OfRows(reading)' = c BY <1>4, <1>5 DEF OfRows, NoRows
<1>7. ~partial /\ c # NotLoaded => Dated(c) BY <1>1, <1>3, <1>4, <1>5 DEF RowsRead
<1>8. Dated(c)' = Dated(c) BY DatedStill
<1>9. ~partial' /\ OfRows(reading)' # NotLoaded => Dated(OfRows(reading))'
  BY <1>6, <1>7, <1>8 DEF Dated, AlwaysListed
<1>10. \A m \in CatalogModels : reading'[m].at <= tick' /\ reading'[m].edition <= table'[m].edition
  BY <1>1, <1>3, <1>4 DEF RowsRead
<1> QED BY <1>9, <1>10 DEF RowsRead

LEMMA CacheStep ==
  ASSUME CatalogInv, UNCHANGED <<past, table, saves>>, partial => partial', partial' \in BOOLEAN,
         booted' \in Nat, contexts' \in CatalogCopy \cup {NotLoaded},
         prices' \in CatalogCopy \cup {NotLoaded},
         \A c \in {contexts', prices'} : c = NotLoaded \/ Kept(c),
         waiting' \in SUBSET {"both", "contexts", "prices"}, retryAt' \in Nat,
         reading' \in CatalogRows \cup {NotLoaded}, looked' \in Nat,
         RowsRead', PricesLooked', NothingRuns'
  PROVE  CatalogInv'
<1>1. /\ PastGrows' /\ RowsTrue' /\ SavesTold' /\ NewestRows' BY StoreStill
<1>2. CatalogTypeOK'
  <2>1. CatalogTypeOK /\ tick' = tick BY StoreStill, CatalogParts
  <2> QED BY <2>1 DEF CatalogTypeOK
<1>3. \A c \in Caches' : Kept(c)'
  <2> SUFFICES ASSUME NEW c \in Caches' PROVE Kept(c)'
    OBVIOUS
  <2>1. c \in {contexts', prices'} /\ c # NotLoaded BY DEF Caches
  <2> QED BY <2>1, KeptStill
<1>4. CopiesDated' /\ SavedOrSaving'
  BY <1>3 DEF CopiesDated, SavedOrSaving, Kept
<1> QED BY <1>1, <1>2, <1>4 DEF CatalogInv

LEMMA CachesAsTold ==
  ASSUME CatalogInv
  PROVE  \A c \in {contexts, prices} : c \in CatalogCopy \cup {NotLoaded} /\ (c = NotLoaded \/ Kept(c))
<1>1. CatalogTypeOK /\ \A c \in Caches : Kept(c) BY CatalogParts, CopiesAreKept
<1> QED BY <1>1 DEF CatalogTypeOK, Caches

\* A copy of which nothing is known is as told.
LEMMA NothingKept ==
  ASSUME CatalogInv, NEW at \in Int
  PROVE  LET c == [map |-> NothingListed, at |-> at] IN c \in CatalogCopy /\ Kept(c)
<1>1. PICK c : c = [map |-> NothingListed, at |-> at] OBVIOUS
<1>2. c.map = NothingListed /\ \A m \in CatalogModels : c.map[m] = 0 BY <1>1 DEF NothingListed
<1>3. c \in CatalogCopy BY <1>1 DEF CatalogCopy, NothingListed
<1>4. \A m \in CatalogModels : table[m].edition \in Nat BY CatalogParts DEF CatalogTypeOK, CatalogRows
<1>5. Kept(c) BY <1>2, <1>4 DEF Kept, Dated
<1> QED BY <1>1, <1>3, <1>5

LEMMA BootsKeeps ==
  ASSUME CatalogInv, Boots
  PROVE  CatalogInv'
<1>1. PICK warm \in {OfRows(table), NotLoaded} :
        /\ contexts' = warm /\ prices' = warm
        /\ waiting' = IF FreshCopy(warm) THEN {} ELSE {"both"}
  BY DEF Boots
<1>2. /\ booted = 0 /\ booted' = tick
      /\ UNCHANGED <<past, table, retryAt, reading, saves, looked, partial>>
  BY DEF Boots
<1>3. /\ NothingRuns /\ tick \in Nat /\ tick >= 1 /\ CatalogTypeOK BY CatalogParts
<1>4. saves = {} /\ reading = NotLoaded /\ looked = 0 BY <1>2, <1>3 DEF NothingRuns
<1>5. warm \in CatalogCopy \cup {NotLoaded} /\ (warm = NotLoaded \/ Kept(warm))
  <2>1. CASE warm = NotLoaded BY <2>1
  <2>2. CASE warm # NotLoaded BY <2>2, <1>1, <1>4, TableKept
  <2> QED BY <2>1, <2>2
<1>6. tick' = tick BY <1>2, StoreStill
<1>7. RowsRead' BY <1>2, <1>4 DEF RowsRead
<1>8. PricesLooked' BY <1>2, <1>3, <1>4, <1>6 DEF PricesLooked
<1>9. NothingRuns' BY <1>2, <1>3 DEF NothingRuns
<1>10. waiting' \in SUBSET {"both", "contexts", "prices"} BY <1>1
<1>11. /\ booted' \in Nat /\ looked' \in Nat /\ retryAt' \in Nat /\ partial' \in BOOLEAN
       /\ reading' \in CatalogRows \cup {NotLoaded}
  BY <1>2, <1>3 DEF CatalogTypeOK
<1> QED BY <1>1, <1>2, <1>5, <1>7, <1>8, <1>9, <1>10, <1>11, CacheStep

LEMMA JoinsIs ==
  ASSUME CatalogInv, NEW who \in {"both", "contexts", "prices"}, Joins(who)
  PROVE  /\ waiting' \in SUBSET {"both", "contexts", "prices"} /\ waiting \subseteq waiting'
         /\ FetchRefused => waiting' = waiting
         /\ ~FetchRefused => who \in waiting'
BY CatalogParts DEF CatalogTypeOK, Joins

\* A look at prices, or what it left, outlives those who join.
LEMMA LookedStill ==
  ASSUME CatalogInv, UNCHANGED <<past, prices, retryAt, looked, reading>>,
         waiting \subseteq waiting', FetchRefused => waiting' = waiting
  PROVE  PricesLooked'
<1>1. tick' = tick BY DEF tick
<1>2. FreshCopy(prices)' = FreshCopy(prices) BY <1>1 DEF FreshCopy
<1>3. FetchRefused => FetchRefused' BY <1>1 DEF FetchRefused
<1>4. PricesLooked BY CatalogParts
<1> QED BY <1>1, <1>2, <1>3, <1>4 DEF PricesLooked

LEMMA TimerKeeps ==
  ASSUME CatalogInv, TimerRefreshes
  PROVE  CatalogInv'
<1>1. /\ booted # 0 /\ Joins("both")
      /\ UNCHANGED <<past, table, booted, contexts, prices, retryAt, reading, saves, looked, partial>>
  BY DEF TimerRefreshes
<1>2. /\ waiting' \in SUBSET {"both", "contexts", "prices"} /\ waiting \subseteq waiting'
      /\ FetchRefused => waiting' = waiting
  BY <1>1, JoinsIs
<1>3. CatalogTypeOK BY CatalogParts
<1>4. PricesLooked' BY <1>1, <1>2, LookedStill
<1>5. NothingRuns' BY <1>1 DEF NothingRuns
<1>6. RowsRead' BY <1>1, RowsReadStill
<1>7. /\ booted' \in Nat /\ looked' \in Nat /\ retryAt' \in Nat /\ partial' \in BOOLEAN
      /\ reading' \in CatalogRows \cup {NotLoaded}
  BY <1>1, <1>3 DEF CatalogTypeOK
<1>8. \A c \in {contexts', prices'} : c \in CatalogCopy \cup {NotLoaded} /\ (c = NotLoaded \/ Kept(c))
  BY <1>1, CachesAsTold
<1> QED BY <1>1, <1>2, <1>4, <1>5, <1>6, <1>7, <1>8, CacheStep

LEMMA ContextsKeeps ==
  ASSUME CatalogInv, LooksAtContexts
  PROVE  CatalogInv'
<1>1. /\ booted # 0 /\ Joins("contexts")
      /\ contexts' \in {contexts, [map |-> NothingListed, at |-> -CatalogTTL]}
      /\ UNCHANGED <<past, table, booted, prices, retryAt, reading, saves, looked, partial>>
  BY DEF LooksAtContexts
<1>2. /\ waiting' \in SUBSET {"both", "contexts", "prices"} /\ waiting \subseteq waiting'
      /\ FetchRefused => waiting' = waiting
  BY <1>1, JoinsIs
<1>3. CatalogTypeOK /\ -CatalogTTL \in Int BY CatalogParts
<1>4. PricesLooked' BY <1>1, <1>2, LookedStill
<1>5. NothingRuns' BY <1>1 DEF NothingRuns
<1>6. RowsRead' BY <1>1, RowsReadStill
<1>7. /\ booted' \in Nat /\ looked' \in Nat /\ retryAt' \in Nat /\ partial' \in BOOLEAN
      /\ reading' \in CatalogRows \cup {NotLoaded}
  BY <1>1, <1>3 DEF CatalogTypeOK
<1>8. \A c \in {contexts', prices'} : c \in CatalogCopy \cup {NotLoaded} /\ (c = NotLoaded \/ Kept(c))
  BY <1>1, <1>3, CachesAsTold, NothingKept
<1> QED BY <1>1, <1>2, <1>4, <1>5, <1>6, <1>7, <1>8, CacheStep

LEMMA StopsKeeps ==
  ASSUME CatalogInv, Stops
  PROVE  CatalogInv'
<1>1. /\ booted' = 0 /\ contexts' = NotLoaded /\ prices' = NotLoaded
      /\ waiting' = {} /\ retryAt' = 0 /\ reading' = NotLoaded /\ saves' = {} /\ looked' = 0
      /\ partial' = (partial \/ saves # {}) /\ UNCHANGED <<past, table>>
  BY DEF Stops
<1>2. /\ CatalogTypeOK /\ PastGrows /\ RowsTrue /\ NewestRows /\ tick \in Nat /\ tick >= 1
  BY CatalogParts
<1>3. tick' = tick /\ Published' = Published BY <1>1 DEF tick, Published
<1>4. \A m \in CatalogModels : AlwaysListed(m)' = AlwaysListed(m) BY <1>1, <1>3 DEF AlwaysListed
<1>5. PastGrows' BY <1>1, <1>2, <1>3 DEF PastGrows
<1>6. RowsTrue' BY <1>1, <1>2, <1>3 DEF RowsTrue
<1>7. SavesTold' BY <1>1 DEF SavesTold
<1>8. NewestRows'
  <2>1. ~partial' => ~partial /\ saves = {} BY <1>1
  <2> QED BY <1>1, <1>2, <1>4, <2>1 DEF NewestRows, StillSaved
<1>9. CopiesDated' /\ SavedOrSaving' BY <1>1 DEF CopiesDated, SavedOrSaving, Caches
<1>10. RowsRead' /\ NothingRuns' BY <1>1 DEF RowsRead, NothingRuns
<1>11. PricesLooked' BY <1>1, <1>2, <1>3 DEF PricesLooked
<1>12. CatalogTypeOK' BY <1>1, <1>2, <1>3 DEF CatalogTypeOK
<1> QED BY <1>5, <1>6, <1>7, <1>8, <1>9, <1>10, <1>11, <1>12 DEF CatalogInv


LEMMA PricesKeeps ==
  ASSUME CatalogInv, LooksAtPrices
  PROVE  CatalogInv'
<1>1. /\ booted # 0 /\ looked' = tick
      /\ UNCHANGED <<past, table, booted, contexts, prices, retryAt, saves>>
  BY DEF LooksAtPrices
<1>2. /\ CatalogTypeOK /\ PastGrows /\ RowsTrue /\ tick \in Nat /\ tick >= 1 /\ table \in CatalogRows
  BY CatalogParts DEF CatalogTypeOK
<1>3. NothingRuns' BY <1>1 DEF NothingRuns
<1>4. \A c \in {contexts', prices'} : c \in CatalogCopy \cup {NotLoaded} /\ (c = NotLoaded \/ Kept(c))
  BY <1>1, CachesAsTold
<1>5. booted' \in Nat /\ looked' \in Nat /\ retryAt' \in Nat BY <1>1, <1>2 DEF CatalogTypeOK
<1>6. tick' = tick BY <1>1 DEF tick
<1>7. CASE prices = NotLoaded
  <2>1. /\ reading' = table /\ partial' = (partial \/ saves # {}) /\ waiting' = waiting
    BY <1>7 DEF LooksAtPrices
  <2>2. reading' # NotLoaded /\ reading' \in CatalogRows BY <2>1, <1>2, NotLoadedIsNone
  <2>3. PricesLooked' BY <2>2, <1>1, <1>2, <1>6 DEF PricesLooked
  <2>4. RowsRead'
    <3>1. \A m \in CatalogModels : table[m].at <= tick /\ table[m].edition \in Nat
      BY <1>2 DEF RowsTrue, CatalogRows
    <3>2. \A m \in CatalogModels : reading'[m].at <= tick' /\ reading'[m].edition <= table'[m].edition
      BY <3>1, <2>1, <1>1, <1>6
    <3>3. PICK c : c = OfRows(table) OBVIOUS
    <3>4. OfRows(reading)' = c BY <3>3, <2>1 DEF OfRows, NoRows
    <3>5. SUFFICES ASSUME ~partial', c # NotLoaded PROVE Dated(c)'
      BY <3>2, <3>4 DEF RowsRead, Dated, AlwaysListed
    <3>6. ~partial /\ saves = {} BY <3>5, <2>1
    <3>7. Dated(c) BY <3>3, <3>5, <3>6, TableDated
    <3>8. Dated(c)' = Dated(c) BY <1>1, <2>1, DatedStill
    <3> QED BY <3>7, <3>8
  <2>5. partial' \in BOOLEAN /\ (partial => partial') BY <2>1, <1>2 DEF CatalogTypeOK
  <2>6. waiting' \in SUBSET {"both", "contexts", "prices"} BY <2>1, <1>2 DEF CatalogTypeOK
  <2> QED BY <1>1, <1>3, <1>4, <1>5, <2>2, <2>3, <2>4, <2>5, <2>6, CacheStep
<1>8. CASE prices # NotLoaded
  <2>1. /\ reading' = reading /\ partial' = partial
        /\ (FreshCopy(prices) /\ waiting' = waiting) \/ Joins("prices")
    BY <1>8 DEF LooksAtPrices
  <2>2. /\ waiting' \in SUBSET {"both", "contexts", "prices"}
        /\ FreshCopy(prices) \/ "prices" \in waiting' \/ (FetchRefused /\ waiting' = waiting)
    BY <2>1, <1>2, JoinsIs DEF CatalogTypeOK
  <2>3. FreshCopy(prices) => FreshCopy(prices)' BY <1>1, <1>6 DEF FreshCopy
  <2>4. FetchRefused /\ waiting' = waiting => FetchRefused' BY <1>1, <1>6 DEF FetchRefused
  <2>5. PricesLooked' BY <2>2, <2>3, <2>4, <1>1, <1>2, <1>6 DEF PricesLooked
  <2>6. RowsRead' /\ reading' \in CatalogRows \cup {NotLoaded} BY <1>1, <2>1, RowsReadStill
  <2>7. partial' \in BOOLEAN /\ (partial => partial') BY <2>1, <1>2 DEF CatalogTypeOK
  <2> QED BY <1>1, <1>3, <1>4, <1>5, <2>2, <2>5, <2>6, <2>7, CacheStep
<1> QED BY <1>7, <1>8

LEMMA RowsArriveKeeps ==
  ASSUME CatalogInv, RowsArrive
  PROVE  CatalogInv'
<1>1. PICK got \in {OfRows(reading), NotLoaded} :
        LET now == IF got = NotLoaded THEN prices ELSE got IN
        /\ prices' = now
        /\ IF FreshCopy(now) THEN UNCHANGED waiting ELSE Joins("prices")
  BY DEF RowsArrive
<1>2. PICK now : now = IF got = NotLoaded THEN prices ELSE got OBVIOUS
<1>3. prices' = now /\ ((FreshCopy(now) /\ waiting' = waiting) \/ Joins("prices"))
  BY <1>1, <1>2
<1>4. /\ reading # NotLoaded /\ reading' = NotLoaded
      /\ UNCHANGED <<past, table, booted, contexts, retryAt, saves, looked, partial>>
  BY DEF RowsArrive
<1>5. /\ CatalogTypeOK /\ NothingRuns /\ PricesLooked /\ tick \in Nat BY CatalogParts
<1>6. NothingRuns' BY <1>4, <1>5 DEF NothingRuns
<1>7. now \in CatalogCopy \cup {NotLoaded} /\ (now = NotLoaded \/ Kept(now))
  <2>1. CASE got = NotLoaded BY <2>1, <1>2, CachesAsTold
  <2>2. CASE got # NotLoaded BY <2>2, <1>2, <1>4, ReadKept
  <2> QED BY <2>1, <2>2
<1>8. \A c \in {contexts', prices'} : c \in CatalogCopy \cup {NotLoaded} /\ (c = NotLoaded \/ Kept(c))
  BY <1>3, <1>4, <1>7, CachesAsTold
<1>9. tick' = tick BY <1>4 DEF tick
<1>10. /\ waiting' \in SUBSET {"both", "contexts", "prices"}
       /\ FreshCopy(now) \/ "prices" \in waiting' \/ (FetchRefused /\ waiting' = waiting)
  BY <1>3, <1>5, JoinsIs DEF CatalogTypeOK
<1>11. FreshCopy(now) => FreshCopy(prices)' BY <1>3, <1>9 DEF FreshCopy
<1>12. FetchRefused /\ waiting' = waiting => FetchRefused' BY <1>4, <1>9 DEF FetchRefused
<1>13. PricesLooked' BY <1>4, <1>5, <1>9, <1>10, <1>11, <1>12 DEF PricesLooked
<1>14. RowsRead' /\ reading' \in CatalogRows \cup {NotLoaded} BY <1>4, RowsReadStill
<1>15. /\ booted' \in Nat /\ looked' \in Nat /\ retryAt' \in Nat /\ partial' \in BOOLEAN
  BY <1>4, <1>5 DEF CatalogTypeOK
<1> QED BY <1>4, <1>6, <1>8, <1>10, <1>13, <1>14, <1>15, CacheStep

LEMMA FetchFailsKeeps ==
  ASSUME CatalogInv, FetchFails
  PROVE  CatalogInv'
<1>1. /\ waiting # {} /\ waiting' = {} /\ retryAt' = tick + FetchCooldown
      /\ contexts' \in {contexts, [map |-> NothingListed, at |-> -CatalogTTL]}
      /\ UNCHANGED <<past, table, booted, prices, reading, saves, looked, partial>>
  BY DEF FetchFails
<1>2. /\ CatalogTypeOK /\ NothingRuns /\ PricesLooked /\ tick \in Nat /\ -CatalogTTL \in Int
      /\ FetchCooldown \in Nat /\ FetchCooldown >= 1
  BY CatalogParts
<1>3. NothingRuns' BY <1>1, <1>2 DEF NothingRuns
<1>4. \A c \in {contexts', prices'} : c \in CatalogCopy \cup {NotLoaded} /\ (c = NotLoaded \/ Kept(c))
  BY <1>1, <1>2, CachesAsTold, NothingKept
<1>5. tick' = tick BY <1>1 DEF tick
<1>6. FetchRefused' BY <1>1, <1>2, <1>5 DEF FetchRefused
<1>7. PricesLooked' BY <1>1, <1>2, <1>5, <1>6 DEF PricesLooked
<1>8. RowsRead' /\ reading' \in CatalogRows \cup {NotLoaded} BY <1>1, RowsReadStill
<1>9. /\ booted' \in Nat /\ looked' \in Nat /\ retryAt' \in Nat /\ partial' \in BOOLEAN
      /\ waiting' \in SUBSET {"both", "contexts", "prices"}
  BY <1>1, <1>2 DEF CatalogTypeOK
<1> QED BY <1>1, <1>3, <1>4, <1>7, <1>8, <1>9, CacheStep

-----------------------------------------------------------------------------
(* What is fetched is saved, row by row                                    *)

LEMMA FetchSucceedsKeeps ==
  ASSUME CatalogInv, FetchSucceeds
  PROVE  CatalogInv'
<1>1. PICK got, listed : /\ got = [map |-> Published, at |-> tick]
                         /\ listed = {m \in CatalogModels : Published[m] # 0}
  OBVIOUS
<1>2. PICK new : new = [map |-> Published, at |-> tick, left |-> listed] OBVIOUS
<1>3. /\ waiting # {} /\ waiting' = {} /\ retryAt' = 0
      /\ contexts' \in {contexts, got}
      /\ prices' = IF {"both", "prices"} \intersect waiting # {} THEN got ELSE prices
      /\ saves' = saves \cup (IF listed = {} THEN {} ELSE {new})
      /\ UNCHANGED <<past, table, booted, reading, looked, partial>>
  BY <1>1, <1>2 DEF FetchSucceeds
<1>4. /\ CatalogTypeOK /\ NothingRuns /\ PricesLooked /\ PastGrows /\ RowsTrue /\ SavesTold /\ NewestRows
      /\ tick \in Nat /\ tick \in 1..tick /\ Published \in [CatalogModels -> Nat]
      /\ CatalogTTL \in Nat /\ CatalogTTL >= 1
  BY CatalogParts
<1>5. tick' = tick /\ Published' = Published BY <1>3 DEF tick, Published
<1>6. \A m \in CatalogModels : AlwaysListed(m)' = AlwaysListed(m) /\ (StillSaved(m) => StillSaved(m)')
  BY <1>3, <1>5 DEF AlwaysListed, StillSaved
<1>7. \A m \in CatalogModels : Published[m] # 0 => StillSaved(m)'
  <2> SUFFICES ASSUME NEW m \in CatalogModels, Published[m] # 0 PROVE StillSaved(m)'
    OBVIOUS
  <2>1. m \in listed BY <1>1
  <2>2. new \in saves' /\ new.left = listed BY <2>1, <1>2, <1>3
  <2> QED BY <2>1, <2>2 DEF StillSaved
<1>8. got \in CatalogCopy /\ got # NotLoaded /\ got.map = Published /\ got.at = tick
  BY <1>1, <1>4, NotLoadedIsNone DEF CatalogCopy
<1>9. PastGrows' /\ RowsTrue' BY <1>3, <1>4, <1>5 DEF PastGrows, RowsTrue
<1>10. NewestRows' BY <1>3, <1>4, <1>6 DEF NewestRows
<1>11. SavesTold'
  <2> SUFFICES ASSUME NEW s \in saves'
               PROVE  /\ s.at = tick /\ s.map = Published
                      /\ \A m \in CatalogModels :
                           /\ m \in s.left => Published[m] # 0
                           /\ Published[m] # 0 /\ m \notin s.left => table[m].at = tick
    BY <1>3, <1>5 DEF SavesTold
  <2>1. CASE s \in saves BY <2>1, <1>4 DEF SavesTold
  <2>2. CASE s = new BY <2>2, <1>1, <1>2
  <2> QED BY <2>1, <2>2, <1>3
<1>12. \A c \in Caches' : Kept(c)'
  <2> SUFFICES ASSUME NEW c \in Caches', ~partial
               PROVE  /\ Dated(c)'
                      /\ \A m \in CatalogModels :
                           c.map[m] <= table[m].edition \/ (StillSaved(m)' /\ c.map[m] <= Published[m])
    BY <1>3, <1>5 DEF Kept
  <2>1. CASE c = got
    <3>1. \A m \in CatalogModels : past[tick][m] = got.map[m] BY <1>8 DEF Published
    <3>2. Dated(c)' BY <2>1, <3>1, <1>3, <1>4, <1>5, <1>8 DEF Dated
    <3>3. \A m \in CatalogModels : Published[m] = 0 => got.map[m] <= table[m].edition
      BY <1>4, <1>8 DEF CatalogTypeOK, CatalogRows
    <3> QED BY <2>1, <3>2, <3>3, <1>4, <1>7, <1>8
  <2>2. CASE c \in {contexts, prices}
    <3>1. c # NotLoaded BY DEF Caches
    <3>2. Kept(c) BY <2>2, <3>1, CachesAsTold
    <3>3. Dated(c)' BY <3>2, <1>3, <1>5, <1>6 DEF Kept, Dated
    <3> QED BY <3>2, <3>3, <1>6 DEF Kept
  <2> QED BY <2>1, <2>2, <1>3 DEF Caches
<1>13. CopiesDated' /\ SavedOrSaving' BY <1>12 DEF CopiesDated, SavedOrSaving, Kept
<1>14. RowsRead'
  <2>1. OfRows(reading)' = OfRows(reading) BY <1>3 DEF OfRows, NoRows
  <2>2. PICK c : c = OfRows(reading) OBVIOUS
  <2>3. Dated(c) => Dated(c)' BY <1>3, <1>5, <1>6 DEF Dated
  <2>4. Dated(OfRows(reading)) => Dated(OfRows(reading))'
    BY <2>1, <2>2, <2>3 DEF Dated, AlwaysListed
  <2> QED BY <2>1, <2>4, <1>3, <1>5, CatalogParts DEF RowsRead
<1>15. NothingRuns' BY <1>3, <1>4 DEF NothingRuns
<1>16. FreshCopy(got)' BY <1>4, <1>5, <1>8 DEF FreshCopy
<1>17. PricesLooked'
  <2>1. CASE prices' = got
    <3>1. FreshCopy(prices)' BY <2>1, <1>16 DEF FreshCopy
    <3> QED BY <3>1, <1>3, <1>4, <1>5 DEF PricesLooked
  <2>2. CASE {"both", "prices"} \intersect waiting = {} /\ prices' = prices
    <3>1. FreshCopy(prices) => FreshCopy(prices)' BY <2>2, <1>5 DEF FreshCopy
    <3>2. ~FetchRefused BY <1>3 DEF FetchRefused
    <3> QED BY <2>2, <3>1, <3>2, <1>3, <1>4, <1>5 DEF PricesLooked
  <2> QED BY <2>1, <2>2, <1>3
<1>18. CatalogTypeOK'
  <2>1. new \in CatalogSave BY <1>1, <1>2, <1>4 DEF CatalogSave
  <2>2. saves' \in SUBSET CatalogSave BY <2>1, <1>3, <1>4 DEF CatalogTypeOK
  <2>3. prices' \in CatalogCopy \cup {NotLoaded} /\ contexts' \in CatalogCopy \cup {NotLoaded}
    BY <1>3, <1>4, <1>8 DEF CatalogTypeOK
  <2>4. waiting' \in SUBSET {"both", "contexts", "prices"} /\ retryAt' \in Nat BY <1>3
  <2> QED BY <2>2, <2>3, <2>4, <1>3, <1>4, <1>5 DEF CatalogTypeOK
<1> QED BY <1>9, <1>10, <1>11, <1>13, <1>14, <1>15, <1>17, <1>18 DEF CatalogInv


LEMMA SavesKeeps ==
  ASSUME CatalogInv, NEW s \in saves, Saves(s)
  PROVE  CatalogInv'
<1>1. PICK m \in s.left :
        /\ table' = [table EXCEPT ![m] = [edition |-> s.map[m], at |-> s.at]]
        /\ saves' = (saves \ {s}) \cup
             (IF s.left = {m} THEN {} ELSE {[s EXCEPT !.left = @ \ {m}]})
        /\ UNCHANGED <<past, booted, contexts, prices, waiting, retryAt, reading, looked, partial>>
  BY DEF Saves
<1>2. /\ CatalogTypeOK /\ NothingRuns /\ PricesLooked /\ PastGrows /\ RowsTrue /\ SavesTold /\ NewestRows
      /\ RowsRead /\ CopiesDated /\ SavedOrSaving
      /\ tick \in Nat /\ tick >= 1 /\ tick \in 1..tick /\ Published \in [CatalogModels -> Nat]
      /\ \A t \in 1..tick, x \in CatalogModels : past[t][x] \in Nat
  BY CatalogParts
<1>3. s \in CatalogSave /\ m \in CatalogModels /\ table \in CatalogRows
  BY <1>2 DEF CatalogTypeOK, CatalogSave
<1>4. s.at = tick /\ s.map = Published /\ Published[m] # 0 BY <1>2, <1>3 DEF SavesTold
<1>5. PICK less : less = [s EXCEPT !.left = @ \ {m}] OBVIOUS
<1>6. less \in CatalogSave /\ less.at = tick /\ less.map = Published /\ less.left = s.left \ {m}
  BY <1>3, <1>4, <1>5 DEF CatalogSave
<1>7. saves' = (saves \ {s}) \cup (IF s.left = {m} THEN {} ELSE {less}) BY <1>1, <1>5
<1>8. /\ table' \in CatalogRows /\ table'[m].edition = Published[m] /\ table'[m].at = tick
      /\ \A x \in CatalogModels : x # m => table'[x] = table[x]
  <2>1. PICK row : row = [edition |-> s.map[m], at |-> s.at] OBVIOUS
  <2>2. row.edition = Published[m] /\ row.at = tick /\ row \in [edition : Nat, at : Nat]
    BY <2>1, <1>2, <1>3, <1>4
  <2>3. table' = [table EXCEPT ![m] = row] BY <2>1, <1>1
  <2> QED BY <2>2, <2>3, <1>3 DEF CatalogRows
<1>9. tick' = tick /\ Published' = Published BY <1>1 DEF tick, Published
<1>10. \A x \in CatalogModels : AlwaysListed(x)' = AlwaysListed(x) BY <1>1, <1>9 DEF AlwaysListed
<1>11. \A x \in CatalogModels : StillSaved(x) => x = m \/ StillSaved(x)'
  <2> SUFFICES ASSUME NEW x \in CatalogModels, StillSaved(x), x # m PROVE StillSaved(x)'
    OBVIOUS
  <2>1. PICK u \in saves : x \in u.left BY DEF StillSaved
  <2>2. CASE u # s BY <2>1, <2>2, <1>7 DEF StillSaved
  <2>3. CASE u = s
    <3>1. x \in less.left /\ less \in saves' BY <2>1, <2>3, <1>6, <1>7
    <3> QED BY <3>1 DEF StillSaved
  <2> QED BY <2>2, <2>3
<1>12. \A x \in CatalogModels : table[x].at \in Nat /\ table[x].at <= tick /\ table[x].edition \in Nat
  BY <1>2, <1>3 DEF CatalogRows, RowsTrue
<1>13. table[m].edition <= Published[m]
  <2>1. CASE table[m].at = 0 BY <2>1, <1>2, <1>3 DEF RowsTrue
  <2>2. CASE table[m].at # 0
    <3>1. table[m].at \in 1..tick /\ table[m].edition = past[table[m].at][m]
      BY <2>2, <1>2, <1>3, <1>12 DEF RowsTrue
    <3>2. tick \in table[m].at..tick BY <3>1, <1>2
    <3> QED BY <3>1, <3>2, <1>2, <1>3, <1>4 DEF PastGrows, Published
  <2> QED BY <2>1, <2>2
<1>14. \A x \in CatalogModels : table[x].edition <= table'[x].edition BY <1>8, <1>12, <1>13
<1>15. PastGrows' BY <1>1, <1>2, <1>9 DEF PastGrows
<1>16. RowsTrue'
  <2> SUFFICES ASSUME NEW x \in CatalogModels
               PROVE  /\ table'[x].at <= tick
                      /\ table'[x].edition = IF table'[x].at = 0 THEN 0 ELSE past[table'[x].at][x]
    BY <1>1, <1>9 DEF RowsTrue
  <2>1. CASE x = m BY <2>1, <1>2, <1>8 DEF Published
  <2>2. CASE x # m BY <2>2, <1>2, <1>8 DEF RowsTrue
  <2> QED BY <2>1, <2>2
<1>17. SavesTold'
  <2> SUFFICES ASSUME NEW u \in saves'
               PROVE  /\ u.at = tick /\ u.map = Published
                      /\ \A x \in CatalogModels :
                           /\ x \in u.left => Published[x] # 0
                           /\ Published[x] # 0 /\ x \notin u.left => table'[x].at = tick
    BY <1>9 DEF SavesTold
  <2>1. CASE u \in saves BY <2>1, <1>2, <1>8 DEF SavesTold
  <2>2. CASE u = less BY <2>2, <1>2, <1>6, <1>8 DEF SavesTold
  <2> QED BY <2>1, <2>2, <1>7
<1>18. NewestRows'
  <2> SUFFICES ASSUME ~partial, NEW x \in CatalogModels, NEW n \in CatalogModels, AlwaysListed(x)
               PROVE  table'[n].at <= table'[x].at \/ StillSaved(x)'
    BY <1>1, <1>10 DEF NewestRows
  <2>1. CASE x = m
    <3>1. table'[n].at <= tick BY <1>2, <1>8, <1>12
    <3> QED BY <2>1, <3>1, <1>8
  <2>2. CASE x # m
    <3>1. Published[x] # 0 BY <1>2 DEF AlwaysListed, Published
    <3>2. x \in s.left \/ table[x].at = tick BY <3>1, <1>2 DEF SavesTold
    <3>3. CASE x \in s.left
      <4>1. StillSaved(x) BY <3>3 DEF StillSaved
      <4> QED BY <4>1, <2>2, <1>11
    <3>4. CASE table[x].at = tick
      <4>1. table'[n].at <= tick BY <1>2, <1>8, <1>12
      <4> QED BY <3>4, <4>1, <2>2, <1>8
    <3> QED BY <3>2, <3>3, <3>4
  <2> QED BY <2>1, <2>2
<1>19. \A c : Dated(c)' = Dated(c) BY <1>1, <1>9, <1>10 DEF Dated
<1>20. Caches' = Caches BY <1>1 DEF Caches
<1>21. CopiesDated' BY <1>1, <1>2, <1>19, <1>20 DEF CopiesDated
<1>22. SavedOrSaving'
  <2> SUFFICES ASSUME ~partial, NEW c \in Caches, NEW x \in CatalogModels
               PROVE  c.map[x] <= table'[x].edition \/ (StillSaved(x)' /\ c.map[x] <= Published[x])
    BY <1>1, <1>9, <1>20 DEF SavedOrSaving
  <2>1. c.map[x] <= table[x].edition \/ (StillSaved(x) /\ c.map[x] <= Published[x])
    BY <1>2 DEF SavedOrSaving
  <2>2. c \in CatalogCopy BY <1>2 DEF Caches, CatalogTypeOK
  <2>3. c.map[x] \in Nat /\ Published[x] \in Nat /\ table'[x].edition \in Nat
    BY <2>2, <1>2, <1>8 DEF CatalogCopy, CatalogRows
  <2>4. CASE x = m BY <2>1, <2>3, <2>4, <1>8, <1>12, <1>13
  <2>5. CASE x # m BY <2>1, <2>5, <1>8, <1>11
  <2> QED BY <2>4, <2>5
<1>23. RowsRead'
  <2>1. OfRows(reading)' = OfRows(reading) BY <1>1 DEF OfRows, NoRows
  <2>2. Dated(OfRows(reading))' = Dated(OfRows(reading))
    BY <2>1, <1>1, <1>9, <1>10 DEF Dated
  <2> SUFFICES ASSUME reading # NotLoaded PROVE RowsRead'
    BY <1>1 DEF RowsRead
  <2>3. reading \in CatalogRows BY <1>2 DEF CatalogTypeOK
  <2>4. \A x \in CatalogModels : reading[x].edition \in Nat /\ table'[x].edition \in Nat
    BY <2>3, <1>8 DEF CatalogRows
  <2>5. \A x \in CatalogModels : reading[x].at <= tick /\ reading[x].edition <= table[x].edition
    BY <1>2 DEF RowsRead
  <2>6. \A x \in CatalogModels : reading[x].at <= tick /\ reading[x].edition <= table'[x].edition
    BY <2>4, <2>5, <1>12, <1>14
  <2>7. ~partial /\ OfRows(reading) # NotLoaded => Dated(OfRows(reading)) BY <1>2 DEF RowsRead
  <2> QED BY <2>1, <2>2, <2>6, <2>7, <1>1, <1>9 DEF RowsRead
<1>24. NothingRuns' BY <1>1, <1>2 DEF NothingRuns
<1>25. PricesLooked'
  <2>1. FreshCopy(prices)' = FreshCopy(prices) /\ FetchRefused' = FetchRefused
    BY <1>1, <1>9 DEF FreshCopy, FetchRefused
  <2> QED BY <2>1, <1>1, <1>2, <1>9 DEF PricesLooked
<1>26. CatalogTypeOK'
  <2>1. saves' \in SUBSET CatalogSave BY <1>2, <1>6, <1>7 DEF CatalogTypeOK
  <2> QED BY <2>1, <1>1, <1>2, <1>8, <1>9 DEF CatalogTypeOK
<1> QED BY <1>15, <1>16, <1>17, <1>18, <1>21, <1>22, <1>23, <1>24, <1>25, <1>26 DEF CatalogInv

LEMMA SaveFailsKeeps ==
  ASSUME CatalogInv, NEW s \in saves, SaveFails(s)
  PROVE  CatalogInv'
<1>1. /\ saves' = saves \ {s} /\ partial' = TRUE
      /\ UNCHANGED <<past, table, booted, contexts, prices, waiting, retryAt, reading, looked>>
  BY DEF SaveFails
<1>2. /\ CatalogTypeOK /\ NothingRuns /\ PricesLooked /\ PastGrows /\ RowsTrue /\ SavesTold /\ RowsRead
  BY CatalogParts
<1>3. tick' = tick /\ Published' = Published BY <1>1 DEF tick, Published
<1>4. PastGrows' /\ RowsTrue' BY <1>1, <1>2, <1>3 DEF PastGrows, RowsTrue
<1>5. SavesTold' BY <1>1, <1>2, <1>3 DEF SavesTold
<1>6. CopiesDated' /\ SavedOrSaving' /\ NewestRows' BY <1>1 DEF CopiesDated, SavedOrSaving, NewestRows
<1>7. RowsRead' BY <1>1, <1>2, <1>3 DEF RowsRead
<1>8. NothingRuns' BY <1>1, <1>2 DEF NothingRuns
<1>9. PricesLooked'
  <2>1. FreshCopy(prices)' = FreshCopy(prices) /\ FetchRefused' = FetchRefused
    BY <1>1, <1>3 DEF FreshCopy, FetchRefused
  <2> QED BY <2>1, <1>1, <1>2, <1>3 DEF PricesLooked
<1>10. CatalogTypeOK' BY <1>1, <1>2, <1>3 DEF CatalogTypeOK
<1> QED BY <1>4, <1>5, <1>6, <1>7, <1>8, <1>9, <1>10 DEF CatalogInv

-----------------------------------------------------------------------------
(* models.dev                                                              *)

LEMMA TickPassesKeeps ==
  ASSUME CatalogInv, TickPasses
  PROVE  CatalogInv'
<1>1. PICK next \in {Published, [m \in CatalogModels |-> tick + 1],
                     [Published EXCEPT ![Dropped] = 0], NothingListed} :
        past' = Append(past, next)
  BY DEF TickPasses
<1>2. /\ saves = {} /\ reading = NotLoaded
      /\ UNCHANGED <<table, booted, contexts, prices, waiting, retryAt, reading, saves, looked, partial>>
  BY DEF TickPasses
<1>3. /\ CatalogTypeOK /\ NothingRuns /\ PricesLooked /\ PastGrows /\ RowsTrue /\ NewestRows
      /\ CopiesDated /\ SavedOrSaving
      /\ tick \in Nat /\ tick >= 1 /\ tick \in 1..tick /\ Published \in [CatalogModels -> Nat]
      /\ \A t \in 1..tick, m \in CatalogModels : past[t][m] \in Nat
      /\ past \in Seq([CatalogModels -> Nat])
  BY CatalogParts DEF CatalogTypeOK
<1>4. /\ next \in [CatalogModels -> Nat]
      /\ \A m \in CatalogModels : next[m] \in {0, Published[m], tick + 1}
  <2>1. CASE next = Published BY <2>1, <1>3
  <2>2. CASE next = [m \in CatalogModels |-> tick + 1] BY <2>2, <1>3
  <2>3. CASE next = [Published EXCEPT ![Dropped] = 0] BY <2>3, <1>3, NotLoadedIsNone
  <2>4. CASE next = NothingListed BY <2>4 DEF NothingListed
  <2> QED BY <2>1, <2>2, <2>3, <2>4
<1>5. /\ past' \in Seq([CatalogModels -> Nat]) /\ tick' = tick + 1 /\ past'[tick + 1] = next
      /\ \A t \in 1..tick : past'[t] = past[t]
  BY <1>1, <1>3, <1>4 DEF tick
<1>6. \A t \in 1..(tick + 1) : t \in 1..tick \/ t = tick + 1 BY <1>3
<1>7. \A m \in CatalogModels : AlwaysListed(m)' => AlwaysListed(m)
  BY <1>3, <1>5 DEF AlwaysListed
<1>8. PastGrows'
  <2> SUFFICES ASSUME NEW t \in 1..(tick + 1), NEW m \in CatalogModels, NEW u \in t..(tick + 1)
               PROVE  /\ past'[t][m] <= t
                      /\ past'[u][m] # 0 => past'[t][m] <= past'[u][m]
    BY <1>3, <1>5 DEF PastGrows
  <2>1. u \in 1..(tick + 1) /\ t <= u BY <1>3
  <2>2. past[tick][m] <= tick /\ Published[m] = past[tick][m] /\ past[tick][m] \in Nat
    BY <1>3 DEF PastGrows, Published
  <2>3. next[m] \in Nat /\ next[m] <= tick + 1
    <3>1. next[m] = 0 \/ next[m] = Published[m] \/ next[m] = tick + 1 BY <1>4
    <3>2. PICK p \in Nat : p = Published[m] BY <2>2
    <3>3. PICK k \in Nat : k = tick BY <1>3
    <3>4. p <= k BY <2>2, <3>2, <3>3
    <3>5. next[m] = 0 \/ next[m] = p \/ next[m] = k + 1 BY <3>1, <3>2, <3>3
    <3>6. next[m] \in Nat /\ next[m] <= k + 1 BY <3>4, <3>5
    <3> QED BY <3>3, <3>6
  <2>4. CASE t = tick + 1
    <3>1. u = tick + 1 BY <2>1, <2>4, <1>3
    <3> QED BY <2>3, <2>4, <3>1, <1>5
  <2>5. CASE t \in 1..tick
    <3>1. past'[t][m] = past[t][m] /\ past[t][m] <= t /\ past[t][m] \in Nat
      BY <2>5, <1>3, <1>5 DEF PastGrows
    <3>2. CASE u \in 1..tick
      <4>1. u \in t..tick BY <2>1, <3>2, <1>3
      <4> QED BY <2>5, <3>1, <3>2, <4>1, <1>3, <1>5 DEF PastGrows
    <3>3. CASE u = tick + 1
      <4>1. past'[u][m] = next[m] /\ tick \in t..tick BY <2>5, <3>3, <1>3, <1>5
      <4>2. Published[m] # 0 => past[t][m] <= Published[m]
        BY <2>2, <2>5, <4>1, <1>3 DEF PastGrows
      <4>3. past[t][m] <= tick + 1 BY <2>5, <3>1, <1>3
      <4> QED BY <3>1, <4>1, <4>2, <4>3, <1>4
    <3> QED BY <2>1, <3>2, <3>3, <1>6
  <2> QED BY <2>4, <2>5, <1>6
<1>9. \A m \in CatalogModels : table[m].at \in Nat /\ table[m].at <= tick
  BY <1>3 DEF CatalogTypeOK, CatalogRows, RowsTrue
<1>10. RowsTrue'
  <2> SUFFICES ASSUME NEW m \in CatalogModels
               PROVE  /\ table[m].at <= tick + 1
                      /\ table[m].edition = IF table[m].at = 0 THEN 0 ELSE past'[table[m].at][m]
    BY <1>2, <1>5 DEF RowsTrue
  <2>1. table[m].at # 0 => table[m].at \in 1..tick BY <1>3, <1>9
  <2>2. table[m].edition = IF table[m].at = 0 THEN 0 ELSE past[table[m].at][m] BY <1>3 DEF RowsTrue
  <2>3. table[m].at # 0 => past'[table[m].at] = past[table[m].at] BY <2>1, <1>5
  <2>4. PICK a \in Nat : a = table[m].at /\ a <= tick BY <1>9
  <2>5. a <= tick + 1 BY <2>4, <1>3
  <2> QED BY <2>2, <2>3, <2>4, <2>5
<1>11. SavesTold' BY <1>2 DEF SavesTold
<1>12. NewestRows'
  <2>1. \A m \in CatalogModels : ~StillSaved(m) BY <1>2 DEF StillSaved
  <2> QED BY <2>1, <1>2, <1>3, <1>7 DEF NewestRows
<1>13. \A c \in CatalogCopy : Dated(c) => Dated(c)'
  <2> SUFFICES ASSUME NEW c \in CatalogCopy, Dated(c), NEW m \in CatalogModels, c.map[m] # 0,
                      AlwaysListed(m)'
               PROVE  \E t \in 1..(tick + 1) : c.at <= t /\ past'[t][m] = c.map[m]
    BY <1>5 DEF Dated
  <2>1. PICK t \in 1..tick : c.at <= t /\ past[t][m] = c.map[m] BY <1>7 DEF Dated
  <2>2. past'[t] = past[t] BY <1>5
  <2>3. t \in 1..(tick + 1) BY <1>3
  <2> QED BY <2>1, <2>2, <2>3
<1>14. Caches' = Caches /\ Caches \subseteq CatalogCopy BY <1>2, <1>3 DEF Caches, CatalogTypeOK
<1>15. CopiesDated' BY <1>2, <1>3, <1>13, <1>14 DEF CopiesDated
<1>16. SavedOrSaving'
  <2>1. \A m \in CatalogModels : ~StillSaved(m) BY <1>2 DEF StillSaved
  <2> QED BY <2>1, <1>2, <1>3, <1>14 DEF SavedOrSaving
<1>17. RowsRead' BY <1>2 DEF RowsRead
<1>18. NothingRuns' BY <1>2, <1>3 DEF NothingRuns
<1>19. PricesLooked'
  <2>1. looked \in Nat /\ looked <= tick BY <1>3 DEF PricesLooked, CatalogTypeOK
  <2> QED BY <2>1, <1>2, <1>3, <1>5 DEF PricesLooked
<1>20. CatalogTypeOK' BY <1>2, <1>3, <1>5 DEF CatalogTypeOK
<1> QED BY <1>8, <1>10, <1>11, <1>12, <1>15, <1>16, <1>17, <1>18, <1>19, <1>20 DEF CatalogInv

-----------------------------------------------------------------------------
LEMMA CatalogStarts == CatalogInit => CatalogInv
<1> SUFFICES ASSUME CatalogInit PROVE CatalogInv
  OBVIOUS
<1>1. PICK first : first = [m \in CatalogModels |-> 1] OBVIOUS
<1>2. /\ past = <<first>> /\ table = NoRows /\ booted = 0
      /\ contexts = NotLoaded /\ prices = NotLoaded
      /\ waiting = {} /\ retryAt = 0 /\ reading = NotLoaded /\ saves = {}
      /\ looked = 0 /\ partial = FALSE
  BY <1>1 DEF CatalogInit
<1>3. first \in [CatalogModels -> Nat] /\ \A m \in CatalogModels : first[m] = 1 BY <1>1
<1>4. past \in Seq([CatalogModels -> Nat]) /\ tick = 1 /\ past[1] = first BY <1>2, <1>3 DEF tick
<1>5. \A m \in CatalogModels : table[m].at = 0 /\ table[m].edition = 0 BY <1>2 DEF NoRows
<1>6. CatalogTypeOK
  <2>1. past \in Seq([CatalogModels -> Nat]) /\ tick >= 1 BY <1>4
  <2>2. table \in CatalogRows /\ booted \in Nat /\ retryAt \in Nat /\ looked \in Nat /\ partial \in BOOLEAN
    BY <1>2, NotLoadedIsNone
  <2>3. /\ contexts \in CatalogCopy \cup {NotLoaded} /\ prices \in CatalogCopy \cup {NotLoaded}
        /\ reading \in CatalogRows \cup {NotLoaded}
        /\ waiting \in SUBSET {"both", "contexts", "prices"} /\ saves \in SUBSET CatalogSave
    BY <1>2
  <2> QED BY <2>1, <2>2, <2>3 DEF CatalogTypeOK
<1>7. PastGrows
  <2> SUFFICES ASSUME NEW t \in 1..1, NEW m \in CatalogModels, NEW u \in t..1
               PROVE  past[t][m] <= t /\ (past[u][m] # 0 => past[t][m] <= past[u][m])
    BY <1>4 DEF PastGrows
  <2>1. t = 1 /\ u = 1 OBVIOUS
  <2> QED BY <2>1, <1>3, <1>4
<1>8. RowsTrue /\ NewestRows BY <1>4, <1>5 DEF RowsTrue, NewestRows
<1>9. SavesTold /\ RowsRead /\ NothingRuns BY <1>2 DEF SavesTold, RowsRead, NothingRuns
<1>10. CopiesDated /\ SavedOrSaving BY <1>2 DEF CopiesDated, SavedOrSaving, Caches
<1>11. PricesLooked BY <1>2, <1>4 DEF PricesLooked
<1> QED BY <1>6, <1>7, <1>8, <1>9, <1>10, <1>11 DEF CatalogInv

LEMMA CatalogStutters ==
  ASSUME CatalogInv, UNCHANGED catalogVars
  PROVE  CatalogInv'
<1>1. UNCHANGED <<past, table, booted, contexts, prices, waiting, retryAt, reading,
                  saves, looked, partial>>
  BY DEF catalogVars
<1>2. CatalogTypeOK /\ NothingRuns BY CatalogParts
<1>3. PricesLooked' BY <1>1, LookedStill
<1>4. NothingRuns' BY <1>1, <1>2 DEF NothingRuns
<1>5. RowsRead' BY <1>1, RowsReadStill
<1>6. \A c \in {contexts', prices'} : c \in CatalogCopy \cup {NotLoaded} /\ (c = NotLoaded \/ Kept(c))
  BY <1>1, CachesAsTold
<1>7. /\ booted' \in Nat /\ looked' \in Nat /\ retryAt' \in Nat /\ partial' \in BOOLEAN
      /\ reading' \in CatalogRows \cup {NotLoaded}
      /\ waiting' \in SUBSET {"both", "contexts", "prices"}
  BY <1>1, <1>2 DEF CatalogTypeOK
<1> QED BY <1>1, <1>3, <1>4, <1>5, <1>6, <1>7, CacheStep

LEMMA CatalogSteps ==
  ASSUME CatalogInv, CatalogNext
  PROVE  CatalogInv'
<1>1. CASE \E s \in saves : Saves(s) \/ SaveFails(s) BY <1>1, SavesKeeps, SaveFailsKeeps
<1> QED BY <1>1, BootsKeeps, StopsKeeps, TimerKeeps, ContextsKeeps, PricesKeeps, RowsArriveKeeps,
           FetchSucceedsKeeps, FetchFailsKeeps, TickPassesKeeps DEF CatalogNext

LEMMA CatalogTells == CatalogInv => CatalogKept
<1> SUFFICES ASSUME CatalogInv PROVE CatalogKept
  OBVIOUS
<1>1. /\ CatalogTypeOK /\ CopiesDated /\ SavedOrSaving /\ PricesLooked /\ tick \in Nat
      /\ Published \in [CatalogModels -> Nat]
  BY CatalogParts
<1>2. Caches \subseteq CatalogCopy BY <1>1 DEF Caches, CatalogTypeOK
<1>3. DatedTruly
  <2> SUFFICES ASSUME ~partial, NEW c \in Caches, NEW m \in CatalogModels, c.map[m] # 0, AlwaysListed(m)
               PROVE  \E t \in c.at..tick : past[t][m] = c.map[m]
    BY DEF DatedTruly
  <2>1. PICK t \in 1..tick : c.at <= t /\ past[t][m] = c.map[m] BY <1>1 DEF CopiesDated, Dated
  <2>2. c.at \in Int BY <1>2 DEF CatalogCopy
  <2>3. t \in c.at..tick BY <2>1, <2>2, <1>1
  <2> QED BY <2>1, <2>3
<1>4. KnownIsSaved
  <2> SUFFICES ASSUME ~partial, saves = {}, NEW c \in Caches, NEW m \in CatalogModels
               PROVE  table[m].edition >= c.map[m]
    BY DEF KnownIsSaved
  <2>1. c.map[m] <= table[m].edition BY <1>1 DEF SavedOrSaving, StillSaved
  <2> QED BY <2>1
<1>5. StaleIsFetched BY <1>1 DEF PricesLooked, StaleIsFetched, FetchRefused
<1> QED BY <1>3, <1>4, <1>5 DEF CatalogKept

-----------------------------------------------------------------------------
(***************************************************************************)
(* The parts together                                                      *)
(***************************************************************************)

\* The registry's own variables, which DashboardViews' and the others' steps leave alone.
LEMMA RegistryBeside ==
  ASSUME RegistryInv, [PartsNext]_partsVars
  PROVE  RegistryInv'
<1>1. CASE part = "registry" /\ Next BY <1>1, RegistrySteps
<1>2. CASE UNCHANGED vars BY <1>2, RegistryStutters
<1>3. (part = "registry" /\ Next) \/ UNCHANGED vars
  <2>1. CASE PartsNext BY <2>1, Zenon DEF PartsNext, dashboard
  <2>2. CASE UNCHANGED partsVars BY <2>2, Zenon DEF partsVars, dashboard
  <2> QED BY <2>1, <2>2
<1> QED BY <1>1, <1>2, <1>3

\* The copies the gateways use are what is stored, an edit keeps what it was not about, and the
\* Rust proxy is told of every change (Registry), for any number of handlers, channels and rules.
THEOREM CopiesKept == PartsSpec => []RegistryKept
<1>1. PartsInit => RegistryInv BY RegistryStarts DEF PartsInit
<1>2. RegistryInv /\ [PartsNext]_partsVars => RegistryInv' BY RegistryBeside
<1>3. RegistryInv => RegistryKept BY RegistryTells DEF RegistryKept
<1> QED BY <1>1, <1>2, <1>3, PTL DEF PartsSpec

LEMMA ViewsBeside ==
  ASSUME ViewsInv, [PartsNext]_partsVars
  PROVE  ViewsInv'
<1>1. CASE part = "views" /\ ViewsNext BY <1>1, ViewsSteps
<1>2. CASE UNCHANGED viewVars BY <1>2, ViewsStutter
<1>3. (part = "views" /\ ViewsNext) \/ UNCHANGED viewVars
  <2>1. CASE PartsNext BY <2>1, Zenon DEF PartsNext, dashboard
  <2>2. CASE UNCHANGED partsVars BY <2>2, Zenon DEF partsVars, dashboard
  <2> QED BY <2>1, <2>2
<1> QED BY <1>1, <1>2, <1>3

LEMMA EditorsBeside ==
  ASSUME EditorsInv, [PartsNext]_partsVars
  PROVE  EditorsInv'
<1>1. CASE part = "editors" /\ EditorsNext BY <1>1, EditorsSteps
<1>2. CASE UNCHANGED editorVars BY <1>2, EditorsStutter
<1>3. (part = "editors" /\ EditorsNext) \/ UNCHANGED editorVars
  <2>1. CASE PartsNext BY <2>1, Zenon DEF PartsNext, dashboard
  <2>2. CASE UNCHANGED partsVars BY <2>2, Zenon DEF partsVars, dashboard
  <2> QED BY <2>1, <2>2
<1> QED BY <1>1, <1>2, <1>3

\* The dashboard shows what is chosen in it, with what this administrator wrote, and writes to no
\* other channel than the one that is open (DashboardViews, DashboardEditors), for any requests,
\* filters and rows and any number of calls in flight.
THEOREM DashboardTold == PartsSpec => []DashboardTrue
<1>1. PartsInit => ViewsInv /\ EditorsInv BY ViewsStart, EditorsStart DEF PartsInit
<1>2. (ViewsInv /\ EditorsInv) /\ [PartsNext]_partsVars => (ViewsInv /\ EditorsInv)'
  BY ViewsBeside, EditorsBeside
<1>3. ViewsInv /\ EditorsInv => DashboardTrue BY EditorsTell DEF DashboardTrue, ViewsInv
<1> QED BY <1>1, <1>2, <1>3, PTL DEF PartsSpec

LEMMA CatalogBeside ==
  ASSUME CatalogInv, [PartsNext]_partsVars
  PROVE  CatalogInv'
<1>1. CASE part = "catalog" /\ CatalogNext BY <1>1, CatalogSteps
<1>2. CASE UNCHANGED catalogVars BY <1>2, CatalogStutters
<1>3. (part = "catalog" /\ CatalogNext) \/ UNCHANGED catalogVars
  <2>1. CASE PartsNext BY <2>1, Zenon DEF PartsNext, pricing
  <2>2. CASE UNCHANGED partsVars BY <2>2, Zenon DEF partsVars, pricing
  <2> QED BY <2>1, <2>2
<1> QED BY <1>1, <1>2, <1>3

\* A copy of the catalog is as old as it is dated, a restart loses nothing of it, and a stale one
\* is fetched or was refused a moment ago (ModelCatalog), for any models, times to live and
\* cooldowns and any number of saves under way.
THEOREM CatalogTrue == PartsSpec => []CatalogKept
<1>1. PartsInit => CatalogInv BY CatalogStarts DEF PartsInit
<1>2. CatalogInv /\ [PartsNext]_partsVars => CatalogInv' BY CatalogBeside
<1>3. CatalogInv => CatalogKept BY CatalogTells
<1> QED BY <1>1, <1>2, <1>3, PTL DEF PartsSpec

-----------------------------------------------------------------------------
(***************************************************************************)
(* The API keys. What the Rust proxy goes by is what the sync that was the *)
(* last to read the keys has read, once it was sent; until then something  *)
(* is still to come that reads them again.                                 *)
(***************************************************************************)
KeyRecords == [quota : Nat \cup {NoQuota}, used : Int]
SyncStates ==
  [at : {"rest", "asking"}, says : {""}] \cup [at : {"sending"}, says : Verdicts \cup {"nobody"}]

KeyPushTypeOK ==
  /\ apiKey \in KeyRecords \cup {NotMade, Deleted}
  /\ writtenKeys \in Nat /\ bridged \in BOOLEAN
  /\ pushes \in [KeySyncs -> SyncStates]
  /\ rustSays \in Verdicts
  /\ newest \in KeySyncs \cup {NoSync} /\ pushed \in BOOLEAN /\ since \in Int
  /\ keyLapses \in SUBSET {"missed", "overtaken", "nobody"}

\* A sync is to come that reads the keys again, or one that should have done so has failed.
KeysBehind ==
  \/ ~bridged \/ writtenKeys > 0 \/ "missed" \in keyLapses
  \/ \E s \in KeySyncs : pushes[s].at = "asking"

AboutToSend == newest \in KeySyncs /\ pushes[newest].at = "sending"

NewestKeysRight ==
  IF AboutToSend
    THEN pushes[newest].says \in {"nobody", SaidOf(KeyThen)}
    ELSE /\ pushed
         /\ rustSays = SaidOf(KeyThen) \/ keyLapses \cap {"overtaken", "nobody"} # {}

KeyPushInv ==
  /\ KeyPushTypeOK
  /\ AboutToSend => ~pushed
  /\ KeysBehind \/ NewestKeysRight

LEMMA KeyPushStarts == KeyPushInit => KeyPushInv
<1> SUFFICES ASSUME KeyPushInit PROVE KeyPushInv OBVIOUS
<1>1. NoPush \in SyncStates BY DEF NoPush, SyncStates
<1>2. KeyPushTypeOK
  <2>1. pushes \in [KeySyncs -> SyncStates] BY <1>1 DEF KeyPushInit
  <2>2. rustSays \in Verdicts BY DEF KeyPushInit, Verdicts
  <2>3. keyLapses \in SUBSET {"missed", "overtaken", "nobody"} BY Zenon DEF KeyPushInit
  <2>4. writtenKeys \in Nat /\ since \in Int BY DEF KeyPushInit
  <2>5. bridged \in BOOLEAN /\ pushed \in BOOLEAN BY Zenon DEF KeyPushInit
  <2> QED BY <2>1, <2>2, <2>3, <2>4, <2>5, Zenon DEF KeyPushInit, KeyPushTypeOK
<1> QED BY <1>2, KeyPushAssumption DEF KeyPushInit, KeyPushInv, KeysBehind, AboutToSend

LEMMA KeyPushTells == KeyPushInv => KeysAdmittedAlike
<1> SUFFICES ASSUME KeyPushInv, KeysSettled, \A l : l \notin keyLapses
             PROVE  rustSays = IF Made(apiKey) /\ apiKey.quota = 0 THEN "open"
                               ELSE Authenticated(KeyThen)
  BY Zenon DEF KeysAdmittedAlike
<1>1. \A s \in KeySyncs : pushes[s].at = "rest"
  <2> SUFFICES ASSUME NEW s \in KeySyncs PROVE pushes[s].at = "rest" OBVIOUS
  <2>1. s \in Resters BY Zenon DEF KeysSettled
  <2>2. pushes[s] = NoPush BY <2>1 DEF Resters, InWork
  <2>3. NoPush.at = "rest" BY DEF NoPush
  <2> QED BY <2>2, <2>3, Zenon
<1>2. rustSays = SaidOf(KeyThen)
  BY <1>1 DEF KeyPushInv, KeyPushTypeOK, KeysSettled, KeysBehind, NewestKeysRight, AboutToSend
<1>3. CASE Made(apiKey)
  <2>1. apiKey \in KeyRecords BY <1>3 DEF Made, KeyPushInv, KeyPushTypeOK
  <2>2. KeyThen \in KeyRecords /\ KeyThen.quota = apiKey.quota
    BY <1>3, <2>1 DEF KeyThen, KeyRecords, KeyPushInv, KeyPushTypeOK
  <2>3. Made(KeyThen) BY <2>2, KeyPushAssumption DEF Made, KeyRecords
  <2> QED BY <1>2, <1>3, <2>2, <2>3, KeyPushAssumption DEF SaidOf, Authenticated
<1>4. CASE ~Made(apiKey)
  BY <1>2, <1>4 DEF KeyThen, SaidOf, Authenticated
<1> QED BY <1>3, <1>4

\* A sync is given to one that rests.
LEMMA KeySyncStarts ==
  ASSUME KeyPushTypeOK, Resters # {}, Sets(Rester, "asking", "")
  PROVE  /\ pushes' \in [KeySyncs -> SyncStates]
         /\ \E s \in KeySyncs : pushes'[s].at = "asking"
         /\ \A s \in KeySyncs : pushes'[s].at = "sending" => pushes[s].at = "sending"
<1>1. Rester \in KeySyncs BY DEF Rester, Resters
<1> QED BY <1>1 DEF KeyPushTypeOK, Sets, SyncStates

LEMMA SaysAVerdict == \A k : SaidOf(k) \in Verdicts
BY DEF SaidOf, Verdicts

\* A route or a charge writes the row; a charge leaves the key as it was when it was read.
LEMMA KeyWritten ==
  ASSUME KeyPushInv, NEW k \in KeyRecords \cup {Deleted}, Stores(k)
  PROVE  KeyPushInv'
BY DEF KeyPushInv, KeyPushTypeOK, Stores, pushHistory, KeysBehind, AboutToSend

LEMMA KeyChanged ==
  ASSUME KeyPushInv,
         (\E q \in Quotas : MakesKey(q) \/ LimitsKey(q)) \/ DropsKey \/ RelabelsKey
  PROVE  KeyPushInv'
<1>1. ASSUME NEW q \in Quotas, MakesKey(q) PROVE KeyPushInv'
  BY <1>1, KeyWritten DEF MakesKey, Quotas, KeyRecords
<1>2. ASSUME NEW q \in Quotas, LimitsKey(q) PROVE KeyPushInv'
  <2>1. apiKey \in KeyRecords BY <1>2 DEF LimitsKey, Made, KeyPushInv, KeyPushTypeOK
  <2>2. [apiKey EXCEPT !.quota = q] \in KeyRecords BY <1>2, <2>1 DEF KeyRecords, Quotas
  <2> QED BY <1>2, <2>2, KeyWritten DEF LimitsKey
<1>3. CASE DropsKey BY <1>3, KeyWritten DEF DropsKey
<1>4. CASE RelabelsKey
  BY <1>4, KeyWritten DEF RelabelsKey, Made, KeyPushInv, KeyPushTypeOK
<1> QED BY <1>1, <1>2, <1>3, <1>4

LEMMA KeyRouteReturns ==
  ASSUME KeyPushInv, RouteReturns
  PROVE  KeyPushInv'
<1>1. CASE bridged
  <2>1. Sets(Rester, "asking", "") /\ Resters # {} BY <1>1 DEF RouteReturns, SyncsKeys
  <2>2. /\ pushes' \in [KeySyncs -> SyncStates]
        /\ \E s \in KeySyncs : pushes'[s].at = "asking"
    BY <2>1, KeySyncStarts DEF KeyPushInv
  <2>3. writtenKeys' \in Nat BY DEF RouteReturns, KeyPushInv, KeyPushTypeOK
  <2>4. KeyPushTypeOK'
    BY <2>2, <2>3 DEF KeyPushInv, KeyPushTypeOK, RouteReturns, pushHistory
  <2>5. KeysBehind' BY <2>2 DEF KeysBehind
  <2>6. AboutToSend' => ~pushed'
    BY <2>1, KeySyncStarts DEF KeyPushInv, RouteReturns, pushHistory, AboutToSend
  <2> QED BY <2>4, <2>5, <2>6 DEF KeyPushInv
<1>2. CASE ~bridged
  BY <1>2 DEF KeyPushInv, KeyPushTypeOK, RouteReturns, SyncsKeys, pushHistory, KeysBehind, AboutToSend
<1> QED BY <1>1, <1>2

LEMMA BridgeTurns ==
  ASSUME KeyPushInv, BridgeConnects \/ BridgeCloses
  PROVE  KeyPushInv'
<1>1. CASE BridgeConnects
  <2>1. Sets(Rester, "asking", "") /\ Resters # {} BY <1>1 DEF BridgeConnects
  <2>2. KeyPushTypeOK' /\ KeysBehind'
    BY <1>1, <2>1, KeySyncStarts DEF KeyPushInv, KeyPushTypeOK, BridgeConnects, pushHistory, KeysBehind
  <2>3. AboutToSend' => ~pushed'
    BY <1>1, <2>1, KeySyncStarts DEF KeyPushInv, BridgeConnects, pushHistory, AboutToSend
  <2> QED BY <2>2, <2>3 DEF KeyPushInv
<1>2. CASE BridgeCloses
  BY <1>2 DEF KeyPushInv, KeyPushTypeOK, BridgeCloses, pushHistory, KeysBehind, AboutToSend, Verdicts
<1> QED BY <1>1, <1>2

LEMMA KeyCharged ==
  ASSUME KeyPushInv, NEW d \in {-1, 1}, ChargesKey(d)
  PROVE  KeyPushInv'
<1>1. apiKey \in KeyRecords BY DEF ChargesKey, Made, KeyPushInv, KeyPushTypeOK
<1>2. apiKey' \in KeyRecords /\ since' \in Int
  BY <1>1 DEF ChargesKey, KeyRecords, KeyPushInv, KeyPushTypeOK
<1>3. KeyPushTypeOK' BY <1>2 DEF ChargesKey, KeyPushInv, KeyPushTypeOK
<1>4. Made(apiKey) /\ Made(apiKey)'
  BY <1>2, KeyPushAssumption DEF ChargesKey, Made, KeyRecords
<1>5. KeyThen' = KeyThen
  <2>1. apiKey'.used - since' = apiKey.used - since
    BY <1>1 DEF ChargesKey, KeyRecords, KeyPushInv, KeyPushTypeOK
  <2> QED BY <1>1, <1>4, <2>1 DEF KeyThen, ChargesKey, KeyRecords
<1>6. SaidOf(KeyThen)' = SaidOf(KeyThen) BY <1>5 DEF SaidOf, Made
<1> QED BY <1>3, <1>6 DEF ChargesKey, KeyPushInv, KeysBehind, AboutToSend, NewestKeysRight

\* What is read is what the key is, and nothing was charged since.
LEMMA KeysRead ==
  ASSUME KeyPushInv, NEW s \in KeySyncs, ReadsKeys(s) \/ ReadsNoKeys(s)
  PROVE  KeyPushInv'
<1> DEFINE read == IF ReadsKeys(s) THEN SaidOf(apiKey) ELSE "nobody"
<1>1. Reads(s, read) /\ UNCHANGED <<apiKey, writtenKeys, bridged, rustSays>>
  BY DEF ReadsKeys, ReadsNoKeys
<1>2. read \in Verdicts \cup {"nobody"} BY SaysAVerdict
<1>3. KeyPushTypeOK' /\ pushes'[s] = [at |-> "sending", says |-> read]
  <2>1. [at |-> "sending", says |-> read] \in SyncStates BY <1>2 DEF SyncStates
  <2>2. pushes' = [pushes EXCEPT ![s] = [at |-> "sending", says |-> read]]
    BY <1>1 DEF Reads, Sets
  <2>3. pushes \in [KeySyncs -> SyncStates] BY DEF KeyPushInv, KeyPushTypeOK
  <2>4. pushes' \in [KeySyncs -> SyncStates] /\ pushes'[s] = [at |-> "sending", says |-> read]
    BY <2>1, <2>2, <2>3
  <2>5. newest' = s /\ pushed' = FALSE /\ since' = 0 /\ keyLapses' = keyLapses \ {"missed"}
    BY <1>1 DEF Reads
  <2>6. keyLapses' \in SUBSET {"missed", "overtaken", "nobody"}
    BY <2>5 DEF KeyPushInv, KeyPushTypeOK
  <2>7. newest' \in KeySyncs \cup {NoSync} BY <2>5
  <2>8. pushed' \in BOOLEAN BY <2>5, Zenon
  <2>9. since' \in Int BY <2>5
  <2> QED BY <1>1, <2>4, <2>6, <2>7, <2>8, <2>9 DEF KeyPushInv, KeyPushTypeOK
<1>4. AboutToSend' /\ ~pushed' BY <1>1, <1>3 DEF Reads, AboutToSend
<1>5. KeyThen' = apiKey'
  <2>1. CASE Made(apiKey')
    <3>1. apiKey' \in KeyRecords BY <1>3, <2>1 DEF Made, KeyPushTypeOK
    <3>2. since' = 0 BY <1>1 DEF Reads
    <3> QED BY <2>1, <3>1, <3>2 DEF KeyThen, KeyRecords
  <2>2. CASE ~Made(apiKey') BY <2>2 DEF KeyThen
  <2> QED BY <2>1, <2>2
<1>6. read \in {"nobody", SaidOf(KeyThen)'}
  BY <1>1, <1>5 DEF SaidOf, Made
<1>7. NewestKeysRight' BY <1>1, <1>3, <1>4, <1>6 DEF NewestKeysRight, Reads
<1> QED BY <1>3, <1>4, <1>7 DEF KeyPushInv

LEMMA KeySyncFails ==
  ASSUME KeyPushInv, NEW s \in KeySyncs, SyncFails(s)
  PROVE  KeyPushInv'
<1>1. NoPush \in SyncStates /\ NoPush.at = "rest" BY DEF NoPush, SyncStates
<1>2. KeyPushTypeOK' BY <1>1 DEF KeyPushInv, KeyPushTypeOK, SyncFails
<1>3. AboutToSend' => AboutToSend
  BY <1>1 DEF KeyPushInv, KeyPushTypeOK, SyncFails, AboutToSend
<1> QED BY <1>2, <1>3 DEF KeyPushInv, SyncFails, KeysBehind

LEMMA KeysSent ==
  ASSUME KeyPushInv, NEW s \in KeySyncs, SendsKeys(s)
  PROVE  KeyPushInv'
<1>1. KeyPushTypeOK'
  <2>1. NoPush \in SyncStates BY DEF NoPush, SyncStates
  <2>2. pushes' \in [KeySyncs -> SyncStates] BY <2>1 DEF KeyPushInv, KeyPushTypeOK, SendsKeys
  <2>3. pushes[s] \in SyncStates /\ pushes[s].at = "sending" BY DEF KeyPushInv, KeyPushTypeOK, SendsKeys
  <2>4. rustSays' \in Verdicts
    <3>1. CASE ~bridged BY <3>1 DEF KeyPushInv, KeyPushTypeOK, SendsKeys
    <3>2. CASE bridged /\ pushes[s].says \in Verdicts BY <3>2 DEF SendsKeys, Verdicts
    <3>3. CASE bridged /\ pushes[s].says = "nobody" BY <3>3 DEF SendsKeys, Verdicts
    <3>4. pushes[s].says \in Verdicts \cup {"nobody"} BY <2>3 DEF SyncStates
    <3> QED BY <3>1, <3>2, <3>3, <3>4
  <2>5. pushed' \in BOOLEAN BY DEF KeyPushInv, KeyPushTypeOK, SendsKeys
  <2>6. keyLapses' \in SUBSET {"missed", "overtaken", "nobody"}
    BY DEF KeyPushInv, KeyPushTypeOK, SendsKeys, LapseOf
  <2> QED BY <2>2, <2>4, <2>5, <2>6 DEF KeyPushInv, KeyPushTypeOK, SendsKeys
<1>2. AboutToSend' => AboutToSend /\ s # newest
  BY DEF KeyPushInv, KeyPushTypeOK, SendsKeys, AboutToSend, NoPush
<1>3. AboutToSend' => ~pushed'
  BY <1>2 DEF KeyPushInv, SendsKeys
<1>4. KeyThen' = KeyThen BY DEF SendsKeys, KeyThen, Made
<1>5. SaidOf(KeyThen)' = SaidOf(KeyThen) BY <1>4 DEF SaidOf, Made
<1>6. KeysBehind => KeysBehind'
  BY DEF KeysBehind, SendsKeys, KeyPushInv, KeyPushTypeOK, NoPush
<1>7. ASSUME NewestKeysRight, bridged PROVE NewestKeysRight'
  <2>1. CASE s = newest
    <3>1. AboutToSend /\ ~AboutToSend' BY <1>2, <2>1 DEF SendsKeys, AboutToSend
    <3>2. pushes[s].says \in {"nobody", SaidOf(KeyThen)} BY <1>7, <2>1, <3>1 DEF NewestKeysRight
    <3>3. pushed' BY <1>7, <2>1 DEF SendsKeys
    <3>4. pushes[s].says = "nobody" => "nobody" \in keyLapses' BY <1>7 DEF SendsKeys, LapseOf
    <3>5. pushes[s].says # "nobody" => rustSays' = SaidOf(KeyThen) BY <1>7, <3>2 DEF SendsKeys
    <3> QED BY <1>5, <3>1, <3>3, <3>4, <3>5 DEF NewestKeysRight
  <2>2. CASE s # newest /\ AboutToSend
    <3>1. AboutToSend' /\ pushes'[newest] = pushes[newest] /\ newest' = newest
      BY <2>2 DEF SendsKeys, AboutToSend, KeyPushInv, KeyPushTypeOK
    <3> QED BY <1>5, <1>7, <2>2, <3>1 DEF NewestKeysRight
  <2>3. CASE s # newest /\ ~AboutToSend
    <3>1. pushed BY <1>7, <2>3 DEF NewestKeysRight
    <3>2. pushed' /\ "overtaken" \in keyLapses' BY <1>7, <2>3, <3>1 DEF SendsKeys, LapseOf
    <3>3. ~AboutToSend' BY <1>2, <2>3
    <3> QED BY <3>2, <3>3 DEF NewestKeysRight
  <2> QED BY <2>1, <2>2, <2>3
<1>8. ~bridged => KeysBehind' BY DEF KeysBehind, SendsKeys
<1> QED BY <1>1, <1>3, <1>6, <1>7, <1>8 DEF KeyPushInv, KeyPushTypeOK

LEMMA KeyPushSteps ==
  ASSUME KeyPushInv, KeyPushNext
  PROVE  KeyPushInv'
BY KeyChanged, KeyRouteReturns, BridgeTurns, KeyCharged, KeysRead, KeySyncFails, KeysSent
   DEF KeyPushNext

LEMMA KeyPushStutters ==
  ASSUME KeyPushInv, UNCHANGED pushVars
  PROVE  KeyPushInv'
<1>1. UNCHANGED <<apiKey, writtenKeys, pushes, bridged, rustSays, newest, pushed, since, keyLapses>>
  BY DEF pushVars, keyVars, pushHistory
<1>2. SaidOf(KeyThen)' = SaidOf(KeyThen) BY <1>1 DEF SaidOf, KeyThen, Made
<1> QED
  BY <1>1, <1>2 DEF KeyPushInv, KeyPushTypeOK, KeysBehind, AboutToSend, NewestKeysRight

LEMMA KeyPushBeside ==
  ASSUME KeyPushInv, [PartsNext]_partsVars
  PROVE  KeyPushInv'
<1>1. CASE part = "keys" /\ KeyPushNext BY <1>1, KeyPushSteps
<1>2. CASE UNCHANGED pushVars BY <1>2, KeyPushStutters
<1>3. (part = "keys" /\ KeyPushNext) \/ UNCHANGED pushVars
  <2>1. CASE PartsNext BY <2>1, Zenon DEF PartsNext, pricing
  <2>2. CASE UNCHANGED partsVars BY <2>2, Zenon DEF partsVars, pricing
  <2> QED BY <2>1, <2>2
<1> QED BY <1>1, <1>2, <1>3

\* Once the routes of the console and the syncs they start are through, the Rust proxy admits a
\* key as the TypeScript gateway does, less what was charged since the keys were last read and
\* but for a quota of 0 (KeyPush), for any number of overlapping syncs, routes, charges and lost
\* connections.
THEOREM KeysAdmitted == PartsSpec => []KeysAgree
<1>1. PartsInit => KeyPushInv BY KeyPushStarts DEF PartsInit
<1>2. KeyPushInv /\ [PartsNext]_partsVars => KeyPushInv' BY KeyPushBeside
<1>3. KeyPushInv => KeysAgree BY KeyPushTells DEF KeysAgree
<1> QED BY <1>1, <1>2, <1>3, PTL DEF PartsSpec
=============================================================================
