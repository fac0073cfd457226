-------------------------------- MODULE KeyPush --------------------------------
(***************************************************************************)
(* Whom the two gateways admit by an API key. The TypeScript gateway reads *)
(* the key's row for every request (api-keys.ts); the Rust proxy goes by   *)
(* the last configuration it was sent (auth.rs). A route of the console    *)
(* writes the row and then starts syncConfigToRust, which it does not      *)
(* await: syncs overlap, are dropped while the bridge is down, and what a  *)
(* request is charged starts none (rust-bridge.ts).                        *)
(*                                                                         *)
(* The key is one that is made, changed and deleted; a configuration is    *)
(* installed as it is sent (what lies in the socket: ConfigSync).          *)
(***************************************************************************)
EXTENDS Integers, FiniteSets

CONSTANTS
  KeySyncs,     \* bound: calls of syncConfigToRust at work
  NoQuota,      \* a key without a limit
  NotMade, Deleted,
  NoSync,
  MaxKeyOps,    \* bound: routes called and charges
  MaxKeyFaults  \* bound: lost connections and failed queries

ASSUME KeyPushAssumption ==
  /\ IsFiniteSet(KeySyncs) /\ NoSync \notin KeySyncs
  /\ NoQuota \notin Nat /\ {MaxKeyOps, MaxKeyFaults} \subseteq Nat
  /\ \A gone \in {NotMade, Deleted} : gone \notin [quota : Nat \cup {NoQuota}, used : Int]

VARIABLES
  apiKey,      \* its row: quota and use
  writtenKeys, \* routes between their write and their sync
  pushes,      \* each sync: what it is at, and what it read of the key
  bridged,     \* connected
  rustSays,    \* how the Rust proxy answers a request with the key
  keyOps, keyFaults,
  newest,      \* history: the sync that was the last to read the keys
  pushed,      \* history: what it read has been sent
  since,       \* history: what the key was charged since
  keyLapses    \* history: why the Rust proxy may lag behind

keyVars == <<apiKey, writtenKeys, pushes, bridged, rustSays, keyOps, keyFaults>>
pushHistory == <<newest, pushed, since, keyLapses>>
pushVars == <<keyVars, pushHistory>>

Quotas == {NoQuota, 0, 2}
Made(k) == k \notin {NotMade, Deleted}
NoPush == [at |-> "rest", says |-> ""]
InWork(s) == pushes[s] # NoPush
\* "waits": Rust has no configuration yet, and lets requests wait for it.
Verdicts == {"unknown", "exhausted", "open", "waits"}

(* authenticateManagedApiKey with buildApiKeyQuotaSnapshot.                *)
Authenticated(k) ==
  IF ~Made(k) THEN "unknown"
  ELSE IF k.quota # NoQuota /\ k.used >= k.quota THEN "exhausted" ELSE "open"

(* buildSyncConfigPayload: a quota of 0 is falsy, so it exhausts no key.   *)
SaidOf(k) ==
  IF ~Made(k) THEN "unknown"
  ELSE IF k.quota \notin {NoQuota, 0} /\ k.used >= k.quota THEN "exhausted" ELSE "open"

-----------------------------------------------------------------------------
KeyPushInit ==
  /\ apiKey = NotMade /\ writtenKeys = 0
  /\ pushes = [s \in KeySyncs |-> NoPush]
  /\ bridged = FALSE /\ rustSays = "waits"
  /\ keyOps = 0 /\ keyFaults = 0
  /\ newest = NoSync /\ pushed = FALSE /\ since = 0 /\ keyLapses = {}

Resters == {s \in KeySyncs : ~InWork(s)}
Rester == CHOOSE s \in Resters : TRUE
Sets(s, at, says) == pushes' = [pushes EXCEPT ![s] = [at |-> at, says |-> says]]

\* Mutant: a sync at work is taken to do for the next call as well.
SyncsOnce ==
  /\ Resters # {}
  /\ IF bridged /\ Resters = KeySyncs THEN Sets(Rester, "asking", "") ELSE UNCHANGED pushes

(* syncConfigToRust, which returns at once without a connection.           *)
SyncsKeys ==
  /\ Resters # {}
  /\ IF bridged THEN Sets(Rester, "asking", "") ELSE UNCHANGED pushes

Operates == keyOps < MaxKeyOps /\ keyOps' = keyOps + 1
BreaksPush == keyFaults < MaxKeyFaults /\ keyFaults' = keyFaults + 1

\* A route has written the row: k.
Stores(k) ==
  /\ Operates /\ apiKey' = k /\ writtenKeys' = writtenKeys + 1
  /\ UNCHANGED <<pushes, bridged, rustSays, keyFaults, pushHistory>>

MakesKey(q) == apiKey = NotMade /\ Stores([quota |-> q, used |-> 0])
LimitsKey(q) == Made(apiKey) /\ Stores([apiKey EXCEPT !.quota = q])
DropsKey == Made(apiKey) /\ Stores(Deleted)

\* A name or a list of models: the row admits as before.
RelabelsKey == Made(apiKey) /\ Stores(apiKey)

(* The route goes on, starts a sync and answers.                           *)
RouteReturns ==
  /\ writtenKeys > 0 /\ writtenKeys' = writtenKeys - 1
  /\ SyncsKeys
  /\ UNCHANGED <<apiKey, bridged, rustSays, keyOps, keyFaults, pushHistory>>

(* A request is charged, or a charge is put right (syncApiKeyQuotaCharge). *)
ChargesKey(d) ==
  /\ Made(apiKey) /\ Operates /\ apiKey.used + d >= 0
  /\ apiKey' = [apiKey EXCEPT !.used = @ + d]
  /\ since' = since + d
  /\ UNCHANGED <<writtenKeys, pushes, bridged, rustSays, keyFaults, newest, pushed, keyLapses>>

-----------------------------------------------------------------------------
Reads(s, says) ==
  /\ pushes[s].at = "asking" /\ Sets(s, "sending", says)
  /\ newest' = s /\ pushed' = FALSE /\ since' = 0
  /\ keyLapses' = keyLapses \ {"missed"}

(* The keys are read, after everything else.                               *)
ReadsKeys(s) ==
  /\ Reads(s, SaidOf(apiKey))
  /\ UNCHANGED <<apiKey, writtenKeys, bridged, rustSays, keyOps, keyFaults>>

(* The query fails: a configuration without any key.                       *)
ReadsNoKeys(s) ==
  /\ BreaksPush /\ Reads(s, "nobody")
  /\ UNCHANGED <<apiKey, writtenKeys, bridged, rustSays, keyOps>>

(* A query before it fails, and with it the sync, which nobody hears of.   *)
SyncFails(s) ==
  /\ pushes[s].at = "asking" /\ BreaksPush
  /\ pushes' = [pushes EXCEPT ![s] = NoPush]
  /\ keyLapses' = keyLapses \cup {"missed"}
  /\ UNCHANGED <<apiKey, writtenKeys, bridged, rustSays, keyOps, newest, pushed, since>>

\* The lapse of what is now sent by s: a later reading was there before it, or there was none.
LapseOf(s) == (IF s # newest /\ pushed THEN {"overtaken"} ELSE {}) \cup
              (IF pushes[s].says = "nobody" THEN {"nobody"} ELSE {})

(* sendMessage, dropped without a connection.                              *)
SendsKeys(s) ==
  /\ pushes[s].at = "sending"
  /\ IF bridged
       THEN /\ rustSays' = IF pushes[s].says = "nobody" THEN "unknown" ELSE pushes[s].says
            /\ pushed' = (pushed \/ s = newest)
            /\ keyLapses' = (keyLapses \cap {"missed"}) \cup LapseOf(s)
       ELSE UNCHANGED <<rustSays, pushed, keyLapses>>
  /\ pushes' = [pushes EXCEPT ![s] = NoPush]
  /\ UNCHANGED <<apiKey, writtenKeys, bridged, keyOps, keyFaults, newest, since>>

(* The bridge connects, and syncs. *)
BridgeConnects ==
  /\ ~bridged /\ bridged' = TRUE
  /\ Resters # {} /\ Sets(Rester, "asking", "")
  /\ UNCHANGED <<apiKey, writtenKeys, rustSays, keyOps, keyFaults, pushHistory>>

(* The connection is lost, with the Rust proxy or without it.              *)
BridgeCloses ==
  /\ bridged /\ bridged' = FALSE /\ BreaksPush
  /\ rustSays' \in {rustSays, "waits"}
  /\ UNCHANGED <<apiKey, writtenKeys, pushes, keyOps, pushHistory>>

KeyPushNext ==
  \/ \E q \in Quotas : MakesKey(q) \/ LimitsKey(q)
  \/ DropsKey \/ RelabelsKey \/ RouteReturns \/ BridgeConnects \/ BridgeCloses
  \/ \E d \in {-1, 1} : ChargesKey(d)
  \/ \E s \in KeySyncs : ReadsKeys(s) \/ ReadsNoKeys(s) \/ SyncFails(s) \/ SendsKeys(s)

KeyPushSpec == KeyPushInit /\ [][KeyPushNext]_pushVars

-----------------------------------------------------------------------------
\* Nothing that was started is still to come.
KeysSettled == bridged /\ writtenKeys = 0 /\ Resters = KeySyncs

\* The key as it was when the configuration in force was read.
KeyThen == IF Made(apiKey) THEN [apiKey EXCEPT !.used = @ - since] ELSE apiKey

(* Once the routes and their syncs are through, the Rust proxy admits,     *)
(* refuses or does not know a key exactly as the TypeScript gateway does,  *)
(* less what was charged since the last sync read the keys, and but for a  *)
(* quota of 0, which exhausts no key there (rust-bridge.ts 422): whatever  *)
(* the order of writes, syncs and lost connections, unless a sync sent     *)
(* what it read after a later one had, or its queries failed.              *)
KeysAdmittedAlike ==
  KeysSettled /\ keyLapses = {} =>
    rustSays = IF Made(apiKey) /\ apiKey.quota = 0 THEN "open" ELSE Authenticated(KeyThen)
=============================================================================
