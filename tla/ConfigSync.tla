----------------------------- MODULE ConfigSync -----------------------------
(***************************************************************************)
(* How a change made in the console reaches the Rust proxy. A handler of   *)
(* console-ui.ts writes the database and calls syncConfigToRust without    *)
(* awaiting it; the sync reads providers, aliases and rules, the settings  *)
(* (through the five-second cache of gateway-failover.ts and               *)
(* gateway-timeouts.ts), then the API keys, and sends one full snapshot.   *)
(* Rust installs the snapshots in the order it gets them; its requests     *)
(* wait for the first one.                                                 *)
(*                                                                         *)
(* A part of the configuration is the number of times it was written; the  *)
(* tables are those of providers, aliases, rules and API keys. The         *)
(* two settings caches follow one protocol: one of them is modelled.       *)
(***************************************************************************)
EXTENDS Naturals, Sequences, FiniteSets

CONSTANTS
  Admins,    \* console handlers at work
  Syncs,     \* calls of syncConfigToRust in flight
  TTL,       \* SETTINGS_CACHE_TTL_MS
  MaxWrites, \* bound: writes
  MaxClock,  \* bound: time
  MaxDrops   \* bound: lost connections, crashes of Rust and failed queries

ASSUME BoundsAssumption ==
  /\ IsFiniteSet(Admins) /\ IsFiniteSet(Syncs)
  /\ {TTL, MaxWrites, MaxClock, MaxDrops} \subseteq Nat /\ TTL > 0

VARIABLES
  clock,
  db,         \* the parts as stored
  overwritten,\* history: when each version of the settings stopped being stored
  cache,      \* the cached settings and their loadedAt
  admin,      \* what each handler is doing
  task,       \* each sync, and the gateway's read of the settings
  connected,  \* the bridge
  channel,    \* snapshots written to the socket
  config,     \* Rust's routing table
  synced,     \* Rust: config_synced
  toNotify,   \* Rust: config_synced is set, notify_waiters to be called
  request,    \* Rust: a request in wait_for_config_sync
  drops,      \* history: faults so far
  tainted     \* history: Rust may lack a write for a reason the code admits

vars == <<clock, db, overwritten, cache, admin, task, connected, channel, config, synced,
          toNotify, request, drops, tainted>>
rustVars == <<config, synced, toNotify, request>>

Parts == {"tables", "settings"}
None == MaxWrites + 1       \* a value not read yet, or not there
NoKeys == MaxWrites + 2     \* tables with the empty key list of a failed query
NoConfig == [p \in Parts |-> None]
Never == MaxClock + 1
\* `elders` are the syncs that were in flight when this one started; one of
\* them that is sent later than this one is `late`.
Idle == [pc |-> "idle", elders |-> {}, late |-> FALSE, at |-> 0,
         tables |-> None, settings |-> None]
Resting == [pc |-> "idle", part |-> "tables", at |-> 0, v |-> 0]

Active(t) == task[t].pc # "idle"

-----------------------------------------------------------------------------
Init ==
  /\ clock = 0
  /\ db = [p \in Parts |-> 0]
  /\ overwritten = [v \in 0..MaxWrites |-> Never]
  /\ cache = [view |-> None, at |-> 0]
  /\ admin = [a \in Admins |-> Resting]
  /\ task = [t \in Syncs |-> Idle]
  /\ connected = FALSE
  /\ channel = <<>>
  /\ config = NoConfig
  /\ synced = FALSE
  /\ toNotify = FALSE
  /\ request = "arrives"
  /\ drops = 0
  /\ tainted = {}

Tick ==
  /\ clock < MaxClock
  /\ clock' = clock + 1
  /\ UNCHANGED <<db, overwritten, cache, admin, task, connected, channel, rustVars,
                 drops, tainted>>

Writing == Cardinality({a \in Admins : admin[a].pc = "writing"})
MayWrite == db["tables"] + db["settings"] + Writing < MaxWrites

(* A handler has validated its input; updatedAt is taken before the write. *)
Submits(a, part) ==
  /\ admin[a].pc = "idle"
  /\ a = CHOOSE b \in Admins : admin[b].pc = "idle"
  /\ MayWrite
  /\ admin' = [admin EXCEPT ![a] = [Resting EXCEPT !.pc = "writing", !.part = part, !.at = clock]]
  /\ UNCHANGED <<clock, db, overwritten, cache, task, connected, channel, rustVars,
                 drops, tainted>>

Stores(part) ==
  /\ db' = [db EXCEPT ![part] = @ + 1]
  /\ overwritten' = IF part = "settings" THEN [overwritten EXCEPT ![db[part]] = clock]
                                         ELSE overwritten

(* The database commits the handler's write.                               *)
Writes(a) ==
  /\ admin[a].pc = "writing"
  /\ Stores(admin[a].part)
  /\ admin' = [admin EXCEPT ![a].pc = "written", ![a].v = db[admin[a].part] + 1]
  /\ UNCHANGED <<clock, cache, task, connected, channel, rustVars, drops, tainted>>

FreeSync(t) == LET free == {u \in Syncs : ~Active(u)}
               IN free # {} /\ t = CHOOSE u \in free : TRUE

Fresh(c) == c.view # None /\ clock - c.at < TTL

(* A sync begins in slot t: a fresh settings view c is taken at once, else *)
(* the query for it is sent, with `now` already taken.                     *)
Begun(t, c) ==
  [task EXCEPT ![t] = [Idle EXCEPT !.pc = "querying",
                                   !.elders = {u \in Syncs : Active(u)},
                                   !.settings = IF Fresh(c) THEN c.view ELSE None,
                                   !.at = IF Fresh(c) THEN 0 ELSE clock]]
BeginsSync(t, c) ==
  /\ FreeSync(t)
  /\ IF connected THEN task' = Begun(t, c) ELSE UNCHANGED task

\* The settings this handler caches have been overwritten meanwhile.
Overtaken(a) == admin[a].part = "settings" /\ admin[a].v < db["settings"]

\* Mutant: the handler does not sync.
FinishesQuietly(a, t) ==
  /\ admin[a].pc = "written"
  /\ FreeSync(t)
  /\ admin' = [admin EXCEPT ![a] = Resting]
  /\ cache' = IF admin[a].part = "settings" THEN [view |-> admin[a].v, at |-> admin[a].at]
                                            ELSE cache
  /\ tainted' = IF Overtaken(a) THEN tainted \cup {"settings"} ELSE tainted
  /\ UNCHANGED <<clock, db, overwritten, task, connected, channel, rustVars, drops>>

(* It goes on: the settings it wrote are cached, and a sync is started and *)
(* not awaited.                                                            *)
Finishes(a, t) ==
  /\ admin[a].pc = "written"
  /\ admin' = [admin EXCEPT ![a] = Resting]
  /\ cache' = IF admin[a].part = "settings" THEN [view |-> admin[a].v, at |-> admin[a].at]
                                            ELSE cache
  /\ tainted' = IF Overtaken(a) THEN tainted \cup {"settings"} ELSE tainted
  /\ BeginsSync(t, cache')
  /\ UNCHANGED <<clock, db, overwritten, connected, channel, rustVars, drops>>

(* The daily model sync and the metadata overrides write and do not sync.  *)
WritesUnsynced ==
  /\ MayWrite
  /\ Stores("tables")
  /\ tainted' = tainted \cup {"tables"}
  /\ UNCHANGED <<clock, cache, admin, task, connected, channel, rustVars, drops>>

-----------------------------------------------------------------------------
(* The database answers the queries of buildSyncConfigPayload.             *)
Queries(t) ==
  /\ task[t].pc = "querying"
  /\ task' = [task EXCEPT ![t].tables = db["tables"],
                          ![t].pc = IF task[t].settings = None THEN "answered" ELSE "reading",
                          ![t].settings = IF @ = None THEN db["settings"] ELSE @]
  /\ UNCHANGED <<clock, db, overwritten, cache, admin, connected, channel, rustVars,
                 drops, tainted>>

\* Mutant: the view is taken for loaded when it was cached.
CachesSettingsLate(t) ==
  /\ task[t].pc = "answered"
  /\ cache' = [view |-> task[t].settings, at |-> clock]
  /\ tainted' = IF task[t].settings < db["settings"] THEN tainted \cup {"settings"} ELSE tainted
  /\ task' = [task EXCEPT ![t].pc = "reading"]
  /\ UNCHANGED <<clock, db, overwritten, admin, connected, channel, rustVars, drops>>

(* The answer is cached with the time of the call, over whatever an update *)
(* has cached meanwhile.                                                   *)
CachesSettings(t) ==
  /\ task[t].pc = "answered"
  /\ cache' = [view |-> task[t].settings, at |-> task[t].at]
  /\ tainted' = IF task[t].settings < db["settings"] THEN tainted \cup {"settings"} ELSE tainted
  /\ task' = [task EXCEPT ![t].pc = "reading"]
  /\ UNCHANGED <<clock, db, overwritten, admin, connected, channel, rustVars, drops>>

(* The query fails: the old view is returned, or the defaults (version 0). *)
SettingsFail(t) ==
  /\ task[t].pc = "querying" /\ task[t].settings = None
  /\ drops < MaxDrops /\ drops' = drops + 1
  /\ task' = [task EXCEPT ![t].tables = db["tables"],
                          ![t].pc = "reading",
                          ![t].settings = IF cache.view # None THEN cache.view ELSE 0]
  /\ tainted' = tainted \cup {"settings"}
  /\ UNCHANGED <<clock, db, overwritten, cache, admin, connected, channel, rustVars>>

\* The sync in slot t is over; its elders come late if t was sent.
Over(t, sent) == [u \in Syncs |->
  IF u = t THEN Idle
  ELSE [task[u] EXCEPT !.elders = @ \ {t}, !.late = @ \/ (sent /\ u \in task[t].elders)]]

(* The keys have been read: a failed query is taken for an empty list,     *)
(* with which Rust accepts no key at all.                                  *)
Snapshot(t, keys) ==
  [tables |-> IF keys THEN task[t].tables ELSE NoKeys, settings |-> task[t].settings]

(* sendMessage: dropped if the bridge is not connected any more. A late    *)
(* sync puts Rust back to what it read.                                    *)
Sends(t, keys) ==
  /\ task[t].pc = "reading"
  /\ task' = Over(t, connected)
  /\ keys \/ drops < MaxDrops
  /\ drops' = IF keys THEN drops ELSE drops + 1
  /\ IF connected
       THEN /\ channel' = Append(channel, Snapshot(t, keys))
            /\ tainted' = tainted \cup (IF task[t].late THEN Parts ELSE {})
                                  \cup (IF keys THEN {} ELSE {"tables"})
       ELSE UNCHANGED <<channel, tainted>>
  /\ UNCHANGED <<clock, db, overwritten, cache, admin, connected, rustVars>>

-----------------------------------------------------------------------------
(* The bridge connects and syncs.                                          *)
Connects(t) ==
  /\ ~connected
  /\ FreeSync(t)
  /\ connected' = TRUE
  /\ task' = Begun(t, cache)
  /\ UNCHANGED <<clock, db, overwritten, cache, admin, channel, rustVars, drops, tainted>>

(* The connection is lost with the frames not read yet.                    *)
Disconnects ==
  /\ connected
  /\ drops < MaxDrops /\ drops' = drops + 1
  /\ connected' = FALSE
  /\ channel' = <<>>
  /\ UNCHANGED <<clock, db, overwritten, cache, admin, task, rustVars, tainted>>

(* The proxy dies, and the connection with it; another one starts.         *)
RustCrashes ==
  /\ drops < MaxDrops /\ drops' = drops + 1
  /\ connected' = FALSE
  /\ channel' = <<>>
  /\ config' = NoConfig
  /\ synced' = FALSE
  /\ toNotify' = FALSE
  /\ request' = "arrives"
  /\ UNCHANGED <<clock, db, overwritten, cache, admin, task, tainted>>

(* main.rs: the next snapshot is installed, and mark_config_synced sets    *)
(* the flag and then notifies.                                             *)
Installs ==
  /\ channel # <<>> /\ ~toNotify
  /\ config' = Head(channel)
  /\ channel' = Tail(channel)
  /\ synced' = TRUE
  /\ toNotify' = TRUE
  /\ UNCHANGED <<clock, db, overwritten, cache, admin, task, connected, request, drops,
                 tainted>>

Notifies ==
  /\ toNotify
  /\ toNotify' = FALSE
  /\ request' = IF request \in {"enabled", "parked"} THEN "woken" ELSE request
  /\ UNCHANGED <<clock, db, overwritten, cache, admin, task, connected, channel, config,
                 synced, drops, tainted>>

\* Mutant: the waiter is registered only when it parks.
WaitsUnregistered ==
  /\ CASE request \in {"arrives", "woken"} -> request' = IF synced THEN "served" ELSE "loop"
       [] request = "loop" -> request' = IF synced THEN "served" ELSE "late"
       [] request = "late" -> request' = "parked"
       [] OTHER -> FALSE
  /\ UNCHANGED <<clock, db, overwritten, cache, admin, task, connected, channel, config,
                 synced, toNotify, drops, tainted>>

(* wait_for_config_sync_state: check, register, check again, park.         *)
Waits ==
  /\ CASE request = "arrives" -> request' = IF synced THEN "served" ELSE "loop"
       [] request \in {"loop", "woken"} -> request' = "enabled"
       [] request = "enabled" -> request' = IF synced THEN "served" ELSE "parked"
       [] OTHER -> FALSE
  /\ UNCHANGED <<clock, db, overwritten, cache, admin, task, connected, channel, config,
                 synced, toNotify, drops, tainted>>

Next ==
  \/ Tick \/ WritesUnsynced \/ Disconnects \/ RustCrashes \/ Installs \/ Notifies \/ Waits
  \/ \E a \in Admins : \/ \E part \in Parts : Submits(a, part)
                       \/ Writes(a)
                       \/ \E t \in Syncs : Finishes(a, t)
  \/ \E t \in Syncs : \/ Queries(t) \/ CachesSettings(t) \/ SettingsFail(t) \/ Connects(t)
                      \/ \E keys \in BOOLEAN : Sends(t, keys)

Spec == Init /\ [][Next]_vars

-----------------------------------------------------------------------------
Quiet ==
  /\ connected /\ channel = <<>>
  /\ \A a \in Admins : admin[a].pc = "idle"
  /\ \A t \in Syncs : ~Active(t)

(* When everything started is over, Rust runs the stored configuration,    *)
(* whatever interleaving of writes, syncs, lost connections and crashes    *)
(* led here, except for what the history names: a model sync or override   *)
(* that nobody pushes, a sync overtaken by a later one, a settings view    *)
(* cached over a newer one, a failed query.                                *)
SyncedWhenQuiet == Quiet => \A p \in Parts \ tainted : config[p] = db[p]

(* A cached view is never returned once the settings it shows have been    *)
(* overwritten for the length of the TTL, although loads and updates of    *)
(* several callers overtake each other.                                    *)
StaleAtMostTTL ==
  Fresh(cache) /\ overwritten[cache.view] <= clock => clock - overwritten[cache.view] < TTL

(* No wakeup is lost: a request parked although the first configuration   *)
(* is installed is one that notify_waiters is about to wake.               *)
NoLostWakeup == request = "parked" /\ synced => toNotify
=============================================================================
