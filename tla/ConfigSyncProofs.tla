-------------------------- MODULE ConfigSyncProofs --------------------------
(***************************************************************************)
(* Proofs about ConfigSync, for any number of console handlers and syncs,  *)
(* any TTL and any bounds: that Rust ends with the stored configuration,   *)
(* that a settings view is never older than the TTL, and that no wakeup is *)
(* lost.                                                                   *)
(***************************************************************************)
EXTENDS ConfigSync, FiniteSetTheorems, SequenceTheorems, TLAPS

Config == [tables : Nat, settings : Nat]
Admin == [pc : {"idle", "writing", "written"}, part : Parts, at : Nat, v : Nat]
Task == [pc : {"idle", "querying", "answered", "reading"}, elders : SUBSET Syncs,
         late : BOOLEAN, at : Nat, tables : Nat, settings : Nat]

\* What the handlers may still write is within the bound.
Budget == db["tables"] + db["settings"] + Writing <= MaxWrites

TypeOK ==
  /\ clock \in 0..MaxClock
  /\ db \in [Parts -> Nat] /\ Budget
  /\ overwritten \in [0..MaxWrites -> Nat]
  /\ cache \in [view : Nat, at : Nat]
  /\ admin \in [Admins -> Admin]
  /\ task \in [Syncs -> Task]
  /\ connected \in BOOLEAN
  /\ channel \in Seq(Config)
  /\ config \in Config
  /\ synced \in BOOLEAN /\ toNotify \in BOOLEAN
  /\ request \in {"arrives", "loop", "enabled", "parked", "woken", "served"}
  /\ drops \in Nat
  /\ tainted \subseteq Parts

-----------------------------------------------------------------------------
(* Dates                                                                   *)

\* What is stored, and what was never stored, is not overwritten.
Overwritten ==
  \A v \in 0..MaxWrites : v >= db["settings"] => overwritten[v] = Never

\* The settings of version v were stored at the time `at` or later.
StoredSince(v, at) == v <= db["settings"] /\ at <= clock /\ at <= overwritten[v]

\* The time a view is cached with is one before the view was overwritten; so is the time
\* that a handler or a query takes along to cache its view with.
CacheDated == cache.view # None => StoredSince(cache.view, cache.at)
WriteDated(a) ==
  /\ admin[a].pc = "writing" => admin[a].at <= clock
  /\ admin[a].pc = "written" /\ admin[a].part = "settings" => StoredSince(admin[a].v, admin[a].at)
ReadDated(t) ==
  /\ task[t].pc = "querying" => task[t].at <= clock
  /\ task[t].pc = "answered" => StoredSince(task[t].settings, task[t].at)
Dated ==
  /\ CacheDated
  /\ \A a \in Admins : WriteDated(a)
  /\ \A t \in Syncs : ReadDated(t)

-----------------------------------------------------------------------------
(* Syncs                                                                   *)

\* The elders of a sync are in flight, older, and so are theirs.
Aged ==
  \A t, u \in Syncs : t \in task[u].elders =>
    /\ Active(t) /\ Active(u)
    /\ u \notin task[t].elders
    /\ task[t].elders \subseteq task[u].elders

\* A sync has read all parts when it reads the keys, and the tables only then.
Reading ==
  \A t \in Syncs :
    /\ task[t].pc \in {"answered", "reading"} => task[t].tables # None /\ task[t].settings # None
    /\ task[t].pc = "querying" => task[t].tables = None

\* A sync will send the part as it is stored, and not too late.
Current(t, p) == Active(t) /\ ~task[t].late /\ task[t][p] \in {None, db[p]}

\* A sync will send the part as it was, and before the taint.
Behind(t, p) == Active(t) /\ ~task[t].late /\ task[t][p] \notin {None, db[p]}

\* A handler will start a sync that reads the part as it is stored.
Promised(p) ==
  \E a \in Admins : /\ admin[a].pc = "written"
                    /\ p = "settings" => admin[a].part = p /\ admin[a].v = db[p]

\* What Rust was last sent.
Latest(p) == IF channel = <<>> THEN config[p] ELSE channel[Len(channel)][p]

\* The cached settings are those stored, or will be.
CacheCurrent ==
  "settings" \in tainted \/ cache.view \in {None, db["settings"]} \/ Promised("settings")

\* Rust has been sent the part as it is stored, or will be, after all that is older.
OnItsWay(p) ==
  /\ Latest(p) = db[p] \/ \E t \in Syncs : Current(t, p)
  /\ \A t \in Syncs : Behind(t, p) => \E u \in Syncs : Current(u, p) /\ t \in task[u].elders

Delivered == connected => \A p \in Parts \ tainted : Promised(p) \/ OnItsWay(p)

IInv ==
  /\ TypeOK /\ NoLostWakeup
  /\ Overwritten /\ Dated
  /\ Aged /\ Reading
  /\ CacheCurrent /\ Delivered

-----------------------------------------------------------------------------
(* Types                                                                   *)

WritingSet == {a \in Admins : admin[a].pc = "writing"}

LEMMA WritingCount == IsFiniteSet(WritingSet) /\ Writing = Cardinality(WritingSet) /\ Writing \in Nat
<1>1. IsFiniteSet(Admins) /\ WritingSet \in SUBSET Admins
  BY BoundsAssumption DEF WritingSet
<1>2. IsFiniteSet(WritingSet)
  BY <1>1, FS_Subset
<1> QED BY <1>2, FS_CardinalityType DEF Writing, WritingSet

\* What handlers are writing is counted.
LEMMA WritingMore ==
  ASSUME NEW a \in Admins, WritingSet' = WritingSet \cup {a}, a \notin WritingSet
  PROVE  Writing' = Writing + 1
<1>1. Cardinality(WritingSet \cup {a}) = Cardinality(WritingSet) + 1
  BY WritingCount, FS_AddElement
<1> QED BY <1>1, WritingCount DEF Writing, WritingSet

LEMMA WritingLess ==
  ASSUME NEW a \in Admins, WritingSet' = WritingSet \ {a}, a \in WritingSet
  PROVE  Writing' = Writing - 1
<1>1. Cardinality(WritingSet \ {a}) = Cardinality(WritingSet) - 1
  BY WritingCount, FS_RemoveElement
<1> QED BY <1>1, WritingCount DEF Writing, WritingSet

LEMMA BegunType ==
  ASSUME TypeOK, NEW t \in Syncs, NEW c \in [view : Nat, at : Nat]
  PROVE  Begun(t, c) \in [Syncs -> Task]
<1>1. None \in Nat /\ clock \in Nat
  BY BoundsAssumption DEF TypeOK, None
<1> QED BY <1>1 DEF TypeOK, Begun, Idle, Task

LEMMA TypeInit == Init => TypeOK
<1> SUFFICES ASSUME Init PROVE TypeOK
  OBVIOUS
<1>1. {None, Never, MaxWrites, MaxClock} \subseteq Nat
  BY BoundsAssumption DEF None, Never
<1>2. WritingSet = {}
  BY DEF Init, WritingSet, Resting
<1>3. Writing = 0
  BY <1>2, WritingCount, FS_EmptySet
<1>4. Budget
  BY <1>1, <1>3 DEF Budget, Init, Parts
<1>5. channel \in Seq(Config)
  BY DEF Init
<1>6. config \in Config
  BY <1>1 DEF Init, NoConfig, Config, Parts
<1>7. admin \in [Admins -> Admin] /\ task \in [Syncs -> Task]
  BY <1>1 DEF Init, Admin, Task, Idle, Resting, Parts
<1>8. cache \in [view : Nat, at : Nat] /\ overwritten \in [0..MaxWrites -> Nat]
  BY <1>1 DEF Init
<1>9. clock \in 0..MaxClock /\ db \in [Parts -> Nat] /\ drops \in Nat /\ tainted \subseteq Parts
  BY <1>1 DEF Init
<1> QED BY <1>4, <1>5, <1>6, <1>7, <1>8, <1>9 DEF Init, TypeOK

\* Who does not touch the handlers and the tables stays within the bound.
LEMMA BudgetKept ==
  ASSUME TypeOK, UNCHANGED db, WritingSet' = WritingSet
  PROVE  Budget'
<1>1. Writing' = Writing
  BY WritingCount DEF Writing, WritingSet
<1> QED BY <1>1 DEF TypeOK, Budget

LEMMA TypeStep == TypeOK /\ [Next]_vars => TypeOK'
<1> SUFFICES ASSUME TypeOK, [Next]_vars PROVE TypeOK'
  OBVIOUS
<1>n. /\ None \in Nat /\ NoKeys \in Nat /\ MaxClock \in Nat /\ MaxWrites \in Nat
      /\ NoConfig \in Config
  BY BoundsAssumption DEF None, NoKeys, NoConfig, Config, Parts
<1>w. Writing \in Nat /\ db["tables"] \in Nat /\ db["settings"] \in Nat
  BY WritingCount DEF TypeOK, Parts
<1>c. clock \in Nat /\ task \in [Syncs -> Task] /\ admin \in [Admins -> Admin]
  BY <1>n DEF TypeOK
<1>1. CASE Tick
  <2>1. Budget'
    BY <1>1, BudgetKept DEF Tick, WritingSet
  <2> QED BY <1>1, <1>n, <2>1 DEF Tick, rustVars, TypeOK
<1>2. ASSUME NEW a \in Admins, NEW part \in Parts, Submits(a, part)
      PROVE  TypeOK'
  <2>1. WritingSet' = WritingSet \cup {a} /\ a \notin WritingSet
    BY <1>2, <1>c DEF Submits, WritingSet
  <2>2. Writing' = Writing + 1
    BY <2>1, WritingMore
  <2>3. Budget'
    BY <1>2, <1>n, <1>w, <2>2 DEF Submits, Budget, MayWrite
  <2>4. [Resting EXCEPT !.pc = "writing", !.part = part, !.at = clock] \in Admin
    BY <1>c DEF Resting, Admin, Parts
  <2>5. admin' \in [Admins -> Admin]
    BY <1>2, <1>c, <2>4 DEF Submits
  <2> QED BY <1>2, <2>3, <2>5 DEF Submits, rustVars, TypeOK
<1>3. ASSUME NEW a \in Admins, Writes(a)
      PROVE  TypeOK'
  <2>1. WritingSet' = WritingSet \ {a} /\ a \in WritingSet
    BY <1>3, <1>c DEF Writes, WritingSet
  <2>2. Writing' = Writing - 1
    BY <2>1, WritingLess
  <2>3. admin[a].part \in Parts /\ db' = [db EXCEPT ![admin[a].part] = db[admin[a].part] + 1]
    BY <1>3, <1>c DEF Writes, Stores, Admin
  <2>4. db' \in [Parts -> Nat]
    BY <2>3 DEF TypeOK
  <2>5. db'["tables"] + db'["settings"] = db["tables"] + db["settings"] + 1
    BY <2>3, <1>w DEF TypeOK, Parts
  <2>6. Budget'
    BY <1>w, <1>n, <2>2, <2>5 DEF TypeOK, Budget
  <2>7. overwritten' \in [0..MaxWrites -> Nat]
    BY <1>3, <1>c DEF Writes, Stores, TypeOK
  <2>8. [admin[a] EXCEPT !.pc = "written", !.v = db[admin[a].part] + 1] \in Admin
    <3>1. db[admin[a].part] + 1 \in Nat /\ admin[a] \in Admin
      BY <1>c, <2>3 DEF TypeOK
    <3> QED BY <3>1 DEF Admin
  <2>9. admin' \in [Admins -> Admin]
    BY <1>3, <1>c, <2>8 DEF Writes
  <2> QED BY <1>3, <2>4, <2>6, <2>7, <2>9 DEF Writes, rustVars, TypeOK
<1>4. ASSUME NEW a \in Admins, NEW t \in Syncs, Finishes(a, t)
      PROVE  TypeOK'
  <2>1. Resting \in Admin
    BY DEF Admin, Resting, Parts
  <2>2. cache' \in [view : Nat, at : Nat] /\ admin' \in [Admins -> Admin]
    BY <1>4, <1>c, <2>1 DEF Finishes, Admin, TypeOK
  <2>3. task' \in [Syncs -> Task]
    BY <1>4, <1>c, <2>2, BegunType DEF Finishes, BeginsSync
  <2>4. WritingSet' = WritingSet
    BY <1>4, <1>c DEF Finishes, WritingSet, Resting
  <2>5. Budget'
    BY <1>4, <2>4, BudgetKept DEF Finishes
  <2>6. tainted' \subseteq Parts
    BY <1>4 DEF Finishes, Parts, TypeOK
  <2> QED BY <1>4, <2>2, <2>3, <2>5, <2>6 DEF Finishes, rustVars, TypeOK
<1>5. CASE WritesUnsynced
  <2>1. db' = [db EXCEPT !["tables"] = db["tables"] + 1] /\ overwritten' = overwritten
    BY <1>5 DEF WritesUnsynced, Stores
  <2>2. db' \in [Parts -> Nat]
    BY <1>w, <2>1 DEF TypeOK, Parts
  <2>3. db'["tables"] + db'["settings"] = db["tables"] + db["settings"] + 1
    BY <1>w, <2>1 DEF TypeOK, Parts
  <2>4. Writing' = Writing
    BY <1>5 DEF WritesUnsynced, Writing
  <2>5. Budget'
    BY <1>5, <1>w, <1>n, <2>3, <2>4 DEF WritesUnsynced, MayWrite, Budget
  <2> QED BY <1>5, <2>1, <2>2, <2>5 DEF WritesUnsynced, rustVars, Parts, TypeOK
<1>6. ASSUME NEW t \in Syncs, Queries(t)
      PROVE  TypeOK'
  <2>1. [task[t] EXCEPT !.tables = db["tables"],
                        !.pc = IF task[t].settings = None THEN "answered" ELSE "reading",
                        !.settings = IF @ = None THEN db["settings"] ELSE @] \in Task
    <3>1. task[t] \in Task
      BY <1>c
    <3> QED BY <3>1, <1>w DEF Task
  <2>2. task' \in [Syncs -> Task]
    BY <1>6, <1>c, <2>1 DEF Queries
  <2>3. Budget'
    BY <1>6, BudgetKept DEF Queries, WritingSet
  <2> QED BY <1>6, <2>2, <2>3 DEF Queries, rustVars, TypeOK
<1>7. ASSUME NEW t \in Syncs, CachesSettings(t)
      PROVE  TypeOK'
  <2>1. [task[t] EXCEPT !.pc = "reading"] \in Task
    BY <1>c DEF Task
  <2>2. task' \in [Syncs -> Task]
    BY <1>7, <1>c, <2>1 DEF CachesSettings
  <2>3. Budget'
    BY <1>7, BudgetKept DEF CachesSettings, WritingSet
  <2>4. cache' \in [view : Nat, at : Nat]
    BY <1>7, <1>c DEF CachesSettings, Task
  <2> QED BY <1>7, <2>2, <2>3, <2>4 DEF CachesSettings, rustVars, Parts, TypeOK
<1>8. ASSUME NEW t \in Syncs, SettingsFail(t)
      PROVE  TypeOK'
  <2>1. (IF cache.view # None THEN cache.view ELSE 0) \in Nat
    BY DEF TypeOK
  <2>2. [task[t] EXCEPT !.tables = db["tables"], !.pc = "reading",
                        !.settings = IF cache.view # None THEN cache.view ELSE 0] \in Task
    <3>1. task[t] \in Task
      BY <1>c
    <3> QED BY <3>1, <1>w, <2>1 DEF Task
  <2>3. task' \in [Syncs -> Task]
    BY <1>8, <1>c, <2>2 DEF SettingsFail
  <2>4. Budget'
    BY <1>8, BudgetKept DEF SettingsFail, WritingSet
  <2> QED BY <1>8, <2>3, <2>4 DEF SettingsFail, rustVars, Parts, TypeOK
<1>9. ASSUME NEW t \in Syncs, Connects(t)
      PROVE  TypeOK'
  <2>1. task' \in [Syncs -> Task]
    BY <1>9, BegunType DEF Connects, TypeOK
  <2>2. Budget'
    BY <1>9, BudgetKept DEF Connects, WritingSet
  <2> QED BY <1>9, <2>1, <2>2 DEF Connects, rustVars, TypeOK
<1>10. ASSUME NEW t \in Syncs, NEW keys \in BOOLEAN, Sends(t, keys)
      PROVE  TypeOK'
  <2>1. Over(t, connected) \in [Syncs -> Task]
    <3>1. Idle \in Task
      BY <1>n DEF Idle, Task
    <3>2. ASSUME NEW u \in Syncs
          PROVE  [task[u] EXCEPT !.elders = @ \ {t},
                                 !.late = @ \/ (connected /\ u \in task[t].elders)] \in Task
      <4>1. task[u] \in Task /\ connected \in BOOLEAN
        BY <1>c DEF TypeOK
      <4>2. (task[u].late \/ (connected /\ u \in task[t].elders)) \in BOOLEAN
        OBVIOUS
      <4> QED BY <4>1, <4>2 DEF Task
    <3> QED BY <3>1, <3>2 DEF Over
  <2>2. task' \in [Syncs -> Task]
    BY <1>10, <2>1 DEF Sends
  <2>3. Snapshot(t, keys) \in Config
    BY <1>n, <1>c DEF Snapshot, Config, Task
  <2>4. Append(channel, Snapshot(t, keys)) \in Seq(Config)
    BY <2>3, AppendProperties DEF TypeOK
  <2>5. channel' \in Seq(Config) /\ tainted' \subseteq Parts
    BY <1>10, <2>4 DEF Sends, Parts, TypeOK
  <2>6. Budget'
    BY <1>10, BudgetKept DEF Sends, WritingSet
  <2>7. drops' \in Nat
    BY <1>10 DEF Sends, TypeOK
  <2> QED BY <1>10, <2>2, <2>5, <2>6, <2>7 DEF Sends, rustVars, TypeOK
<1>11. CASE Disconnects
  <2>1. Budget'
    BY <1>11, BudgetKept DEF Disconnects, WritingSet
  <2>2. <<>> \in Seq(Config) /\ drops' \in Nat
    BY <1>11 DEF Disconnects, TypeOK
  <2> QED BY <1>11, <2>1, <2>2 DEF Disconnects, rustVars, TypeOK
<1>12. CASE RustCrashes
  <2>1. Budget'
    BY <1>12, BudgetKept DEF RustCrashes, WritingSet
  <2>2. <<>> \in Seq(Config) /\ drops' \in Nat
    BY <1>12 DEF RustCrashes, TypeOK
  <2> QED BY <1>12, <1>n, <2>1, <2>2 DEF RustCrashes, TypeOK
<1>13. CASE Installs
  <2>1. Budget'
    BY <1>13, BudgetKept DEF Installs, WritingSet
  <2>2. Head(channel) \in Config /\ Tail(channel) \in Seq(Config)
    BY <1>13, HeadTailProperties DEF Installs, TypeOK
  <2> QED BY <1>13, <2>1, <2>2 DEF Installs, TypeOK
<1>14. CASE Notifies \/ Waits
  <2>1. Budget'
    BY <1>14, BudgetKept DEF Notifies, Waits, WritingSet
  <2> QED BY <1>14, <2>1 DEF Notifies, Waits, TypeOK
<1>15. CASE UNCHANGED vars
  <2>1. Budget'
    BY <1>15, BudgetKept DEF vars, WritingSet
  <2> QED BY <1>15, <2>1 DEF vars, rustVars, TypeOK
<1> QED BY <1>1, <1>2, <1>3, <1>4, <1>5, <1>6, <1>7, <1>8, <1>9, <1>10, <1>11, <1>12, <1>13,
           <1>14, <1>15 DEF Next

(* NoLostWakeup: a request parks only when it has seen that the flag is not *)
(* set, and setting it is followed by the wakeup.                          *)
LEMMA WakeupStep == TypeOK /\ NoLostWakeup /\ [Next]_vars => NoLostWakeup'
<1> SUFFICES ASSUME TypeOK, NoLostWakeup, [Next]_vars PROVE NoLostWakeup'
  OBVIOUS
<1> USE DEF NoLostWakeup, rustVars
<1>1. CASE Tick \/ WritesUnsynced \/ Disconnects \/ RustCrashes
  BY <1>1 DEF Tick, WritesUnsynced, Disconnects, RustCrashes
<1>2. CASE Installs \/ Notifies \/ Waits
  BY <1>2 DEF Installs, Notifies, Waits, TypeOK
<1>3. ASSUME NEW a \in Admins, \/ \E part \in Parts : Submits(a, part)
                               \/ Writes(a)
                               \/ \E t \in Syncs : Finishes(a, t)
      PROVE  NoLostWakeup'
  BY <1>3 DEF Submits, Writes, Finishes
<1>4. ASSUME NEW t \in Syncs, \/ Queries(t) \/ CachesSettings(t) \/ SettingsFail(t) \/ Connects(t)
                              \/ \E keys \in BOOLEAN : Sends(t, keys)
      PROVE  NoLostWakeup'
  BY <1>4 DEF Queries, CachesSettings, SettingsFail, Connects, Sends
<1>5. CASE UNCHANGED vars
  BY <1>5 DEF vars
<1> QED BY <1>1, <1>2, <1>3, <1>4, <1>5 DEF Next

-----------------------------------------------------------------------------
(* A write happens now: at no time before was another version stored.      *)
LEMMA StoresDated ==
  ASSUME TypeOK, Overwritten, NEW part \in Parts, Stores(part), UNCHANGED clock,
         db["settings"] < MaxWrites
  PROVE  /\ Overwritten'
         /\ \A v \in Nat, at \in Nat : StoredSince(v, at) => StoredSince(v, at)'
<1>1. /\ MaxWrites \in Nat /\ MaxClock \in Nat /\ clock \in Nat /\ db["settings"] \in Nat
      /\ Never \in Nat /\ clock < Never
  BY BoundsAssumption DEF TypeOK, Parts, Never
<1>2. db \in [Parts -> Nat] /\ overwritten \in [0..MaxWrites -> Nat]
  BY DEF TypeOK
<1>3. CASE part = "settings"
  <2>1. /\ db'["settings"] = db["settings"] + 1
        /\ overwritten' = [overwritten EXCEPT ![db["settings"]] = clock]
    BY <1>2, <1>3 DEF Stores
  <2>2. Overwritten'
    BY <1>1, <1>2, <2>1 DEF Overwritten, Never
  <2>3. ASSUME NEW v \in Nat, NEW at \in Nat, StoredSince(v, at)
        PROVE  StoredSince(v, at)'
    BY <1>1, <1>2, <2>1, <2>3 DEF StoredSince
  <2> QED BY <2>2, <2>3
<1>4. CASE part # "settings"
  BY <1>2, <1>4 DEF Stores, Overwritten, StoredSince, Never
<1> QED BY <1>3, <1>4

\* Nothing is written: the dates stay what they are, at whatever later time.
LEMMA DatesKept ==
  ASSUME TypeOK, Overwritten, UNCHANGED <<db, overwritten>>, clock <= clock', clock' \in Nat
  PROVE  /\ Overwritten'
         /\ \A v \in Nat, at \in Nat : StoredSince(v, at) => StoredSince(v, at)'
<1>1. clock \in Nat
  BY BoundsAssumption DEF TypeOK
<1> QED BY <1>1 DEF Overwritten, StoredSince, Never

\* What is stored now is stored since now.
LEMMA StoredNow ==
  ASSUME TypeOK, Overwritten, NEW at \in Nat, at <= clock
  PROVE  StoredSince(db["settings"], at)
<1>1. /\ clock \in 0..MaxClock /\ MaxClock \in Nat /\ MaxWrites \in Nat
      /\ db["settings"] \in Nat /\ db["tables"] \in Nat
  BY BoundsAssumption DEF TypeOK, Parts
<1>2. db["settings"] \in 0..MaxWrites
  BY <1>1, WritingCount DEF TypeOK, Budget
<1> QED BY <1>1, <1>2 DEF StoredSince, Overwritten, Never

SameDates(t) ==
  /\ task'[t].pc = task[t].pc
  /\ task'[t].at = task[t].at
  /\ task'[t].settings = task[t].settings

\* What is not touched stays dated.
LEMMA DatedFrame ==
  ASSUME TypeOK, Dated, clock <= clock', clock' \in Nat,
         \A v \in Nat, at \in Nat : StoredSince(v, at) => StoredSince(v, at)'
  PROVE  /\ cache' = cache => CacheDated'
         /\ \A a \in Admins : admin'[a] = admin[a] => WriteDated(a)'
         /\ \A t \in Syncs : SameDates(t) => ReadDated(t)'
<1>1. clock \in Nat
  BY BoundsAssumption DEF TypeOK
<1>2. cache' = cache => CacheDated'
  BY DEF TypeOK, Dated, CacheDated
<1>3. ASSUME NEW a \in Admins, admin'[a] = admin[a]
      PROVE  WriteDated(a)'
  <2>1. admin[a].at \in Nat /\ admin[a].v \in Nat
    BY DEF TypeOK, Admin
  <2>2. WriteDated(a)
    BY DEF Dated
  <2> QED BY <1>1, <1>3, <2>1, <2>2 DEF WriteDated
<1>4. ASSUME NEW t \in Syncs, SameDates(t)
      PROVE  ReadDated(t)'
  <2>1. task[t].at \in Nat /\ task[t].settings \in Nat
    BY DEF TypeOK, Task
  <2>2. ReadDated(t)
    BY DEF Dated
  <2> QED BY <1>1, <1>4, <2>1, <2>2 DEF ReadDated, SameDates
<1> QED BY <1>2, <1>3, <1>4

\* A sync that begins takes its time now.
LEMMA BegunDated ==
  ASSUME TypeOK, NEW t \in Syncs, NEW c, task' = Begun(t, c), UNCHANGED clock
  PROVE  /\ ReadDated(t)'
         /\ \A u \in Syncs : u # t => task'[u] = task[u]
<1>1. clock \in Nat
  BY BoundsAssumption DEF TypeOK
<1>2. task'[t].pc = "querying" /\ task'[t].at \in {0, clock}
  BY DEF TypeOK, Begun, Idle
<1>3. \A u \in Syncs : u # t => task'[u] = task[u]
  BY DEF TypeOK, Begun
<1> QED BY <1>1, <1>2, <1>3 DEF ReadDated

LEMMA DatedStep == TypeOK /\ Overwritten /\ Dated /\ [Next]_vars => Overwritten' /\ Dated'
<1> SUFFICES ASSUME TypeOK, Overwritten, Dated, [Next]_vars PROVE Overwritten' /\ Dated'
  OBVIOUS
<1>n. clock \in Nat /\ db["settings"] \in Nat /\ db["tables"] \in Nat /\ Writing \in Nat
      /\ MaxWrites \in Nat
  BY BoundsAssumption, WritingCount DEF TypeOK, Parts
<1>t. task \in [Syncs -> Task] /\ admin \in [Admins -> Admin] /\ cache \in [view : Nat, at : Nat]
  BY DEF TypeOK
<1>k. ASSUME UNCHANGED <<clock, db, overwritten>>
      PROVE  /\ Overwritten'
             /\ \A v \in Nat, at \in Nat : StoredSince(v, at) => StoredSince(v, at)'
             /\ cache' = cache => CacheDated'
             /\ \A a \in Admins : admin'[a] = admin[a] => WriteDated(a)'
             /\ \A t \in Syncs : SameDates(t) => ReadDated(t)'
             /\ \A t \in Syncs : task'[t] = task[t] => SameDates(t)
  <2>1. clock <= clock' /\ clock' \in Nat
    BY <1>n, <1>k
  <2>2. Overwritten' /\ \A v \in Nat, at \in Nat : StoredSince(v, at) => StoredSince(v, at)'
    BY <1>k, <2>1, DatesKept
  <2> QED BY <2>1, <2>2, DatedFrame DEF SameDates
<1>1. CASE Tick
  <2>1. clock <= clock' /\ clock' \in Nat /\ UNCHANGED <<db, overwritten, cache, admin, task>>
    BY <1>1, <1>n DEF Tick
  <2>2. Overwritten' /\ \A v \in Nat, at \in Nat : StoredSince(v, at) => StoredSince(v, at)'
    BY <2>1, DatesKept
  <2> QED BY <2>1, <2>2, DatedFrame DEF Dated, SameDates
<1>2. ASSUME NEW a \in Admins, NEW part \in Parts, Submits(a, part)
      PROVE  Overwritten' /\ Dated'
  <2>1. /\ UNCHANGED <<clock, db, overwritten, cache, task>>
        /\ \A b \in Admins : b # a => admin'[b] = admin[b]
        /\ admin'[a].pc = "writing" /\ admin'[a].at = clock
    BY <1>2, <1>t DEF Submits, Resting
  <2>2. WriteDated(a)'
    BY <1>n, <2>1 DEF WriteDated
  <2> QED BY <1>k, <2>1, <2>2 DEF Dated
<1>3. ASSUME NEW a \in Admins, Writes(a)
      PROVE  Overwritten' /\ Dated'
  <2>1. /\ Stores(admin[a].part)
        /\ UNCHANGED <<clock, cache, task>>
        /\ admin' = [admin EXCEPT ![a].pc = "written", ![a].v = db[admin[a].part] + 1]
        /\ admin[a].pc = "writing" /\ admin[a] \in Admin
    BY <1>3, <1>t DEF Writes
  <2>2. a \in WritingSet
    BY <2>1 DEF WritingSet
  <2>3. Writing # 0
    BY <2>2, WritingCount, FS_EmptySet
  <2>4. db["settings"] < MaxWrites
    BY <1>n, <2>3 DEF TypeOK, Budget
  <2>5. admin[a].part \in Parts /\ admin[a].at \in Nat /\ admin[a].at <= clock
    BY <2>1 DEF Admin, Dated, WriteDated
  <2>6. Overwritten' /\ \A v \in Nat, at \in Nat : StoredSince(v, at) => StoredSince(v, at)'
    BY <2>1, <2>4, <2>5, StoresDated
  <2>7. /\ cache' = cache => CacheDated'
        /\ \A b \in Admins : admin'[b] = admin[b] => WriteDated(b)'
        /\ \A t \in Syncs : SameDates(t) => ReadDated(t)'
    <3>1. clock <= clock' /\ clock' \in Nat
      BY <1>n, <2>1
    <3> QED BY <2>6, <3>1, DatedFrame
  <2>8. TypeOK'
    BY TypeStep
  <2>9. StoredSince(db["settings"], admin[a].at)'
    <3>1. admin'[a].at = admin[a].at
      BY <1>t, <2>1 DEF Admin
    <3>2. /\ MaxClock \in Nat /\ clock' \in 0..MaxClock /\ db'["settings"] \in 0..MaxWrites
      <4>2. MaxWrites \in Nat /\ MaxClock \in Nat
        BY BoundsAssumption
      <4>4. db' = [db EXCEPT ![admin[a].part] = @ + 1]
        BY <2>1 DEF Stores
      <4>5. db \in [Parts -> Nat] /\ "settings" \in Parts
        BY DEF TypeOK, Parts
      <4>6. db'["settings"] \in {db["settings"], db["settings"] + 1}
        BY <2>5, <4>4, <4>5
      <4>1. db'["settings"] <= MaxWrites /\ db'["settings"] \in Nat
        BY <2>4, <4>2, <4>5, <4>6
      <4>3. clock' \in 0..MaxClock
        BY <2>8 DEF TypeOK
      <4> QED BY <4>1, <4>2, <4>3
    <3>3. overwritten'[db'["settings"]] = Never
      <4>1. db'["settings"] >= db'["settings"]
        BY <3>2
      <4> QED BY <2>6, <3>2, <4>1 DEF Overwritten
    <3>4. admin[a].at <= clock'
      BY <2>1, <2>5
    <3>5. clock' <= Never
      BY <3>2 DEF Never
    <3>6. admin'[a].at <= clock' /\ admin'[a].at <= overwritten'[db'["settings"]]
      BY <2>5, <3>1, <3>2, <3>3, <3>4, <3>5 DEF Never
    <3>7. db'["settings"] <= db'["settings"]
      BY <3>2
    <3> QED BY <3>6, <3>7 DEF StoredSince
  <2>10. /\ admin'[a].pc = "written" /\ admin'[a].part = admin[a].part
         /\ admin'[a].at = admin[a].at /\ admin'[a].v = db[admin[a].part] + 1
         /\ \A b \in Admins : b # a => admin'[b] = admin[b]
    BY <1>t, <2>1 DEF Admin
  <2>11. admin[a].part = "settings" => db'["settings"] = db["settings"] + 1
    BY <2>1, <2>5 DEF Stores, TypeOK
  <2>12. WriteDated(a)'
    BY <2>9, <2>10, <2>11 DEF WriteDated
  <2> QED BY <2>1, <2>6, <2>7, <2>10, <2>12 DEF Dated, SameDates
<1>4. ASSUME NEW a \in Admins, NEW t \in Syncs, Finishes(a, t)
      PROVE  Overwritten' /\ Dated'
  <2>1. /\ UNCHANGED <<clock, db, overwritten>>
        /\ \A b \in Admins : b # a => admin'[b] = admin[b]
        /\ admin'[a].pc = "idle"
        /\ admin[a].pc = "written"
        /\ cache' = IF admin[a].part = "settings" THEN [view |-> admin[a].v, at |-> admin[a].at]
                                                  ELSE cache
        /\ task' = Begun(t, cache') \/ task' = task
    BY <1>4, <1>t DEF Finishes, BeginsSync, Resting
  <2>2. WriteDated(a)'
    BY <2>1 DEF WriteDated
  <2>3. admin[a].v \in Nat /\ admin[a].at \in Nat
    BY <1>t DEF Admin
  <2>4. CacheDated'
    BY <1>k, <2>1, <2>3 DEF Dated, WriteDated, CacheDated
  <2>5. \A u \in Syncs : ReadDated(u)'
    <3>1. CASE task' = Begun(t, cache')
      BY <1>k, <2>1, <3>1, BegunDated
    <3> QED BY <1>k, <2>1, <3>1
  <2> QED BY <1>k, <2>1, <2>2, <2>4, <2>5 DEF Dated
<1>5. CASE WritesUnsynced
  <2>1. Stores("tables") /\ UNCHANGED <<clock, cache, admin, task>>
    BY <1>5 DEF WritesUnsynced
  <2>2. db["settings"] < MaxWrites /\ "tables" \in Parts
    BY <1>5, <1>n DEF WritesUnsynced, MayWrite, Parts
  <2>3. Overwritten' /\ \A v \in Nat, at \in Nat : StoredSince(v, at) => StoredSince(v, at)'
    BY <2>1, <2>2, StoresDated
  <2> QED BY <1>n, <2>1, <2>3, DatedFrame DEF Dated, SameDates
<1>6. ASSUME NEW t \in Syncs, Queries(t)
      PROVE  Overwritten' /\ Dated'
  <2>1. /\ UNCHANGED <<clock, db, overwritten, cache, admin>>
        /\ task[t] \in Task /\ task[t].pc = "querying"
        /\ task' = [task EXCEPT ![t].tables = db["tables"],
                          ![t].pc = IF task[t].settings = None THEN "answered" ELSE "reading",
                          ![t].settings = IF @ = None THEN db["settings"] ELSE @]
    BY <1>6, <1>t DEF Queries
  <2>2. /\ \A u \in Syncs : u # t => task'[u] = task[u]
        /\ task'[t].at = task[t].at /\ task'[t].pc # "querying"
        /\ task'[t].pc = "answered" => task'[t].settings = db["settings"]
    BY <1>t, <2>1 DEF Task
  <2>3. task[t].at \in Nat /\ task[t].at <= clock
    BY <2>1 DEF Dated, ReadDated, Task
  <2>4. StoredSince(db["settings"], task[t].at)'
    BY <1>k, <1>n, <2>1, <2>3, <2>2, StoredNow
  <2>5. ReadDated(t)'
    BY <2>1, <2>2, <2>4 DEF ReadDated
  <2> QED BY <1>k, <2>1, <2>2, <2>5 DEF Dated
<1>7. ASSUME NEW t \in Syncs, CachesSettings(t)
      PROVE  Overwritten' /\ Dated'
  <2>1. /\ UNCHANGED <<clock, db, overwritten, admin>>
        /\ task[t] \in Task /\ task[t].pc = "answered"
        /\ cache' = [view |-> task[t].settings, at |-> task[t].at]
        /\ task' = [task EXCEPT ![t].pc = "reading"]
    BY <1>7, <1>t DEF CachesSettings
  <2>2. /\ \A u \in Syncs : u # t => task'[u] = task[u]
        /\ task'[t].pc = "reading"
    BY <1>t, <2>1 DEF Task
  <2>3. CacheDated'
    BY <1>k, <2>1 DEF Dated, ReadDated, CacheDated, Task
  <2>4. ReadDated(t)'
    BY <2>2 DEF ReadDated
  <2> QED BY <1>k, <2>1, <2>2, <2>3, <2>4 DEF Dated
<1>8. ASSUME NEW t \in Syncs, SettingsFail(t)
      PROVE  Overwritten' /\ Dated'
  <2>1. /\ UNCHANGED <<clock, db, overwritten, cache, admin>>
        /\ \A u \in Syncs : u # t => task'[u] = task[u]
        /\ task'[t].pc = "reading"
    BY <1>8, <1>t DEF SettingsFail, Task
  <2>2. ReadDated(t)'
    BY <2>1 DEF ReadDated
  <2> QED BY <1>k, <2>1, <2>2 DEF Dated
<1>9. ASSUME NEW t \in Syncs, Connects(t)
      PROVE  Overwritten' /\ Dated'
  <2>1. UNCHANGED <<clock, db, overwritten, cache, admin>> /\ task' = Begun(t, cache)
    BY <1>9 DEF Connects
  <2>2. ReadDated(t)' /\ \A u \in Syncs : u # t => task'[u] = task[u]
    BY <2>1, BegunDated
  <2> QED BY <1>k, <2>1, <2>2 DEF Dated
<1>10. ASSUME NEW t \in Syncs, NEW keys \in BOOLEAN, Sends(t, keys)
      PROVE  Overwritten' /\ Dated'
  <2>1. UNCHANGED <<clock, db, overwritten, cache, admin>> /\ task' = Over(t, connected)
    BY <1>10 DEF Sends
  <2>2. task'[t].pc = "idle"
    BY <2>1 DEF Over, Idle
  <2>3. ASSUME NEW u \in Syncs, u # t
        PROVE  SameDates(u)
    <3>1. task[u] \in Task
      BY <1>t
    <3> QED BY <2>1, <2>3, <3>1 DEF Over, Task, SameDates
  <2>4. ReadDated(t)'
    BY <2>2 DEF ReadDated
  <2> QED BY <1>k, <2>1, <2>3, <2>4 DEF Dated
<1>11. CASE Disconnects \/ RustCrashes \/ Installs \/ Notifies \/ Waits \/ UNCHANGED vars
  <2>1. UNCHANGED <<clock, db, overwritten, cache, admin, task>>
    BY <1>11 DEF Disconnects, RustCrashes, Installs, Notifies, Waits, vars
  <2> QED BY <1>k, <2>1 DEF Dated
<1> QED BY <1>1, <1>2, <1>3, <1>4, <1>5, <1>6, <1>7, <1>8, <1>9, <1>10, <1>11 DEF Next

-----------------------------------------------------------------------------
(* The ages of the syncs in flight, and what they have read                *)

\* The values stored are not mistaken for the absence of one.
LEMMA StoredIsValue ==
  ASSUME TypeOK, NEW p \in Parts
  PROVE  db[p] \in Nat /\ db[p] # None /\ db[p] # NoKeys
<1>0. db \in [Parts -> Nat]
  BY DEF TypeOK
<1>1. db["tables"] \in Nat /\ db["settings"] \in Nat /\ Writing \in Nat /\ MaxWrites \in Nat
  <2>1. "tables" \in Parts /\ "settings" \in Parts
    BY DEF Parts
  <2> QED BY <1>0, <2>1, BoundsAssumption, WritingCount
<1>2. db["tables"] <= MaxWrites /\ db["settings"] <= MaxWrites
  <2>1. db["tables"] + db["settings"] + Writing <= MaxWrites
    BY DEF TypeOK, Budget
  <2> QED BY <1>1, <2>1
<1>3. p = "tables" \/ p = "settings"
  BY DEF Parts
<1>4. db[p] \in Nat /\ db[p] <= MaxWrites
  BY <1>1, <1>2, <1>3
<1> QED BY <1>1, <1>4 DEF None, NoKeys

SameAge(t) == task'[t].pc # "idle" /\ task[t].pc # "idle" /\ task'[t].elders = task[t].elders

\* A sync that begins has all that are in flight for its elders, and has read no table yet.
LEMMA BegunAged ==
  ASSUME TypeOK, Aged, Reading, NEW t \in Syncs, ~Active(t), NEW c, task' = Begun(t, c)
  PROVE  Aged' /\ Reading'
<1>1. /\ task \in [Syncs -> Task]
      /\ task'[t].elders = {u \in Syncs : Active(u)}
      /\ task'[t].pc = "querying" /\ task'[t].tables = None
      /\ \A u \in Syncs : u # t => task'[u] = task[u]
  BY DEF TypeOK, Begun, Idle
<1>2. \A u \in Syncs : task[u].elders \subseteq Syncs
  BY <1>1 DEF Task
<1>3. Aged'
  BY <1>1, <1>2 DEF Aged, Active
<1>4. Reading'
  BY <1>1 DEF Reading
<1> QED BY <1>3, <1>4

\* A sync that goes on keeps its age, as the others do.
LEMMA GoesOnAged ==
  ASSUME Aged, NEW t \in Syncs, SameAge(t), \A u \in Syncs : u # t => task'[u] = task[u]
  PROVE  Aged'
BY DEF Aged, Active, SameAge

\* A sync that is over is nobody's elder.
LEMMA OverAged ==
  ASSUME TypeOK, Aged, Reading, NEW t \in Syncs, NEW sent \in BOOLEAN, task' = Over(t, sent)
  PROVE  Aged' /\ Reading'
<1>1. task'[t] = Idle
  BY DEF Over
<1>2. ASSUME NEW u \in Syncs, u # t
      PROVE  /\ task'[u].elders = task[u].elders \ {t}
             /\ task'[u].pc = task[u].pc
             /\ task'[u].tables = task[u].tables /\ task'[u].settings = task[u].settings
  <2>1. task[u] \in Task
    BY DEF TypeOK
  <2> QED BY <1>2, <2>1 DEF Over, Task
<1>3. Aged'
  BY <1>1, <1>2 DEF Aged, Active, Idle
<1>4. Reading'
  BY <1>1, <1>2 DEF Reading, Idle
<1> QED BY <1>3, <1>4

LEMMA AgedStep == TypeOK /\ Aged /\ Reading /\ [Next]_vars => Aged' /\ Reading'
<1> SUFFICES ASSUME TypeOK, Aged, Reading, [Next]_vars PROVE Aged' /\ Reading'
  OBVIOUS
<1>t. /\ task \in [Syncs -> Task] /\ \A t \in Syncs : task[t] \in Task
      /\ connected \in BOOLEAN
  BY DEF TypeOK
<1>d. db["tables"] # None /\ db["settings"] # None
  BY StoredIsValue DEF Parts
<1>1. ASSUME UNCHANGED task
      PROVE  Aged' /\ Reading'
  BY <1>1 DEF Aged, Active, Reading
<1>2. ASSUME NEW t \in Syncs, FreeSync(t)
      PROVE  ~Active(t)
  <2>1. DEFINE free == {u \in Syncs : ~Active(u)}
  <2>2. free # {} /\ t = CHOOSE u \in free : TRUE
    BY <1>2 DEF FreeSync
  <2>3. t \in free
    BY <2>2
  <2> QED BY <2>3
<1>3. ASSUME NEW a \in Admins, NEW t \in Syncs, Finishes(a, t)
      PROVE  Aged' /\ Reading'
  <2>1. FreeSync(t) /\ (task' = Begun(t, cache') \/ task' = task)
    BY <1>3 DEF Finishes, BeginsSync
  <2> QED BY <1>1, <1>2, <2>1, BegunAged
<1>4. ASSUME NEW t \in Syncs, Queries(t)
      PROVE  Aged' /\ Reading'
  <2>1. /\ \A u \in Syncs : u # t => task'[u] = task[u]
        /\ SameAge(t)
        /\ task'[t].pc # "querying" /\ task'[t].tables = db["tables"]
        /\ task'[t].settings = IF task[t].settings = None THEN db["settings"] ELSE task[t].settings
    BY <1>4, <1>t DEF Queries, SameAge, Task
  <2>2. Reading'
    BY <1>d, <2>1 DEF Reading
  <2> QED BY <2>1, <2>2, GoesOnAged
<1>5. ASSUME NEW t \in Syncs, CachesSettings(t)
      PROVE  Aged' /\ Reading'
  <2>1. /\ \A u \in Syncs : u # t => task'[u] = task[u]
        /\ SameAge(t)
        /\ task[t].pc = "answered" /\ task'[t].pc = "reading"
        /\ task'[t].tables = task[t].tables /\ task'[t].settings = task[t].settings
    BY <1>5, <1>t DEF CachesSettings, SameAge, Task
  <2>2. Reading'
    BY <2>1 DEF Reading
  <2> QED BY <2>1, <2>2, GoesOnAged
<1>6. ASSUME NEW t \in Syncs, SettingsFail(t)
      PROVE  Aged' /\ Reading'
  <2>1. /\ \A u \in Syncs : u # t => task'[u] = task[u]
        /\ SameAge(t)
        /\ task'[t].pc = "reading" /\ task'[t].tables = db["tables"]
        /\ task'[t].settings = IF cache.view # None THEN cache.view ELSE 0
    BY <1>6, <1>t DEF SettingsFail, SameAge, Task
  <2>2. task'[t].settings # None
    BY <2>1, BoundsAssumption DEF None
  <2>3. Reading'
    BY <1>d, <2>1, <2>2 DEF Reading
  <2> QED BY <2>1, <2>3, GoesOnAged
<1>7. ASSUME NEW t \in Syncs, Connects(t)
      PROVE  Aged' /\ Reading'
  BY <1>2, <1>7, BegunAged DEF Connects
<1>8. ASSUME NEW t \in Syncs, NEW keys \in BOOLEAN, Sends(t, keys)
      PROVE  Aged' /\ Reading'
  BY <1>8, <1>t, OverAged DEF Sends
<1>9. ASSUME NEW a \in Admins, Writes(a) \/ \E part \in Parts : Submits(a, part)
      PROVE  Aged' /\ Reading'
  BY <1>1, <1>9 DEF Writes, Submits
<1>10. CASE \/ Tick \/ WritesUnsynced \/ Disconnects \/ RustCrashes \/ Installs \/ Notifies
            \/ Waits \/ UNCHANGED vars
  BY <1>1, <1>10 DEF Tick, WritesUnsynced, Disconnects, RustCrashes, Installs, Notifies, Waits, vars
<1> QED BY <1>3, <1>4, <1>5, <1>6, <1>7, <1>8, <1>9, <1>10 DEF Next

-----------------------------------------------------------------------------
(* What Rust was sent and will be sent                                     *)

\* The channel is read at one end and written at the other.
LEMMA LatestSent ==
  ASSUME TypeOK, NEW s \in Config, NEW p \in Parts, channel' = Append(channel, s)
  PROVE  Latest(p)' = s[p]
<1>1. /\ channel \in Seq(Config) /\ Len(channel') = Len(channel) + 1
      /\ channel'[Len(channel) + 1] = s /\ channel' # <<>>
  BY AppendProperties DEF TypeOK
<1> QED BY <1>1 DEF Latest

LEMMA LatestInstalled ==
  ASSUME TypeOK, NEW p \in Parts, channel # <<>>, config' = Head(channel), channel' = Tail(channel)
  PROVE  Latest(p)' = Latest(p)
<1>1. /\ channel \in Seq(Config) /\ Len(channel) \in Nat /\ Len(channel) # 0
      /\ Head(channel) = channel[1]
      /\ Tail(channel) \in Seq(Config) /\ Len(Tail(channel)) = Len(channel) - 1
      /\ \A i \in 1..Len(Tail(channel)) : Tail(channel)[i] = channel[i + 1]
  BY HeadTailProperties, EmptySeq, LenProperties DEF TypeOK
<1>2. CASE Len(channel) = 1
  <2>1. Tail(channel) = <<>>
    BY <1>1, <1>2, EmptySeq
  <2> QED BY <1>1, <1>2, <2>1 DEF Latest
<1>3. CASE Len(channel) # 1
  <2>1. Tail(channel) # <<>> /\ Len(Tail(channel)) \in 1..Len(Tail(channel))
    <3>1. Len(Tail(channel)) \in Nat /\ Len(Tail(channel)) > 0
      BY <1>1, <1>3
    <3> QED BY <3>1, EmptySeq
  <2>2. Tail(channel)[Len(Tail(channel))] = channel[Len(channel)]
    BY <1>1, <2>1
  <2> QED BY <2>1, <2>2 DEF Latest
<1> QED BY <1>2, <1>3

\* No sync turns late or loses what it has read of the part, and none falls behind.
LEMMA StaysOnItsWay ==
  ASSUME NEW p \in Parts, OnItsWay(p), Latest(p)' = Latest(p), db'[p] = db[p],
         \A t \in Syncs : /\ task'[t].elders = task[t].elders
                          /\ Current(t, p) => Current(t, p)'
                          /\ Behind(t, p)' => Behind(t, p)
  PROVE  OnItsWay(p)'
BY DEF OnItsWay

\* A sync that begins and takes no old view is what the part waits for: all that is behind
\* is older.
LEMMA BeginsOnItsWay ==
  ASSUME TypeOK, NEW t \in Syncs, ~Active(t), NEW c, task' = Begun(t, c), UNCHANGED <<db, clock>>,
         NEW p \in Parts, p = "settings" => c.view \in {None, db["settings"]}
  PROVE  OnItsWay(p)'
<1>1. /\ task \in [Syncs -> Task]
      /\ task'[t].elders = {u \in Syncs : Active(u)}
      /\ task'[t].pc = "querying" /\ task'[t].late = FALSE /\ task'[t]["tables"] = None
      /\ task'[t]["settings"] = IF Fresh(c) THEN c.view ELSE None
      /\ \A u \in Syncs : u # t => task'[u] = task[u]
  BY DEF TypeOK, Begun, Idle
<1>2. Current(t, p)'
  BY <1>1 DEF Current, Active, Parts
<1>3. ASSUME NEW u \in Syncs, Behind(u, p)'
      PROVE  u \in task'[t].elders
  <2>1. u # t
    BY <1>2, <1>3 DEF Current, Behind
  <2> QED BY <1>1, <1>3, <2>1 DEF Behind, Active
<1> QED BY <1>2, <1>3 DEF OnItsWay

\* A sync that is sent in time leaves those that will follow it, and makes late those that
\* must not.
LEMMA SentOnItsWay ==
  ASSUME TypeOK, Aged, Reading, NEW t \in Syncs, task[t].pc = "reading", ~task[t].late,
         NEW p \in Parts, OnItsWay(p), db'[p] = db[p],
         task' = Over(t, TRUE), Latest(p)' = task[t][p]
  PROVE  OnItsWay(p)'
<1>1. task'[t].pc = "idle"
  BY DEF Over, Idle
<1>2. ASSUME NEW u \in Syncs, u # t
      PROVE  /\ task'[u].elders = task[u].elders \ {t}
             /\ task'[u].pc = task[u].pc
             /\ task'[u].late <=> task[u].late \/ u \in task[t].elders
             /\ task'[u]["tables"] = task[u]["tables"]
             /\ task'[u]["settings"] = task[u]["settings"]
  <2>1. task[u] \in Task
    BY DEF TypeOK
  <2> QED BY <1>2, <2>1 DEF Over, Task
<1>3. ASSUME NEW u \in Syncs, u # t, u \notin task[t].elders, Current(u, p)
      PROVE  Current(u, p)'
  BY <1>2, <1>3 DEF Current, Active, Parts
<1>4. ASSUME NEW w \in Syncs, Behind(w, p)'
      PROVE  w # t /\ w \notin task[t].elders /\ Behind(w, p)
  <2>1. w # t
    BY <1>1, <1>4 DEF Behind, Active
  <2> QED BY <1>2, <1>4, <2>1 DEF Behind, Active, Parts
<1>5. ASSUME NEW w \in Syncs, Behind(w, p)'
      PROVE  \E u \in Syncs : Current(u, p)' /\ w \in task'[u].elders
  <2>1. PICK u \in Syncs : Current(u, p) /\ w \in task[u].elders
    BY <1>4, <1>5 DEF OnItsWay
  <2>2. u # t /\ u \notin task[t].elders
    BY <1>4, <1>5, <2>1 DEF Aged
  <2> QED BY <1>2, <1>3, <1>4, <1>5, <2>1, <2>2
<1>6. Latest(p)' = db'[p] \/ \E u \in Syncs : Current(u, p)'
  <2>1. CASE task[t][p] = db[p]
    BY <2>1
  <2>2. CASE task[t][p] # db[p]
    <3>1. Behind(t, p)
      BY <2>2 DEF Behind, Active, Reading, Parts
    <3>2. PICK u \in Syncs : Current(u, p) /\ t \in task[u].elders
      BY <3>1 DEF OnItsWay
    <3>3. u # t /\ u \notin task[t].elders
      BY <3>2 DEF Aged
    <3> QED BY <1>3, <3>2, <3>3
  <2> QED BY <2>1, <2>2
<1> QED BY <1>5, <1>6 DEF OnItsWay

\* A handler that has not finished still promises its sync.
LEMMA StaysPromised ==
  ASSUME NEW p \in Parts, Promised(p), db'[p] = db[p],
         \A a \in Admins : admin[a].pc = "written" => admin'[a] = admin[a]
  PROVE  Promised(p)'
BY DEF Promised

\* A sync goes on: what it reads now is what is stored.
LEMMA GoesOnDelivered ==
  ASSUME TypeOK, Aged, Reading, CacheCurrent, Delivered,
         UNCHANGED <<db, cache, admin, connected, channel, config>>, tainted \subseteq tainted',
         NEW t \in Syncs, \A u \in Syncs : u # t => task'[u] = task[u],
         task[t].pc # "idle", task'[t].pc # "idle",
         task'[t].elders = task[t].elders, task'[t].late = task[t].late,
         \A p \in Parts \ tainted' : \/ task'[t][p] = task[t][p]
                                     \/ task[t][p] = None /\ task'[t][p] = db[p]
  PROVE  CacheCurrent' /\ Delivered'
<1>1. \A p \in Parts : Promised(p) => Promised(p)'
  BY StaysPromised
<1>2. CacheCurrent'
  BY <1>1 DEF CacheCurrent, Parts
<1>3. ASSUME NEW p \in Parts \ tainted', OnItsWay(p)
      PROVE  OnItsWay(p)'
  <2>1. \A u \in Syncs : /\ task'[u].elders = task[u].elders
                         /\ Current(u, p) => Current(u, p)'
                         /\ Behind(u, p)' => Behind(u, p)
    BY DEF Current, Behind, Active
  <2>2. Latest(p)' = Latest(p) /\ db'[p] = db[p]
    BY DEF Latest
  <2> QED BY <1>3, <2>1, <2>2, StaysOnItsWay
<1> QED BY <1>1, <1>2, <1>3 DEF Delivered

LEMMA DeliveredStep ==
  TypeOK /\ Dated /\ Aged /\ Reading /\ CacheCurrent /\ Delivered /\ [Next]_vars
    => CacheCurrent' /\ Delivered'
<1> SUFFICES ASSUME TypeOK, Dated, Aged, Reading, CacheCurrent, Delivered, [Next]_vars
             PROVE  CacheCurrent' /\ Delivered'
  OBVIOUS
<1>t. /\ task \in [Syncs -> Task] /\ \A t \in Syncs : task[t] \in Task
      /\ admin \in [Admins -> Admin] /\ \A a \in Admins : admin[a] \in Admin
      /\ connected \in BOOLEAN /\ db \in [Parts -> Nat]
  BY DEF TypeOK
<1>f. ASSUME NEW t \in Syncs, FreeSync(t)
      PROVE  ~Active(t)
  <2>1. DEFINE free == {u \in Syncs : ~Active(u)}
  <2>2. free # {} /\ t = CHOOSE u \in free : TRUE
    BY <1>f DEF FreeSync
  <2>3. t \in free
    BY <2>2
  <2> QED BY <2>3
<1>u. ASSUME NEW p \in Parts, OnItsWay(p), UNCHANGED <<task, channel, config>>, db'[p] = db[p]
      PROVE  OnItsWay(p)'
  BY <1>u DEF OnItsWay, Latest, Current, Behind, Active
<1>1. ASSUME NEW a \in Admins, NEW part \in Parts, Submits(a, part)
      PROVE  CacheCurrent' /\ Delivered'
  <2>1. /\ UNCHANGED <<db, cache, task, connected, channel, config, tainted>>
        /\ \A b \in Admins : admin[b].pc = "written" => admin'[b] = admin[b]
    BY <1>1, <1>t DEF Submits, rustVars
  <2>2. \A p \in Parts : Promised(p) => Promised(p)'
    BY <2>1, StaysPromised
  <2> QED BY <1>u, <2>1, <2>2 DEF CacheCurrent, Delivered, Parts
<1>2. ASSUME NEW a \in Admins, Writes(a)
      PROVE  CacheCurrent' /\ Delivered'
  <2>1. /\ admin[a].pc = "writing" /\ admin[a].part \in Parts
        /\ db' = [db EXCEPT ![admin[a].part] = @ + 1]
        /\ admin' = [admin EXCEPT ![a].pc = "written", ![a].v = db[admin[a].part] + 1]
        /\ UNCHANGED <<cache, task, connected, channel, config, tainted>>
    BY <1>2, <1>t DEF Writes, Stores, rustVars, Admin
  <2>2. /\ \A b \in Admins : admin[b].pc = "written" => admin'[b] = admin[b]
        /\ admin'[a].pc = "written" /\ admin'[a].part = admin[a].part
        /\ admin'[a].v = db'[admin[a].part]
        /\ \A p \in Parts : p # admin[a].part => db'[p] = db[p]
    BY <1>t, <2>1 DEF Admin
  <2>3. \A p \in Parts : p = admin[a].part => Promised(p)'
    BY <2>2 DEF Promised
  <2>4. \A p \in Parts : Promised(p) => Promised(p)'
    BY <2>2, <2>3, StaysPromised
  <2>5. \A p \in Parts : p # admin[a].part /\ OnItsWay(p) => OnItsWay(p)'
    BY <1>u, <2>1, <2>2
  <2>6. CacheCurrent'
    BY <2>1, <2>2, <2>3, <2>4 DEF CacheCurrent, Parts
  <2>7. ASSUME connected, NEW p \in Parts \ tainted
        PROVE  Promised(p)' \/ OnItsWay(p)'
    <3>1. CASE p = admin[a].part
      BY <2>3, <3>1
    <3>2. CASE p # admin[a].part
      BY <2>4, <2>5, <2>7, <3>2 DEF Delivered
    <3> QED BY <3>1, <3>2
  <2> QED BY <2>1, <2>6, <2>7 DEF Delivered
<1>3. ASSUME NEW a \in Admins, NEW t \in Syncs, Finishes(a, t)
      PROVE  CacheCurrent' /\ Delivered'
  <2>1. /\ admin[a].pc = "written" /\ admin' = [admin EXCEPT ![a] = Resting]
        /\ cache' = IF admin[a].part = "settings" THEN [view |-> admin[a].v, at |-> admin[a].at]
                                                  ELSE cache
        /\ tainted' = IF Overtaken(a) THEN tainted \cup {"settings"} ELSE tainted
        /\ FreeSync(t)
        /\ IF connected THEN task' = Begun(t, cache') ELSE UNCHANGED task
        /\ UNCHANGED <<clock, db, connected, channel, config>>
    BY <1>3 DEF Finishes, BeginsSync, rustVars
  <2>2. \A b \in Admins : b # a => admin'[b] = admin[b]
    BY <1>t, <2>1
  <2>3. CacheCurrent'
    <3>1. CASE admin[a].part = "settings"
      <4>1. admin[a].v \in Nat /\ admin[a].v <= db["settings"] /\ db["settings"] \in Nat
        BY <1>t, <2>1, <3>1 DEF Dated, WriteDated, StoredSince, Admin, Parts
      <4>2. admin[a].v = db["settings"] \/ "settings" \in tainted'
        BY <2>1, <3>1, <4>1 DEF Overtaken
      <4> QED BY <2>1, <3>1, <4>2 DEF CacheCurrent
    <3>2. CASE admin[a].part # "settings"
      <4>1. Promised("settings") => Promised("settings")'
        BY <2>1, <2>2, <3>2 DEF Promised
      <4> QED BY <2>1, <3>2, <4>1 DEF CacheCurrent, Overtaken
    <3> QED BY <3>1, <3>2
  <2>4. ASSUME connected, NEW p \in Parts \ tainted'
        PROVE  Promised(p)' \/ OnItsWay(p)'
    <3>1. CASE p = "settings" => cache'.view \in {None, db["settings"]}
      BY <1>f, <2>1, <2>4, <3>1, BeginsOnItsWay
    <3>2. CASE p = "settings" /\ cache'.view \notin {None, db["settings"]}
      BY <2>1, <2>3, <2>4, <3>2 DEF CacheCurrent, None
    <3> QED BY <3>1, <3>2
  <2> QED BY <2>1, <2>3, <2>4 DEF Delivered
<1>4. CASE WritesUnsynced
  <2>1. /\ db' = [db EXCEPT !["tables"] = @ + 1]
        /\ tainted' = tainted \cup {"tables"}
        /\ UNCHANGED <<cache, admin, task, connected, channel, config>>
    BY <1>4 DEF WritesUnsynced, Stores, rustVars
  <2>2. db'["settings"] = db["settings"]
    BY <1>t, <2>1
  <2>3. Promised("settings") => Promised("settings")'
    BY <2>1, <2>2, StaysPromised DEF Parts
  <2>4. OnItsWay("settings") => OnItsWay("settings")'
    BY <1>u, <2>1, <2>2 DEF Parts
  <2> QED BY <2>1, <2>2, <2>3, <2>4 DEF CacheCurrent, Delivered, Parts
<1>5. ASSUME NEW t \in Syncs, Queries(t)
      PROVE  CacheCurrent' /\ Delivered'
  <2>1. /\ UNCHANGED <<db, cache, admin, connected, channel, config, tainted>>
        /\ \A u \in Syncs : u # t => task'[u] = task[u]
        /\ task[t].pc = "querying" /\ task'[t].pc # "idle"
        /\ task'[t].elders = task[t].elders /\ task'[t].late = task[t].late
        /\ task'[t]["tables"] = db["tables"]
        /\ task'[t]["settings"] = IF task[t]["settings"] = None THEN db["settings"]
                                                                ELSE task[t]["settings"]
    BY <1>5, <1>t DEF Queries, rustVars, Task
  <2>2. task[t]["tables"] = None
    BY <2>1 DEF Reading
  <2> QED BY <2>1, <2>2, GoesOnDelivered DEF Parts
<1>6. ASSUME NEW t \in Syncs, CachesSettings(t)
      PROVE  CacheCurrent' /\ Delivered'
  <2>1. /\ UNCHANGED <<db, admin, connected, channel, config>>
        /\ cache' = [view |-> task[t].settings, at |-> task[t].at]
        /\ tainted' = IF task[t].settings < db["settings"] THEN tainted \cup {"settings"}
                                                          ELSE tainted
        /\ task[t].pc = "answered"
        /\ \A u \in Syncs : /\ task'[u].elders = task[u].elders /\ task'[u].late = task[u].late
                            /\ task'[u].pc = "idle" <=> task[u].pc = "idle"
                            /\ task'[u]["tables"] = task[u]["tables"]
                            /\ task'[u]["settings"] = task[u]["settings"]
    BY <1>6, <1>t DEF CachesSettings, rustVars, Task
  <2>2. task[t].settings \in Nat /\ task[t].settings <= db["settings"] /\ db["settings"] \in Nat
    BY <1>t, <2>1 DEF Dated, ReadDated, StoredSince, Task, Parts
  <2>3. CacheCurrent'
    BY <2>1, <2>2 DEF CacheCurrent
  <2>4. \A p \in Parts : Promised(p) => Promised(p)'
    BY <2>1, StaysPromised
  <2>5. ASSUME NEW p \in Parts, OnItsWay(p)
        PROVE  OnItsWay(p)'
    <3>1. Latest(p)' = Latest(p)
      BY <2>1 DEF Latest
    <3>2. \A u \in Syncs : (Current(u, p) => Current(u, p)') /\ (Behind(u, p)' => Behind(u, p))
      BY <2>1 DEF Current, Behind, Active, Parts
    <3> QED BY <2>1, <2>5, <3>1, <3>2, StaysOnItsWay
  <2> QED BY <2>1, <2>3, <2>4, <2>5 DEF Delivered
<1>7. ASSUME NEW t \in Syncs, SettingsFail(t)
      PROVE  CacheCurrent' /\ Delivered'
  <2>1. /\ UNCHANGED <<db, cache, admin, connected, channel, config>>
        /\ tainted' = tainted \cup {"settings"}
        /\ \A u \in Syncs : u # t => task'[u] = task[u]
        /\ task[t].pc = "querying" /\ task'[t].pc # "idle"
        /\ task'[t].elders = task[t].elders /\ task'[t].late = task[t].late
        /\ task'[t]["tables"] = db["tables"]
    BY <1>7, <1>t DEF SettingsFail, rustVars, Task
  <2>2. task[t]["tables"] = None
    BY <2>1 DEF Reading
  <2> QED BY <2>1, <2>2, GoesOnDelivered DEF Parts
<1>8. ASSUME NEW t \in Syncs, Connects(t)
      PROVE  CacheCurrent' /\ Delivered'
  <2>1. FreeSync(t) /\ task' = Begun(t, cache) /\ UNCHANGED <<clock, db, cache, admin, tainted>>
    BY <1>8 DEF Connects
  <2>2. \A p \in Parts : Promised(p) => Promised(p)'
    BY <2>1, StaysPromised
  <2>3. CacheCurrent'
    BY <2>1, <2>2 DEF CacheCurrent, Parts
  <2>4. ASSUME NEW p \in Parts \ tainted'
        PROVE  Promised(p)' \/ OnItsWay(p)'
    <3>1. CASE p = "settings" => cache.view \in {None, db["settings"]}
      BY <1>f, <2>1, <3>1, BeginsOnItsWay
    <3>2. CASE p = "settings" /\ cache.view \notin {None, db["settings"]}
      BY <2>1, <2>2, <2>4, <3>2 DEF CacheCurrent
    <3> QED BY <3>1, <3>2
  <2> QED BY <2>3, <2>4 DEF Delivered
<1>9. ASSUME NEW t \in Syncs, NEW keys \in BOOLEAN, Sends(t, keys)
      PROVE  CacheCurrent' /\ Delivered'
  <2>1. /\ UNCHANGED <<db, cache, admin, connected>> /\ tainted \subseteq tainted'
        /\ task[t].pc = "reading" /\ task' = Over(t, connected)
    BY <1>9 DEF Sends
  <2>2. \A p \in Parts : Promised(p) => Promised(p)'
    BY <2>1, StaysPromised
  <2>3. CacheCurrent'
    BY <2>1, <2>2 DEF CacheCurrent, Parts
  <2>4. ASSUME connected, NEW p \in Parts \ tainted', OnItsWay(p)
        PROVE  OnItsWay(p)'
    <3>1. /\ channel' = Append(channel, Snapshot(t, keys)) /\ connected = TRUE
          /\ ~task[t].late /\ (keys \/ p # "tables")
      BY <1>9, <1>t, <2>4 DEF Sends
    <3>2. Snapshot(t, keys) \in Config
      <4>1. task[t].tables \in Nat /\ task[t].settings \in Nat /\ NoKeys \in Nat
        BY <1>t, BoundsAssumption DEF Task, NoKeys
      <4> QED BY <4>1 DEF Snapshot, Config
    <3>3. Snapshot(t, keys)[p] = task[t][p]
      BY <3>1 DEF Snapshot, Parts
    <3>4. Latest(p)' = task[t][p]
      BY <3>1, <3>2, <3>3, LatestSent
    <3> QED BY <2>1, <2>4, <3>1, <3>4, SentOnItsWay
  <2> QED BY <2>1, <2>2, <2>3, <2>4 DEF Delivered
<1>10. CASE Disconnects \/ RustCrashes
  <2>1. UNCHANGED <<db, cache, admin, tainted>> /\ connected' = FALSE
    BY <1>10 DEF Disconnects, RustCrashes
  <2> QED BY <2>1, StaysPromised DEF CacheCurrent, Delivered, Parts
<1>11. CASE Installs
  <2>1. UNCHANGED <<db, cache, admin, tainted, task, connected>>
    BY <1>11 DEF Installs
  <2>2. \A p \in Parts : Latest(p)' = Latest(p)
    BY <1>11, LatestInstalled DEF Installs
  <2>3. \A p \in Parts : OnItsWay(p) => OnItsWay(p)'
    BY <2>1, <2>2 DEF OnItsWay, Current, Behind, Active
  <2>4. \A p \in Parts : Promised(p) => Promised(p)'
    BY <2>1, StaysPromised
  <2> QED BY <2>1, <2>3, <2>4 DEF CacheCurrent, Delivered, Parts
<1>12. CASE Tick \/ Notifies \/ Waits \/ UNCHANGED vars
  <2>1. UNCHANGED <<db, cache, admin, tainted, task, connected, channel, config>>
    BY <1>12 DEF Tick, Notifies, Waits, vars, rustVars
  <2>2. \A p \in Parts : Promised(p) => Promised(p)'
    BY <2>1, StaysPromised
  <2> QED BY <1>u, <2>1, <2>2 DEF CacheCurrent, Delivered, Parts
<1> QED BY <1>1, <1>2, <1>3, <1>4, <1>5, <1>6, <1>7, <1>8, <1>9, <1>10, <1>11, <1>12 DEF Next

-----------------------------------------------------------------------------
LEMMA Inductive ==
  /\ Init => IInv
  /\ IInv /\ [Next]_vars => IInv'
<1>1. ASSUME Init PROVE IInv
  <2>1. TypeOK
    BY <1>1, TypeInit
  <2>2. NoLostWakeup /\ Overwritten /\ Dated
    BY <1>1 DEF Init, NoLostWakeup, Overwritten, Dated, CacheDated, WriteDated, ReadDated, Resting,
                Idle, None
  <2>3. Aged /\ Reading /\ CacheCurrent /\ Delivered
    BY <1>1 DEF Init, Aged, Reading, CacheCurrent, Delivered, Idle
  <2> QED BY <2>1, <2>2, <2>3 DEF IInv
<1>2. IInv /\ [Next]_vars => IInv'
  BY TypeStep, WakeupStep, DatedStep, AgedStep, DeliveredStep DEF IInv
<1> QED BY <1>1, <1>2

(* Every variable stays in its type, and the writes within the bound.      *)
THEOREM TypeCorrect == Spec => []TypeOK
<1>1. IInv => TypeOK
  BY DEF IInv
<1> QED BY <1>1, Inductive, PTL DEF Spec

(* wait_for_config_sync_state registers before it looks at the flag again: *)
(* however the installation of the first snapshot falls between its steps, *)
(* no request stays parked that nobody will wake.                          *)
THEOREM NoWakeupLost == Spec => []NoLostWakeup
<1>1. IInv => NoLostWakeup
  BY DEF IInv
<1> QED BY <1>1, Inductive, PTL DEF Spec

(* getSettingsView: for any number of loads and updates that overtake each *)
(* other, no view is returned whose settings were overwritten a TTL ago.   *)
THEOREM StaleBounded == Spec => []StaleAtMostTTL
<1>1. IInv => StaleAtMostTTL
  <2> SUFFICES ASSUME IInv, Fresh(cache), overwritten[cache.view] <= clock
               PROVE  clock - overwritten[cache.view] < TTL
    BY DEF StaleAtMostTTL
  <2>1. cache.view # None /\ clock - cache.at < TTL
    BY DEF Fresh
  <2>2. cache.view \in 0..MaxWrites /\ cache.at \in Nat /\ cache.at <= overwritten[cache.view]
    <3>1. /\ cache.view <= db["settings"] /\ cache.at <= overwritten[cache.view]
          /\ cache.view \in Nat /\ cache.at \in Nat
      BY <2>1 DEF IInv, Dated, CacheDated, StoredSince, TypeOK
    <3>2. db["settings"] <= MaxWrites /\ db["settings"] \in Nat /\ MaxWrites \in Nat
      <4>1. db["tables"] \in Nat /\ db["settings"] \in Nat /\ Writing \in Nat
        BY WritingCount DEF IInv, TypeOK, Parts
      <4> QED BY <4>1, BoundsAssumption DEF IInv, TypeOK, Budget
    <3> QED BY <3>1, <3>2
  <2>3. overwritten[cache.view] \in Nat /\ clock \in Nat /\ TTL \in Nat
    BY <2>2, BoundsAssumption DEF IInv, TypeOK
  <2> QED BY <2>1, <2>2, <2>3
<1> QED BY <1>1, Inductive, PTL DEF Spec

(* syncConfigToRust is never awaited: whatever order the reads, writes and *)
(* sends of any number of handlers and syncs take, and whatever the bridge *)
(* loses, Rust ends with the parts as they are stored, except those that   *)
(* the history taints.                                                     *)
THEOREM RustIsSynced == Spec => []SyncedWhenQuiet
<1>1. IInv => SyncedWhenQuiet
  <2> SUFFICES ASSUME IInv, Quiet, NEW p \in Parts \ tainted
               PROVE  config[p] = db[p]
    BY DEF SyncedWhenQuiet
  <2>1. ~Promised(p)
    BY DEF Quiet, Promised
  <2>2. OnItsWay(p)
    BY <2>1 DEF IInv, Delivered, Quiet
  <2>3. Latest(p) = db[p]
    BY <2>2 DEF OnItsWay, Quiet, Current
  <2> QED BY <2>3 DEF Latest, Quiet
<1> QED BY <1>1, Inductive, PTL DEF Spec
=============================================================================
