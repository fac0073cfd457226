------------------------------ MODULE LogStore ------------------------------
(***************************************************************************)
(* The request log of the console and what it charges to an API key        *)
(* (console-store.ts, api-keys.ts). The saves of a request are several      *)
(* database statements each; between two of them other saves, the          *)
(* retention, an administrator or the end of the process come in. Who      *)
(* calls them decides what may overlap: the queue of server.ts one save    *)
(* after the other, the TypeScript gateway one after the other per         *)
(* request, rust-log-writer.ts all at once.                                *)
(*                                                                         *)
(* Statuses are Ok and Limited (429); a place is a channel with a model; a  *)
(* response used one token of a model the upstream names, and a price is   *)
(* per token. One API key pays for every request.                          *)
(***************************************************************************)
EXTENDS Naturals, Integers, Sequences, FiniteSets, Folds

CONSTANTS
  Requests,    \* requests 1..n, numbered by created_at
  Places,      \* channels with a model
  Keep,        \* MAX_DEBUG_RECORDS
  Slots,       \* saves at work at once
  MaxCalls,    \* bound: saves of one request
  MaxSaves,    \* bound: saves of all
  MaxOutside,  \* bound: administrator's changes, statements that fail and restarts
  NoRow, NoPlace, NoKey, Idle

ASSUME BoundsAssumption ==
  /\ Requests \subseteq Nat \ {0} /\ IsFiniteSet(Requests) /\ IsFiniteSet(Slots)
  /\ Keep \in Nat \ {0} /\ MaxCalls \in Nat /\ MaxSaves \in Nat /\ MaxOutside \in Nat
  /\ NoPlace \notin Places

VARIABLES
  rows,     \* console_requests
  key,      \* the row of the API key: its use (its quota: KeyPush)
  prices,   \* the price set for each model, 0 for none
  tasks,    \* saves at work
  calls,    \* saves of each request so far
  tried,    \* the gateway's memory of a request: first place, place, answered
  cleaning, due,   \* cleanupRunning; CLEANUP_INTERVAL_MS has passed
  driver, writer,  \* getDbDriver(); who calls the saves
  gone,     \* history: charges of rows that were removed
  came,     \* history: requests of which a row was inserted
  lost,     \* history: requests whose response met no row
  answered, \* history: place and status of the response last saved
  admin, faults, excuses

vars == <<rows, key, prices, tasks, calls, tried, cleaning, due, driver, writer,
          gone, came, lost, answered, admin, faults, excuses>>
histories == <<gone, came, lost, answered>>
admins == <<key, prices, admin>>

Ok == 200
Limited == 429
ReqModel == "asked"      \* request_model
UpModel == "sent"        \* upstream_request_model
Models == {ReqModel, UpModel}
Listed == [m \in Models |-> IF m = UpModel THEN 1 ELSE 0]   \* the price list
Outcomes == {[status |-> Ok, answer |-> UpModel], [status |-> Ok, answer |-> "codename"],
             [status |-> Limited, answer |-> "codename"]}

Answers == {UpModel, "codename"}
Statuses == {Ok, Limited}
Reached == Places \cup {NoPlace}
Row == [place : Reached, orig : Reached, initial : Statuses \cup {0}, status : Statuses \cup {0},
        answer : Answers \cup {""}, price : Nat, charged : Nat, snap : Nat]
Task == [req : Requests,
         pc : {"insert", "clean", "snapshot", "resolve", "update", "charge", "mark", "pay"},
         place : Reached, orig : Reached, status : Statuses \cup {0}, answer : Answers \cup {""},
         price : Nat, read : Nat]
Key == [used : Nat]

ASSUME NothingAssumption == NoRow \notin Row /\ Idle \notin Task /\ NoKey \notin Key

NoAnswer == [place |-> NoPlace, status |-> 0]
SumOver(f, S) == MapThenFoldSet(+, 0, LAMBDA x : f[x], LAMBDA T : CHOOSE x \in T : TRUE, S)
Total(c) == SumOver(c, Requests)
Charge(r) == IF rows[r] = NoRow THEN 0 ELSE rows[r].charged

(* getEffectivePricing: the first of the names with a price of its own,    *)
(* and only then the first that the price list knows.                      *)
Priced(table, names) == {i \in DOMAIN names : names[i] \in Models /\ table[names[i]] # 0}
FirstIn(table, names) ==
  LET priced == Priced(table, names)
  IN table[names[CHOOSE i \in priced : \A j \in priced : i <= j]]
FirstPrice(names) ==
  IF Priced(prices, names) # {} THEN FirstIn(prices, names)
  ELSE IF Priced(Listed, names) # {} THEN FirstIn(Listed, names) ELSE 0

\* Mutant: the logs look at today's price, the charge was yesterday's.
RowPriceNow(row, names) == FirstPrice(names)

(* resolveRowPricing: the price kept with the row, or today's.             *)
RowPrice(row, names) == IF row.price # 0 THEN row.price ELSE FirstPrice(names)

ListedCost(row) == RowPrice(row, <<row.answer, UpModel>>)
CountedCost(row) == RowPrice(row, <<row.answer, ReqModel>>)

-----------------------------------------------------------------------------
Init ==
  /\ rows = [r \in Requests |-> NoRow]
  /\ key = [used |-> 0]
  /\ prices \in {p \in [Models -> {0, 2}] : p[UpModel] = 0}
  /\ tasks = [s \in Slots |-> Idle]
  /\ calls = [r \in Requests |-> 0]
  /\ tried = [r \in Requests |-> [origin |-> NoPlace, at |-> NoPlace, done |-> FALSE]]
  /\ cleaning = FALSE /\ due = TRUE
  /\ driver \in {"sqlite", "postgres"}
  /\ writer \in {"queue", "tracked", "standalone"}
  /\ gone = 0
  /\ came = {} /\ lost = {}
  /\ answered = [r \in Requests |-> NoAnswer]
  /\ admin = 0 /\ faults = 0
  /\ excuses = {}

Working == {s \in Slots : tasks[s] # Idle}
WorkingFor(r) == {s \in Working : tasks[s].req = r}

\* Mutant: the TypeScript gateway lets the saves of a request overlap.
MayStartUntracked(r) ==
  CASE writer = "queue" -> Working = {}
    [] writer = "tracked" -> TRUE
    [] writer = "standalone" -> TRUE

(* Who may begin a save of r: ipcQueue, trackPendingConsoleRequestWrite,   *)
(* or handleMessage, which waits for nobody.                               *)
MayStart(r) ==
  CASE writer = "queue" -> Working = {}
    [] writer = "tracked" -> WorkingFor(r) = {}
    [] writer = "standalone" -> TRUE

\* A save begins; a request's first save is its request record.
Begin(s, r, task) ==
  /\ tasks[s] = Idle
  /\ calls[r] < MaxCalls /\ Total(calls) < MaxSaves /\ calls' = [calls EXCEPT ![r] = @ + 1]
  /\ MayStart(r)
  /\ tasks' = [tasks EXCEPT ![s] = task]

Fresh(r, pc) == [req |-> r, pc |-> pc, place |-> NoPlace, orig |-> NoPlace, status |-> 0,
                 answer |-> "", price |-> 0, read |-> 0]

\* A request stays at a place, or falls back from the first to another.
Reaches(r, place) ==
  \/ tried[r].at \in {NoPlace, place}
  \/ tried[r].at = tried[r].origin

(* An attempt is recorded: where it fell back from, and what the first     *)
(* attempt was answered.                                                   *)
BeginRequest(s, r, place) ==
  /\ ~tried[r].done /\ Reaches(r, place)
  /\ LET first == tried[r].origin = NoPlace
         origin == IF first THEN place ELSE tried[r].origin
     IN /\ tried' = [tried EXCEPT ![r] = [@ EXCEPT !.origin = origin, !.at = place]]
        /\ Begin(s, r, [Fresh(r, "insert") EXCEPT !.place = place,
                           !.orig = IF place = origin THEN NoPlace ELSE origin,
                           !.status = IF first THEN 0 ELSE Limited])
  /\ UNCHANGED <<rows, cleaning, due, driver, writer, faults, excuses, histories, admins>>

BeginSnapshot(s, r) ==
  /\ tried[r].origin # NoPlace /\ ~tried[r].done
  /\ Begin(s, r, Fresh(r, "snapshot"))
  /\ UNCHANGED <<rows, tried, cleaning, due, driver, writer, faults, excuses, histories, admins>>

BeginResponse(s, r, outcome) ==
  /\ tried[r].origin # NoPlace
  /\ tried' = [tried EXCEPT ![r].done = TRUE]
  /\ Begin(s, r, [Fresh(r, "resolve") EXCEPT !.place = tried[r].at, !.status = outcome.status,
                                             !.answer = outcome.answer])
  /\ UNCHANGED <<rows, cleaning, due, driver, writer, faults, excuses, histories, admins>>

Outside == admin + faults < MaxOutside
Ends(s) == tasks' = [tasks EXCEPT ![s] = Idle]
Goes(s, pc) == tasks' = [tasks EXCEPT ![s].pc = pc]

-----------------------------------------------------------------------------
Inserted(t) ==
  [place |-> t.place, orig |-> t.orig, initial |-> t.status, status |-> 0,
   answer |-> "", price |-> 0, charged |-> 0, snap |-> 0]

\* Mutant: the conflict replaces the row.
UpsertedAnew(t, row) == Inserted(t)

(* On a conflict the attempt replaces the attempt; the first status is     *)
(* kept, and what responses and charges wrote is not named.                *)
Upserted(t, row) ==
  [row EXCEPT !.place = t.place, !.orig = t.orig, !.initial = IF @ = 0 THEN t.status ELSE @]

\* The early return of cleanupOldRows.
CleansNow == due /\ ~cleaning

(* saveConsoleRequest: the upsert.                                         *)
Inserts(s) ==
  /\ tasks[s] # Idle /\ tasks[s].pc = "insert"
  /\ LET t == tasks[s] IN
       /\ rows' = [rows EXCEPT ![t.req] = IF @ = NoRow THEN Inserted(t) ELSE Upserted(t, @)]
       /\ came' = came \cup {t.req}
       /\ lost' = IF rows[t.req] = NoRow THEN lost \ {t.req} ELSE lost
  /\ IF CleansNow THEN tasks' = [tasks EXCEPT ![s] = Fresh(tasks[s].req, "clean")] /\ cleaning' = TRUE
     ELSE Ends(s) /\ UNCHANGED cleaning
  /\ UNCHANGED <<calls, tried, due, driver, writer, faults, excuses, gone, answered, admins>>

\* Mutant: the oldest are retained.
RetainedOldest ==
  {r \in Requests : rows[r] # NoRow /\ Cardinality({q \in Requests : q < r /\ rows[q] # NoRow}) < Keep}

\* retainedRequestIds
Retained ==
  {r \in Requests : rows[r] # NoRow /\ Cardinality({q \in Requests : q > r /\ rows[q] # NoRow}) < Keep}

\* Rows are removed and their charges are history.
Remove(dropped) ==
  /\ rows' = [r \in Requests |-> IF r \in dropped THEN NoRow ELSE rows[r]]
  /\ gone' = gone + Total([r \in Requests |-> IF r \in dropped THEN Charge(r) ELSE 0])

(* cleanupOldRows                                                          *)
Cleans(s) ==
  /\ tasks[s] # Idle /\ tasks[s].pc = "clean"
  /\ Remove({r \in Requests : rows[r] # NoRow} \ Retained)
  /\ due' = FALSE /\ cleaning' = FALSE
  /\ Ends(s)
  /\ UNCHANGED <<calls, tried, driver, writer, faults, excuses, came, lost, answered, admins>>

\* CLEANUP_INTERVAL_MS passes.
CleanupDue ==
  /\ ~due /\ due' = TRUE
  /\ UNCHANGED <<rows, tasks, calls, tried, cleaning, driver, writer, faults, excuses, histories, admins>>

\* CASE WHEN initial_rate_limit_route_prefix IS NULL
SnapshotKept(snap, n) == IF snap = 0 THEN n ELSE snap

(* saveConsoleInitialRateLimitSnapshot                                     *)
Snapshots(s) ==
  /\ tasks[s] # Idle /\ tasks[s].pc = "snapshot"
  /\ LET r == tasks[s].req IN
       rows' = IF rows[r] = NoRow THEN rows ELSE [rows EXCEPT ![r].snap = SnapshotKept(@, calls[r])]
  /\ Ends(s)
  /\ UNCHANGED <<calls, tried, cleaning, due, driver, writer, faults, excuses, histories, admins>>

(* saveConsoleResponse begins with resolveRequestPricing.                  *)
Resolves(s) ==
  /\ tasks[s] # Idle /\ tasks[s].pc = "resolve"
  /\ LET t == tasks[s]
         names == <<t.answer, ReqModel>>
     IN tasks' = [tasks EXCEPT ![s] = [t EXCEPT !.pc = "update",
                    !.price = IF rows[t.req] = NoRow THEN 0 ELSE FirstPrice(names)]]
  /\ UNCHANGED <<rows, calls, tried, cleaning, due, driver, writer, faults, excuses, histories, admins>>

\* The answer replaces the answer; the first status is kept.
Responded(t, row) ==
  [row EXCEPT !.price = t.price, !.status = t.status, !.answer = t.answer,
              !.initial = IF @ = 0 THEN t.status ELSE @]

(* ... then its update, which may meet no row ...                          *)
Updates(s) ==
  /\ tasks[s] # Idle /\ tasks[s].pc = "update"
  /\ LET t == tasks[s] IN
       /\ rows' = IF rows[t.req] = NoRow THEN rows
                  ELSE [rows EXCEPT ![t.req] = Responded(t, @)]
       /\ lost' = IF rows[t.req] = NoRow THEN lost \cup {t.req} ELSE lost
       /\ answered' = IF rows[t.req] = NoRow THEN answered
                      ELSE [answered EXCEPT ![t.req] = [place |-> t.place, status |-> t.status]]
  /\ tasks' = [tasks EXCEPT ![s] = [Fresh(@.req, "charge") EXCEPT !.price = tasks[s].price]]
  /\ UNCHANGED <<calls, tried, cleaning, due, driver, writer, faults, excuses, gone, came, admins>>

Adds(delta) == key' = IF key = NoKey THEN NoKey
                      ELSE [key EXCEPT !.used = IF @ + delta > 0 THEN @ + delta ELSE 0]

Delta(t) == t.price - t.read

(* ... and the charge: one statement of PostgreSQL ...                     *)
Charges(s) ==
  /\ tasks[s] # Idle /\ tasks[s].pc = "charge" /\ driver = "postgres"
  /\ LET t == tasks[s] IN
       /\ rows' = IF rows[t.req] = NoRow THEN rows ELSE [rows EXCEPT ![t.req].charged = t.price]
       /\ IF rows[t.req] = NoRow THEN UNCHANGED key
          ELSE Adds(Delta([t EXCEPT !.read = rows[t.req].charged]))
  /\ Ends(s)
  /\ UNCHANGED <<calls, tried, cleaning, due, driver, writer, faults, excuses, histories, prices, admin>>

(* ... three of SQLite (syncApiKeyQuotaChargeSqlite).                      *)
ReadsCharge(s) ==
  /\ tasks[s] # Idle /\ tasks[s].pc = "charge" /\ driver = "sqlite"
  /\ LET r == tasks[s].req IN
       IF rows[r] = NoRow THEN Ends(s)
       ELSE tasks' = [tasks EXCEPT ![s].read = rows[r].charged, ![s].pc = "mark"]
  /\ UNCHANGED <<rows, calls, tried, cleaning, due, driver, writer, faults, excuses, histories, admins>>

MarksCharge(s) ==
  /\ tasks[s] # Idle /\ tasks[s].pc = "mark"
  /\ LET t == tasks[s] IN
       /\ rows' = IF rows[t.req] = NoRow THEN rows ELSE [rows EXCEPT ![t.req].charged = t.price]
       /\ excuses' = IF rows[t.req] = NoRow /\ Delta(t) # 0 THEN excuses \cup {"pruned"} ELSE excuses
       /\ IF Delta(t) = 0 THEN Ends(s) ELSE Goes(s, "pay")
  /\ UNCHANGED <<calls, tried, cleaning, due, driver, writer, faults, histories, admins>>

Pays(s) ==
  /\ tasks[s] # Idle /\ tasks[s].pc = "pay"
  /\ Adds(Delta(tasks[s]))
  /\ Ends(s)
  /\ UNCHANGED <<rows, calls, tried, cleaning, due, driver, writer, faults, excuses, histories, prices, admin>>

-----------------------------------------------------------------------------
(* A statement fails: the save is over with a warning, and cleanupRunning  *)
(* is given back.                                                          *)
Fails(s) ==
  /\ tasks[s] # Idle /\ Outside /\ faults' = faults + 1
  /\ cleaning' = (cleaning /\ tasks[s].pc # "clean")
  /\ excuses' = excuses \cup {"failed"}
  /\ Ends(s)
  /\ UNCHANGED <<rows, calls, tried, due, driver, writer, histories, admins>>

(* The process ends in the middle of its saves, and starts again.          *)
Restarts ==
  /\ Working # {} /\ Outside /\ faults' = faults + 1
  /\ tasks' = [s \in Slots |-> Idle]
  /\ cleaning' = FALSE /\ due' = TRUE
  /\ excuses' = excuses \cup {"failed"}
  /\ tried' = [r \in Requests |-> [tried[r] EXCEPT !.done = TRUE]]
  /\ UNCHANGED <<rows, calls, driver, writer, histories, admins>>

Administers == Outside /\ admin' = admin + 1
others == <<tasks, calls, tried, cleaning, due, driver, writer, faults>>

\* The price of a model is edited, or leaves the list.
EditsPrice(m, p) ==
  /\ Administers /\ prices[m] # p
  /\ prices' = [prices EXCEPT ![m] = p]
  /\ UNCHANGED <<rows, key, excuses, others, histories>>

(* clearConsoleRequests                                                    *)
Clears ==
  /\ Administers
  /\ Remove({r \in Requests : rows[r] # NoRow})
  /\ excuses' = excuses \cup {"cleared"}
  /\ UNCHANGED <<key, prices, others, came, lost, answered>>

(* deleteConsoleApiKey                                                     *)
DeletesKey ==
  /\ Administers
  /\ key # NoKey /\ key' = NoKey
  /\ UNCHANGED <<rows, prices, excuses, others, histories>>

Next ==
  \/ CleanupDue \/ Restarts \/ Clears \/ DeletesKey
  \/ \E m \in Models, p \in {0, 2} : EditsPrice(m, p)
  \/ \E s \in Slots :
        \/ Inserts(s) \/ Cleans(s) \/ Snapshots(s) \/ Resolves(s) \/ Updates(s)
        \/ Charges(s) \/ ReadsCharge(s) \/ MarksCharge(s) \/ Pays(s) \/ Fails(s)
        \/ \E r \in Requests :
              \/ BeginSnapshot(s, r)
              \/ \E place \in Places : BeginRequest(s, r, place)
              \/ \E outcome \in Outcomes : BeginResponse(s, r, outcome)

Spec == Init /\ [][Next]_vars

-----------------------------------------------------------------------------
(* What the pages show.                                                    *)

(* getProviderRecentHttpStatuses: the first answer at the place it came    *)
(* from, and the last one if it is another.                                *)
FirstPoint(row) ==
  IF row.initial > 0
    THEN {[place |-> IF row.orig # NoPlace THEN row.orig ELSE row.place, status |-> row.initial]}
    ELSE {[place |-> row.place, status |-> row.status]} \ {[place |-> row.place, status |-> 0]}

\* Mutant: only another status makes the last answer another one.
LastPointOfStatus(row) ==
  IF row.initial > 0 /\ row.status # 0 /\ row.initial # row.status
    THEN {[place |-> row.place, status |-> row.status]} ELSE {}

LastPoint(row) ==
  IF row.initial > 0 /\ row.status # 0
     /\ ((row.orig # NoPlace /\ row.orig # row.place) \/ row.initial # row.status)
    THEN {[place |-> row.place, status |-> row.status]} ELSE {}

Points(row) == FirstPoint(row) \cup LastPoint(row)

(* getProviderHealthStatuses                                               *)
Health(place) ==
  LET of == {r \in Requests : rows[r] # NoRow /\ rows[r].place = place}
      good == {r \in of : rows[r].status \in 200..399}
  IN IF of = {} THEN "no-data" ELSE IF good = of THEN "healthy" ELSE IF good # {} THEN "degraded" ELSE "down"

-----------------------------------------------------------------------------
\* What has been marked on rows and not yet put on the key.
Paying(s) == tasks[s] # Idle /\ tasks[s].pc = "pay"
Owed == SumOver([s \in Slots |-> IF Paying(s) THEN Delta(tasks[s]) ELSE 0], Slots)

(* The key has been charged exactly what the rows, those removed included, *)
(* say they were charged: for PostgreSQL always, for SQLite as long as one *)
(* caller keeps the saves of a request in order and none is cut short or   *)
(* meets its row removed between its statements (console-store.ts 1631).   *)
KeyPaysForRequests ==
  (key # NoKey /\ (driver = "postgres" \/ (writer # "standalone" /\ excuses \cap {"failed", "pruned"} = {})))
    => key.used + Owed = gone + Total([r \in Requests |-> Charge(r)])

(* Once its saves are through, a request costs the same on the key, in the *)
(* list and in the statistics, whatever becomes of the prices; without a   *)
(* price when it was answered it was charged nothing.                      *)
CostsAgree ==
  \A r \in Requests :
    (/\ rows[r] # NoRow /\ rows[r].status # 0 /\ WorkingFor(r) = {}
     /\ writer # "standalone" /\ "failed" \notin excuses)
      => /\ rows[r].charged = rows[r].price
         /\ rows[r].price # 0 => ListedCost(rows[r]) = rows[r].charged /\ CountedCost(rows[r]) = rows[r].charged

(* A response meets no row only if the retention removed it for Keep newer *)
(* requests, the records were cleared, the request's record failed, or     *)
(* rust-log-writer.ts let it overtake the record.                          *)
LostOnlyIfOld ==
  (writer # "standalone" /\ excuses \cap {"failed", "cleared"} = {}) =>
    \A r \in lost : Cardinality({q \in came : q > r}) >= Keep

(* The last answer of a request is shown at the place that gave it, and a  *)
(* provider called healthy or down has only such answers.                  *)
LastAnswerShown ==
  (writer # "standalone" /\ "failed" \notin excuses) =>
    \A r \in Requests :
      (rows[r] # NoRow /\ rows[r].status # 0) =>
        /\ answered[r] \in Points(rows[r])
        /\ Health(answered[r].place) = "healthy" => answered[r].status = Ok
        /\ Health(answered[r].place) = "down" => answered[r].status # Ok

(* What the first answers and the charge wrote survives every later save   *)
(* of the request, as long as its row does.                                *)
HistoryKept ==
  [][\A r \in Requests : (rows[r] # NoRow /\ rows'[r] # NoRow) =>
        /\ rows[r].initial # 0 => rows'[r].initial = rows[r].initial
        /\ rows[r].snap # 0 => rows'[r].snap = rows[r].snap
        /\ rows[r].status # 0 => rows'[r].status # 0]_vars
=============================================================================
