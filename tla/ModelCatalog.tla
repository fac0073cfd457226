----------------------------- MODULE ModelCatalog -----------------------------
(***************************************************************************)
(* What models.dev publishes, and the copies of it that contexts and       *)
(* prices are read from (model-catalog.ts, pricing.ts), the table they     *)
(* are kept in over a restart (catalog-db.ts), and the start and the timer *)
(* of the process (server.ts).                                             *)
(*                                                                         *)
(* An edition of a model's data is known by the tick it was published at;  *)
(* 0 is none. A tick is a matter of hours: reads and writes of the table   *)
(* end within it; a fetch may not, and its answer is of when it ends. The  *)
(* table is written in chunks of one model.                                *)
(***************************************************************************)
EXTENDS Integers, Sequences, FiniteSetsExt

CONSTANTS
  CatalogModels,  \* ids
  Dropped,        \* one of them that models.dev may stop listing
  CatalogTTL,     \* MODEL_CATALOG_CACHE_TTL_MS
  FetchCooldown,  \* EXTERNAL_FETCH_FAILURE_COOLDOWN_MS
  NotLoaded,
  LastTick        \* bound: ticks from 1

(* A copy is of one time; the table dates each row.                        *)
CatalogCopy == [map : [CatalogModels -> Nat], at : Int]
CatalogRows == [CatalogModels -> [edition : Nat, at : Nat]]

ASSUME CatalogAssumption ==
  /\ Dropped \in CatalogModels /\ NotLoaded \notin CatalogModels \cup CatalogCopy \cup CatalogRows
  /\ {CatalogTTL, FetchCooldown, LastTick} \subseteq Nat \ {0}

VARIABLES
  past,       \* what models.dev published, tick by tick
  table,      \* model_catalog_cache
  booted,     \* when the process started, 0 if it does not run
  contexts,   \* contextCache and cacheLoadedAt
  prices,     \* pricingCache and cacheTimestamp
  waiting,    \* who waits for sharedFetchPromise
  retryAt,    \* nextExternalFetchAt
  reading,    \* the rows that await loadCatalogFromDb, in a look at prices
  saves,      \* under way
  looked,     \* when prices were last looked at
  partial     \* whether a save was cut before its last chunk, or was read before it

catalogVars == <<past, table, booted, contexts, prices, waiting, retryAt, reading,
                 saves, looked, partial>>

tick == Len(past)
Published == past[tick]
NothingListed == [m \in CatalogModels |-> 0]
NoRows == [m \in CatalogModels |-> [edition |-> 0, at |-> 0]]

FreshCopy(cache) == cache # NotLoaded /\ tick - cache.at < CatalogTTL

(* loadCatalogFromDb: one time for all rows, the latest                    *)
OfRows(stored) ==
  IF stored = NoRows THEN NotLoaded
  ELSE [map |-> [m \in CatalogModels |-> stored[m].edition],
        at |-> Max({stored[m].at : m \in CatalogModels})]

(* fetchModelsDevData: joins the fetch under way, begins one, or is        *)
(* refused for a while after one that failed                               *)
FetchRefused == waiting = {} /\ tick < retryAt
Joins(who) == waiting' = IF FetchRefused THEN waiting ELSE waiting \cup {who}

-----------------------------------------------------------------------------
CatalogInit ==
  /\ past = <<[m \in CatalogModels |-> 1]>>
  /\ table = NoRows /\ booted = 0
  /\ contexts = NotLoaded /\ prices = NotLoaded
  /\ waiting = {} /\ retryAt = 0 /\ reading = NotLoaded /\ saves = {}
  /\ looked = 0 /\ partial = FALSE

(* Both caches are warmed, or the table cannot be read; what is not fresh  *)
(* is fetched                                                              *)
Boots ==
  /\ booted = 0
  /\ booted' = tick
  /\ \E warm \in {OfRows(table), NotLoaded} :
       /\ contexts' = warm /\ prices' = warm
       /\ waiting' = IF FreshCopy(warm) THEN {} ELSE {"both"}
  /\ UNCHANGED <<past, table, retryAt, reading, saves, looked, partial>>

Stops ==
  /\ booted # 0
  /\ booted' = 0 /\ contexts' = NotLoaded /\ prices' = NotLoaded
  /\ waiting' = {} /\ retryAt' = 0 /\ reading' = NotLoaded /\ saves' = {} /\ looked' = 0
  /\ partial' = (partial \/ saves # {})
  /\ UNCHANGED <<past, table>>

TimerRefreshes ==
  /\ booted # 0 /\ tick >= booted + CatalogTTL
  /\ Joins("both")
  /\ UNCHANGED <<past, table, booted, contexts, prices, retryAt, reading, saves, looked, partial>>

(* ensureModelCatalogLoaded, which awaits no refresh                       *)
LooksAtContexts ==
  /\ booted # 0 /\ ~FreshCopy(contexts)
  /\ Joins("contexts")
  /\ contexts' = IF FetchRefused /\ contexts = NotLoaded
                   THEN [map |-> NothingListed, at |-> -CatalogTTL] ELSE contexts
  /\ UNCHANGED <<past, table, booted, prices, retryAt, reading, saves, looked, partial>>

(* fetchModelsDevPricing                                                   *)
LooksAtPrices ==
  /\ booted # 0 /\ looked' = tick
  /\ IF prices = NotLoaded
       THEN /\ reading = NotLoaded /\ reading' = table
            /\ partial' = (partial \/ saves # {})
            /\ UNCHANGED waiting
       ELSE /\ IF FreshCopy(prices) THEN UNCHANGED waiting ELSE Joins("prices")
            /\ UNCHANGED <<reading, partial>>
  /\ UNCHANGED <<past, table, booted, contexts, prices, retryAt, saves>>

(* Mutant: what is read is taken for fresh.                                *)
RowsArriveFresh ==
  /\ reading # NotLoaded
  /\ \E got \in {OfRows(reading), NotLoaded} :
       prices' = IF got = NotLoaded THEN prices ELSE got
  /\ reading' = NotLoaded
  /\ UNCHANGED <<past, table, booted, contexts, waiting, retryAt, saves, looked, partial>>

(* Its read ends, and may have failed                                      *)
RowsArrive ==
  /\ reading # NotLoaded
  /\ \E got \in {OfRows(reading), NotLoaded} :
       LET now == IF got = NotLoaded THEN prices ELSE got IN
       /\ prices' = now
       /\ IF FreshCopy(now) THEN UNCHANGED waiting ELSE Joins("prices")
  /\ reading' = NotLoaded
  /\ UNCHANGED <<past, table, booted, contexts, retryAt, saves, looked, partial>>

FetchSucceeds ==
  LET got == [map |-> Published, at |-> tick]
      listed == {m \in CatalogModels : Published[m] # 0}
  IN  /\ waiting # {}
      /\ contexts' = IF {"both", "contexts"} \intersect waiting # {} THEN got ELSE contexts
      /\ prices' = IF {"both", "prices"} \intersect waiting # {} THEN got ELSE prices
      /\ saves' = saves \cup (IF listed = {} THEN {}
                              ELSE {[map |-> Published, at |-> tick, left |-> listed]})
      /\ waiting' = {} /\ retryAt' = 0
      /\ UNCHANGED <<past, table, booted, reading, looked, partial>>

FetchFails ==
  /\ waiting # {}
  /\ contexts' = IF "contexts" \in waiting /\ contexts = NotLoaded
                   THEN [map |-> NothingListed, at |-> -CatalogTTL] ELSE contexts
  /\ waiting' = {} /\ retryAt' = tick + FetchCooldown
  /\ UNCHANGED <<past, table, booted, prices, reading, saves, looked, partial>>

(* saveCatalogToDb: an upsert for every chunk                              *)
Saves(s) == \E m \in s.left :
  /\ table' = [table EXCEPT ![m] = [edition |-> s.map[m], at |-> s.at]]
  /\ saves' = (saves \ {s}) \cup
       (IF s.left = {m} THEN {} ELSE {[s EXCEPT !.left = @ \ {m}]})
  /\ UNCHANGED <<past, booted, contexts, prices, waiting, retryAt, reading, looked, partial>>

SaveFails(s) ==   \* its error is only logged
  /\ saves' = saves \ {s} /\ partial' = TRUE
  /\ UNCHANGED <<past, table, booted, contexts, prices, waiting, retryAt, reading, looked>>

(* models.dev publishes an edition, or drops a model, or everything        *)
TickPasses ==
  /\ tick < LastTick /\ saves = {} /\ reading = NotLoaded
  /\ \E next \in {Published, [m \in CatalogModels |-> tick + 1],
                  [Published EXCEPT ![Dropped] = 0], NothingListed} :
       past' = Append(past, next)
  /\ UNCHANGED <<table, booted, contexts, prices, waiting, retryAt, reading, saves, looked, partial>>

CatalogNext ==
  \/ Boots \/ Stops \/ TimerRefreshes \/ LooksAtContexts \/ LooksAtPrices
  \/ RowsArrive \/ FetchSucceeds \/ FetchFails \/ TickPasses
  \/ \E s \in saves : Saves(s) \/ SaveFails(s)

CatalogSpec == CatalogInit /\ [][CatalogNext]_catalogVars

-----------------------------------------------------------------------------
AlwaysListed(m) == \A t \in 1..tick : past[t][m] # 0
Caches == {contexts, prices} \ {NotLoaded}

(* A copy is as old as it is dated: what it tells of a model that was      *)
(* always listed was published at that time or later. All rows are dated   *)
(* like the newest when they are read (catalog-db.ts 34-51), so this is    *)
(* only so as long as no save was cut short and none read half done.       *)
DatedTruly ==
  ~partial => \A cache \in Caches, m \in CatalogModels :
    cache.map[m] # 0 /\ AlwaysListed(m) =>
      \E t \in cache.at..tick : past[t][m] = cache.map[m]

(* A restart loses nothing: whichever of the two copies was refreshed, in  *)
(* whatever order the rows of the table and the answer of models.dev came, *)
(* the table has what they have when all saves ended well.                 *)
KnownIsSaved ==
  ~partial /\ saves = {} => \A cache \in Caches, m \in CatalogModels :
    table[m].edition >= cache.map[m]

(* Whoever looks at prices leaves them fresh, a fetch under way, or one    *)
(* that failed within the cooldown; late rows of the table that replace    *)
(* what a fetch brought do not end this (pricing.ts 77-96).                *)
StaleIsFetched ==
  looked = tick /\ reading = NotLoaded =>
    FreshCopy(prices) \/ waiting # {} \/ tick < retryAt

CatalogKept == DatedTruly /\ KnownIsSaved /\ StaleIsFetched
===============================================================================
