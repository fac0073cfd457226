------------------------------ MODULE LogQueries ------------------------------
(***************************************************************************)
(* What the console answers about the requests it has logged: the list and *)
(* its filters, the statistics with their breakdowns, the filter options,  *)
(* the health of the channels, and what the pages make of them             *)
(* (console-store.ts, and the logs, usage and dashboard pages).            *)
(*                                                                         *)
(* The type of a row is that of the channel that answered it. A row's      *)
(* numbers of tokens are what it said of the cache and one token of input. *)
(* At most 20 buckets of a breakdown are shown; there are fewer here.      *)
(***************************************************************************)
EXTENDS Integers, FiniteSets, FiniteSetsExt

CONSTANTS
  Logged,       \* ids of requests
  LogRoutes,    \* channels
  TypeOf,       \* the type of each
  KeyNames,     \* names of API keys
  NotLogged,
  All,          \* a filter left open
  MaxHour       \* bound: how long requests arrive

ASSUME LogQueriesAssumption ==
  /\ TypeOf \in [LogRoutes -> {"anthropic", "openai"}] /\ MaxHour \in Nat
  /\ NotLogged \notin LogRoutes /\ All \notin LogRoutes \cup KeyNames

VARIABLES
  log,   \* the rows of console_requests
  hour   \* the time

logVars == <<log, hour>>

Pending == 0       \* response_status IS NULL
Anonymous == ""    \* api_key_name IS NULL
Asked == "m"       \* the model asked for; another may answer
RowModels == {"m", "n"}

Present == {q \in Logged : log[q] # NotLogged}
Uses(type) ==
  IF type = "openai" THEN [read : {0}, created : {0}, cached : {0, 1}]
                     ELSE [read : {0, 1}, created : {0, 1}, cached : {0}]
NoUse == [read |-> 0, created |-> 0, cached |-> 0]

-----------------------------------------------------------------------------
(* buildRequestWhere                                                       *)

Unfiltered ==
  [route |-> All, model |-> All, key |-> All, client |-> All, after |-> 0,
   status |-> All, cache |-> All]

ModelOf(r) == IF r.named = "" THEN r.asked ELSE r.named

OfStatus(r, status) ==
  CASE status = "success" -> r.status # Pending /\ r.status >= 200 /\ r.status < 400
    [] status = "error" -> r.status = Pending \/ r.status >= 400
    [] OTHER -> TRUE

(* Mutant: what was read and created is under both.                        *)
OfCacheBoth(r, state) ==
  CASE state = "hit" -> r.use.read > 0 \/ r.use.cached > 0
    [] state = "create" -> r.use.created > 0
    [] state = "miss" -> r.use.created = 0 /\ r.use.read = 0 /\ r.use.cached = 0
    [] OTHER -> TRUE
OfCache(r, state) ==
  CASE state = "hit" -> r.use.read > 0 \/ r.use.cached > 0
    [] state = "create" -> r.use.created > 0 /\ r.use.read = 0 /\ r.use.cached = 0
    [] state = "miss" -> r.use.created = 0 /\ r.use.read = 0 /\ r.use.cached = 0
    [] OTHER -> TRUE   \* bypass and error filter nothing

OfKey(r, key) ==
  CASE key = All -> TRUE
    [] key = "__anonymous__" -> r.key = Anonymous
    [] OTHER -> r.key = key

Where(f) ==
  {q \in Present : LET r == log[q] IN
     /\ f.route \in {All, r.route} /\ f.model \in {All, ModelOf(r)}
     /\ r.at >= f.after
     /\ OfStatus(r, f.status) /\ OfKey(r, f.key) /\ OfCache(r, f.cache)}

(* listConsoleRequests: the client is no condition of the list             *)
ListTotal(f) == Cardinality(Where(f))

(* getListCacheState                                                       *)
CacheState(r) ==
  CASE TypeOf[r.route] = "openai" -> IF r.use.cached > 0 THEN "hit" ELSE "miss"
    [] r.use.read > 0 -> "hit"
    [] r.use.created > 0 -> "create"
    [] OTHER -> "miss"

-----------------------------------------------------------------------------
(* buildUsageStats                                                         *)

ClientOf(r) == IF r.key # Anonymous THEN r.key ELSE r.kind

UsageRows(f) == {q \in Where(f) : log[q].kind # "connectivity_test"}
Counted(f) == {q \in UsageRows(f) : f.client \in {All, ClientOf(log[q])}}

IsHit(r) == IF TypeOf[r.route] = "openai" THEN r.use.cached > 0 ELSE r.use.read > 0

Accumulated(qs) ==
  [requests |-> Cardinality(qs),
   errors |-> Cardinality({q \in qs : log[q].status >= 400}),
   hits |-> Cardinality({q \in qs : IsHit(log[q])}),
   creates |-> Cardinality({q \in qs : TypeOf[log[q].route] = "anthropic"
                                         /\ log[q].use.created > 0})]

(* The maps of the breakdowns: a key for every bucket that has a row       *)
Buckets(f, dimension) ==
  LET key(r) == CASE dimension = "routes" -> r.route
                  [] dimension = "models" -> ModelOf(r)
                  [] dimension = "clients" -> ClientOf(r)
                  [] dimension = "time" -> r.at
      qs == Counted(f)
  IN  [k \in {key(log[q]) : q \in qs} |-> Accumulated({q \in qs : key(log[q]) = k})]

Dimensions == {"routes", "models", "clients", "time"}

UsageOptions(f) ==
  [routes |-> {log[q].route : q \in UsageRows(f)},
   models |-> {ModelOf(log[q]) : q \in UsageRows(f)},
   clients |-> {ClientOf(log[q]) : q \in UsageRows(f)}]

(* getConsoleFilterOptions                                                 *)
FilterOptions ==
  [routes |-> {log[q].route : q \in Present}
                \cup {log[q].from : q \in {x \in Present : log[x].from # NotLogged}},
   models |-> {ModelOf(log[q]) : q \in Present},
   keys |-> {IF log[q].key = Anonymous THEN "__anonymous__" ELSE log[q].key : q \in Present}]

(* getProviderHealthStatuses, over the last hour                           *)
HealthOf(c) ==
  LET qs == {q \in Present : log[q].route = c /\ log[q].at >= hour - 1
                              /\ log[q].kind # "connectivity_test"}
      good == {q \in qs : log[q].status >= 200 /\ log[q].status < 400}
  IN  CASE qs = {} -> "no-data"
        [] good = qs -> "healthy"
        [] good # {} -> "degraded"
        [] OTHER -> "down"

-----------------------------------------------------------------------------
(* The pages                                                               *)

(* The dashboard: successes are what is no error                           *)
Dashboard(f) ==
  LET a == Accumulated(Counted(f)) IN
  [requests |-> a.requests, successes |-> Max({0, a.requests - a.errors}),
   limited |-> Cardinality({q \in Where(f) : log[q].status = 429}),
   broken |-> Cardinality({q \in Where(f) : log[q].status >= 500})]

(* The usage page: the buckets of the group shown, each with its share, in *)
(* rounded hundredths of what they have together                           *)
UsagePage(f, group) ==
  LET b == Buckets(f, group)
      total == MapThenSumSet(LAMBDA k : b[k].requests, DOMAIN b)
  IN  [k \in DOMAIN b |-> (200 * b[k].requests + total) \div (2 * total)]

(* A line of the list: its badge and its hit rate, if it has a number to   *)
(* divide by                                                               *)
Badge(r, display) ==
  IF display = "all" /\ r.first >= 400 /\ r.status # Pending /\ r.status # r.first
    THEN <<r.first, r.status>> ELSE <<r.status>>
HitRate(r) ==
  LET read == IF TypeOf[r.route] = "openai" THEN r.use.cached ELSE r.use.read
      of == IF TypeOf[r.route] = "openai" THEN 1 ELSE 1 + r.use.created + read
  IN  IF r.status = Pending THEN 0 ELSE Min({100, (100 * read) \div of})

(* The filters the pages send, one choice at a time on top of a range      *)
FilterChoices ==
  {Unfiltered}
    \cup {[Unfiltered EXCEPT !.route = c] : c \in LogRoutes}
    \cup {[Unfiltered EXCEPT !.model = m] : m \in RowModels}
    \cup {[Unfiltered EXCEPT !.key = k] : k \in KeyNames \cup {"__anonymous__"}}
    \cup {[Unfiltered EXCEPT !.client = k] : k \in KeyNames \cup {"generic"}}
    \cup {[Unfiltered EXCEPT !.status = s] : s \in {"success", "error"}}
    \cup {[Unfiltered EXCEPT !.cache = s] : s \in {"hit", "create", "miss", "bypass"}}
    \cup {[Unfiltered EXCEPT !.after = 1]}

-----------------------------------------------------------------------------
LogInit == log = [q \in Logged |-> NotLogged] /\ hour = 0

Records(q) == \E c \in LogRoutes, k \in KeyNames \cup {Anonymous},
                  kind \in {"generic", "connectivity_test"} :
  /\ log[q] = NotLogged /\ q = CHOOSE p \in Logged : log[p] = NotLogged   \* they are alike
  /\ kind = "connectivity_test" => k = Anonymous
  /\ log' = [log EXCEPT ![q] =
       [route |-> c, from |-> NotLogged, asked |-> Asked, named |-> "", key |-> k, kind |-> kind,
        status |-> Pending, first |-> 0, use |-> NoUse, at |-> hour]]
  /\ UNCHANGED hour

FallsBack(q) ==   \* a 429, and the row of the fallback
  /\ log[q] # NotLogged /\ log[q].status = Pending /\ log[q].from = NotLogged
  /\ \E c \in LogRoutes \ {log[q].route} :
       log' = [log EXCEPT ![q].route = c, ![q].from = log[q].route, ![q].first = 429]
  /\ UNCHANGED hour

Responds(q) ==
  /\ log[q] # NotLogged /\ log[q].status = Pending
  /\ \/ log' = [log EXCEPT ![q].status = 429,
                           ![q].first = IF @ = 0 THEN 429 ELSE @]
     \/ \E use \in Uses(TypeOf[log[q].route]), named \in {"", "n"} :
          /\ named # "" => use = NoUse   \* bound: they have nothing to do with each other
          /\ log' = [log EXCEPT ![q].status = 200, ![q].use = use, ![q].named = named,
                                ![q].first = IF @ = 0 THEN 200 ELSE @]
  /\ UNCHANGED hour

HourPasses == hour < MaxHour /\ hour' = hour + 1 /\ UNCHANGED log

LogNext ==
  \/ \E q \in Logged : Records(q) \/ FallsBack(q) \/ Responds(q)
  \/ HourPasses

LogSpec == LogInit /\ [][LogNext]_logVars

-----------------------------------------------------------------------------
Far(x, y) == IF x > y THEN x - y ELSE y - x

(* Whatever is chosen, a request that the statistics count is in one       *)
(* bucket of each breakdown: routes, models, clients and points of time    *)
(* add up to the overview (console-store.ts 893-998), and the options      *)
(* offered with them have all their keys.                                  *)
AddsUp(f) ==
  LET all == Accumulated(Counted(f))
      options == UsageOptions(f)
  IN  \A d \in Dimensions : \A b \in {Buckets(f, d)}, share \in {UsagePage(f, d)} :
        /\ \A n \in DOMAIN all : MapThenSumSet(LAMBDA k : b[k][n], DOMAIN b) = all[n]
        /\ d # "time" => DOMAIN b \subseteq options[d]
        /\ DOMAIN b # {} =>
             2 * Far(MapThenSumSet(LAMBDA k : share[k], DOMAIN b), 100) <= Cardinality(DOMAIN b)

(* The list and the statistics tell one story: every line is under one of  *)
(* success and error, the errors of the statistics and what is pending,    *)
(* and under the cache state it shows; what the dashboard counts as a      *)
(* success is pending or one, but for connectivity tests; the health of a  *)
(* channel is that of its lines; and every choice the bar offers but the   *)
(* channel a request fell back from finds a line.                          *)
ListAgrees ==
  LET tests == {q \in Present : log[q].kind = "connectivity_test"} IN
  /\ \A q \in Present :
       /\ Cardinality({s \in {"success", "error"} :
                         q \in Where([Unfiltered EXCEPT !.status = s])}) = 1
       /\ {s \in {"hit", "create", "miss"} : q \in Where([Unfiltered EXCEPT !.cache = s])}
            = {CacheState(log[q])}
       /\ CacheState(log[q]) = "hit" <=> HitRate(log[q]) > 0
  /\ ListTotal([Unfiltered EXCEPT !.status = "error"]) =
       Cardinality({q \in Present : log[q].status = Pending \/ Badge(log[q], "final") = <<429>>})
  /\ LET d == Dashboard(Unfiltered) IN
       /\ d.successes = Cardinality({q \in Present \ tests :
                           log[q].status = Pending \/ OfStatus(log[q], "success")})
       /\ d.limited + d.broken <= d.requests - d.successes + Cardinality(tests)
  /\ \A c \in LogRoutes :
       LET own == {q \in Present \ tests : log[q].route = c}
           good == {q \in own : OfStatus(log[q], "success")}
       IN  hour <= 1 =>
             /\ HealthOf(c) = "no-data" <=> own = {}
             /\ HealthOf(c) = "healthy" <=> own # {} /\ good = own
             /\ HealthOf(c) = "down" <=> own # {} /\ good = {}
  /\ \A c \in FilterOptions.routes :
       Where([Unfiltered EXCEPT !.route = c]) = {} => \E q \in Present : log[q].from = c
  /\ \A k \in FilterOptions.keys : Where([Unfiltered EXCEPT !.key = k]) # {}
  /\ \A m \in FilterOptions.models : Where([Unfiltered EXCEPT !.model = m]) # {}

LogsCounted ==
  /\ ListAgrees
  /\ \A f \in FilterChoices :
       f = Unfiltered \/ f.client # All \/ f.status = "error" => AddsUp(f)
===============================================================================
