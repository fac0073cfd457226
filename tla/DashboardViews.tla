--------------------------- MODULE DashboardViews ---------------------------
(***************************************************************************)
(* What the dashboard shows of the gateway's requests: its session         *)
(* (App.tsx), the page mounted by the hash, and the loads of the pages     *)
(* that number them - statistics (use-dashboard-stats.ts,                  *)
(* use-usage-stats.ts), the list and the sheet of the logs                 *)
(* (use-dashboard-data.ts, logs-page.tsx) and the page of one request      *)
(* (detail-page.tsx). Calls are answered in any order. Such a load is      *)
(* applied only if it is the latest of its kind: a call keeps, for the     *)
(* number, whether it still is, and whether its page is still mounted.     *)
(*                                                                         *)
(* Of an answer only what it was asked for is kept: the filter and limit   *)
(* of a list, the request of a detail.                                     *)
(***************************************************************************)
EXTENDS Naturals, FiniteSets

CONSTANTS
  Filters,      \* choices of the filter bar
  Requests,     \* requests whose detail may be asked for
  None,
  MaxVisits,    \* bound: navigations
  MaxBreaks,    \* bound: sessions that end elsewhere, and failed calls
  MaxNet        \* bound: calls in flight

\* The limit; offset and order, which a call takes from the last answer as well, are left out.
Windows == {"fifty", "hundred"}
Questions == [filter : Filters, window : Windows, id : Requests \cup {None}]

ASSUME ViewsAssumption ==
  /\ Filters # {} /\ Requests # {} /\ None \notin Requests /\ None \notin Questions
  /\ MaxVisits \in Nat /\ MaxBreaks \in Nat /\ MaxNet \in Nat \ {0}

VARIABLES
  session,  \* App: the session as the dashboard knows it
  cookie,   \* the browser's cookie is the one the server takes
  page,     \* the page of the hash
  view,     \* the state of the mounted page
  net,      \* calls in flight
  visits, breaks

viewVars == <<session, cookie, page, view, net, visits, breaks>>

Pages == {"stats", "logs", "detail"}
Slots == {"list", "one"}
FirstFilter == CHOOSE f \in Filters : TRUE
FirstAsk == [filter |-> FirstFilter, window |-> "fifty", id |-> None]

(* A page that mounts: nothing shown, its first loads sent.                *)
Mounted(id) ==
  [filter |-> FirstFilter,                \* of the filter bar
   selected |-> id,                       \* the request of the sheet or of the hash
   live |-> FALSE,
   window |-> "fifty",                    \* limit: set by answers only
   list |-> None, one |-> None,
   busy |-> [s \in Slots |-> s = "list" \/ id # None],
   failed |-> [s \in Slots |-> FALSE]]    \* the latest load of the slot ended in an error

Call(s, ask) ==
  [slot |-> s, ask |-> ask, here |-> TRUE, latest |-> TRUE,
   carries |-> cookie, answer |-> "none"]

\* ++loadIdRef.current: what was sent before is not the latest any more.
Superseded(s) == {[c EXCEPT !.latest = c.latest /\ ~(c.here /\ c.slot = s)] : c \in net}
\* Of a page that is left only the latest call may still do something: end the session.
Left == {[c EXCEPT !.here = FALSE, !.ask = FirstAsk] : c \in {d \in net : d.latest}}
HasRoom == Cardinality(net) < MaxNet

-----------------------------------------------------------------------------
(* The server                                                              *)

(* A call carries the cookie of the time it is sent. *)
Answers(c) ==
  /\ c.answer = "none"
  /\ net' = (net \ {c}) \cup
            {[c EXCEPT !.answer = IF c.carries THEN "rows" ELSE "unauthorized"]}
  /\ UNCHANGED <<session, cookie, page, view, visits, breaks>>

Breaks(c) ==
  /\ c.answer = "none" /\ breaks < MaxBreaks
  /\ net' = (net \ {c}) \cup {[c EXCEPT !.answer = "failed"]}
  /\ breaks' = breaks + 1
  /\ UNCHANGED <<session, cookie, page, view, visits>>

(* Logged out in another tab, or the gateway's key changed. *)
CookieGoes ==
  /\ cookie /\ breaks < MaxBreaks
  /\ cookie' = FALSE /\ breaks' = breaks + 1
  /\ UNCHANGED <<session, page, view, net, visits>>

-----------------------------------------------------------------------------
(* The session and the pages                                               *)

FirstCalls(p, id) ==
  CASE p = "stats"  -> {Call("list", FirstAsk)}
    [] p = "logs"   -> {Call("list", FirstAsk)} \cup
                       (IF id = None THEN {} ELSE {Call("one", [FirstAsk EXCEPT !.id = id])})
    [] p = "detail" -> {Call("one", [FirstAsk EXCEPT !.id = id])}

Mounts(p, id) ==
  /\ view' = IF p = "detail" THEN [Mounted(id) EXCEPT !.busy["list"] = FALSE] ELSE Mounted(id)
  /\ net' = Left \cup FirstCalls(p, id)

LoadSession ==
  /\ session = "loading"
  /\ \/ cookie /\ session' = "in" /\ Mounts(page, view.selected)
     \/ ~cookie /\ session' = "out" /\ UNCHANGED <<view, net>>
  /\ UNCHANGED <<cookie, page, visits, breaks>>

Login ==
  /\ session = "out" /\ HasRoom /\ visits < MaxVisits
  /\ cookie' = TRUE /\ session' = "in" /\ visits' = visits + 1
  /\ view' = IF page = "detail" THEN [Mounted(view.selected) EXCEPT !.busy["list"] = FALSE]
                                ELSE Mounted(view.selected)
  /\ net' = Left \cup {[c EXCEPT !.carries = TRUE] : c \in FirstCalls(page, view.selected)}
  /\ UNCHANGED <<page, breaks>>

Logout ==
  /\ session = "in" /\ visits < MaxVisits
  /\ cookie' = FALSE /\ session' = "out" /\ visits' = visits + 1
  /\ net' = Left
  /\ UNCHANGED <<page, view, breaks>>

(* Another page mounts; the page of a request only loads another one.      *)
Navigate(p, id) ==
  /\ session = "in" /\ visits < MaxVisits /\ HasRoom
  /\ p = "stats" => id = None
  /\ p = "detail" => id # None
  /\ visits' = visits + 1 /\ page' = p
  /\ \/ /\ p # page /\ Mounts(p, id)
     \/ /\ p = "detail" /\ page = p /\ id # view.selected
        /\ view' = [view EXCEPT !.selected = id, !.busy["one"] = TRUE]
        /\ net' = Superseded("one") \cup FirstCalls(p, id)
  /\ UNCHANGED <<session, cookie, breaks>>

-----------------------------------------------------------------------------
(* The pages                                                               *)

At(p) == session = "in" /\ page = p
Sends(s, ask) == HasRoom /\ net' = Superseded(s) \cup {Call(s, ask)}
OtherVars == <<session, cookie, page, visits, breaks>>

(* The effect of a changed filter, and the timer of five seconds.          *)
StatsFilter(f) ==
  /\ At("stats") /\ f # view.filter
  /\ view' = [view EXCEPT !.filter = f]
  /\ Sends("list", [FirstAsk EXCEPT !.filter = f])
  /\ UNCHANGED OtherVars

StatsPoll ==
  /\ At("stats")
  /\ Sends("list", [FirstAsk EXCEPT !.filter = view.filter])
  /\ UNCHANGED <<view, OtherVars>>

UsageFilter(f) == StatsFilter(f)
UsagePoll == StatsPoll

(* refreshDashboard: what a caller does not give is taken from the last    *)
(* answer.                                                                 *)
Refresh(ask, loud, v) ==
  /\ view' = [v EXCEPT !.busy["list"] = @ \/ loud]
  /\ Sends("list", ask)
  /\ UNCHANGED OtherVars

AskOf(f, w) == [filter |-> f, window |-> w, id |-> None]

LogsFilter(f) ==
  /\ At("logs") /\ f # view.filter
  /\ Refresh(AskOf(f, view.window), TRUE, [view EXCEPT !.filter = f])
LogsPage ==
  At("logs") /\ Refresh(AskOf(view.filter, view.window), TRUE, view)
LogsSort == LogsPage
LogsLimit(w) ==
  At("logs") /\ Refresh(AskOf(view.filter, w), TRUE, view)
LogsRefresh ==
  /\ At("logs") /\ ~view.busy["list"] /\ ~view.live
  /\ Refresh(AskOf(view.filter, view.window), TRUE, view)
LiveOn ==
  /\ At("logs") /\ ~view.live
  /\ Refresh(AskOf(view.filter, "hundred"), TRUE, [view EXCEPT !.live = TRUE])
LiveOff ==
  /\ At("logs") /\ view.live
  /\ view' = [view EXCEPT !.live = FALSE]
  /\ UNCHANGED <<net, OtherVars>>
LivePoll ==
  At("logs") /\ view.live /\ Refresh(AskOf(view.filter, "hundred"), FALSE, view)

(* The effect of a changed selection. Closing the sheet leaves the number  *)
(* of the last load as it is.                                              *)
Select(id) ==
  /\ At("logs") /\ id # view.selected
  /\ view' = [view EXCEPT !.selected = id, !.one = None, !.failed["one"] = FALSE,
                          !.busy["one"] = TRUE]
  /\ Sends("one", [FirstAsk EXCEPT !.id = id])
  /\ UNCHANGED OtherVars
Close ==
  /\ At("logs") /\ view.selected # None
  /\ view' = [view EXCEPT !.selected = None, !.one = None, !.failed["one"] = FALSE,
                          !.busy["one"] = FALSE]
  /\ UNCHANGED <<net, OtherVars>>

LoadDetail ==
  /\ At("detail")
  /\ view' = [view EXCEPT !.busy["one"] = TRUE]
  /\ Sends("one", [FirstAsk EXCEPT !.id = view.selected])
  /\ UNCHANGED OtherVars

-----------------------------------------------------------------------------
(* An answer arrives                                                       *)

\* Mutant: the number of the load is not compared.
AppliesAny(c) == TRUE

(* loadIdRef.current is still the number of the load.                      *)
Applies(c) == c.latest

\* The list of the logs also takes its limit and offset from the answer.
Listed(v, c) ==
  [v EXCEPT !.list = c.ask, !.window = c.ask.window]
Detailed(v, c) == [v EXCEPT !.one = c.ask.id]

Settled(v, c) ==
  LET answered == IF c.answer # "rows" THEN v
                  ELSE IF c.slot = "list" THEN Listed(v, c) ELSE Detailed(v, c)
  IN [answered EXCEPT !.busy[c.slot] = FALSE, !.failed[c.slot] = c.answer # "rows"]

(* onUnauthorized is the application's, whichever page the call was of.    *)
Arrives(c) ==
  /\ c.answer # "none"
  /\ net' = net \ {c}
  /\ view' = IF Applies(c) /\ c.here /\ session = "in" THEN Settled(view, c) ELSE view
  /\ session' = IF Applies(c) /\ c.answer = "unauthorized" /\ session # "loading"
                THEN "out" ELSE session
  /\ UNCHANGED <<cookie, page, visits, breaks>>

Latest(s) == {c \in net : c.slot = s /\ c.latest /\ c.here}

-----------------------------------------------------------------------------
ViewsInit ==
  /\ session = "loading" /\ cookie = TRUE
  /\ page = "stats" /\ view = Mounted(None) /\ net = {}
  /\ visits = 0 /\ breaks = 0

ViewsNext ==
  \/ LoadSession \/ Login \/ Logout
  \/ \E p \in Pages, id \in Requests \cup {None} : Navigate(p, id)
  \/ CookieGoes
  \/ \E f \in Filters : StatsFilter(f) \/ UsageFilter(f) \/ LogsFilter(f)
  \/ StatsPoll \/ UsagePoll \/ LivePoll
  \/ LogsPage \/ LogsSort
  \/ \E w \in Windows : LogsLimit(w)
  \/ LogsRefresh \/ LiveOn \/ LiveOff
  \/ \E id \in Requests : Select(id)
  \/ Close \/ LoadDetail
  \/ \E c \in net : Answers(c) \/ Breaks(c) \/ Arrives(c)

ViewsSpec == ViewsInit /\ [][ViewsNext]_viewVars

-----------------------------------------------------------------------------
Awaited(s) == Latest(s) # {}

(* What is shown is what was chosen, however changes, polls and answers    *)
(* cross: a list nobody waits for is of the chosen filters unless its last *)
(* load failed, an open sheet is of the request it was opened for, and a   *)
(* page is busy only while an answer is on its way that ends it. The page  *)
(* of one request may show the one before while it loads, and when that    *)
(* failed (use-dashboard-data.ts 85-141, logs-page.tsx 72-103).            *)
ShownIsChosen ==
  session = "in" =>
    /\ page # "detail" /\ ~Awaited("list") /\ ~view.failed["list"]
         => view.list # None /\ view.list.filter = view.filter
    /\ view.selected # None /\ view.one \notin {None, view.selected}
         => page = "detail" /\ (view.busy["one"] \/ view.failed["one"])
    /\ \A s \in Slots : view.busy[s] => Awaited(s)
=============================================================================
