--------------------------- MODULE DashboardProofs ---------------------------
(***************************************************************************)
(* The inductive invariants of the dashboard, for any requests, filters    *)
(* and rows, and any number of calls in flight.                            *)
(*                                                                         *)
(* Its pages (DashboardViews): ShownIsChosen speaks of the calls that are  *)
(* awaited. What keeps it is that the latest call of each slot asks for    *)
(* what is chosen, and that the page has the request it is of.             *)
(*                                                                         *)
(* Its forms (DashboardEditors): OwnWritesShown speaks of the moment       *)
(* nothing is in flight. Before that the list is on its way: a write that  *)
(* was done will load it again, and the last load brings what is stored;   *)
(* or, where answers are put into the list, each row that differs has its  *)
(* answer in flight. NoCrossWrite adds that the open form is of the open   *)
(* channel, and so is a key that was typed into it.                        *)
(***************************************************************************)
EXTENDS DashboardViews, DashboardEditors, SequenceTheorems, TLAPS

-----------------------------------------------------------------------------
(***************************************************************************)
(* The pages                                                               *)
(***************************************************************************)
ViewState ==
  [filter : Filters, selected : Requests \cup {None}, live : BOOLEAN, window : Windows,
   list : Questions \cup {None}, one : Requests \cup {None},
   busy : [Slots -> BOOLEAN], failed : [Slots -> BOOLEAN]]
CallState ==
  [slot : Slots, ask : Questions, here : BOOLEAN, latest : BOOLEAN, carries : BOOLEAN,
   answer : {"none", "rows", "unauthorized", "failed"}]

ViewsTypeOK ==
  /\ session \in {"loading", "in", "out"} /\ cookie \in BOOLEAN /\ page \in Pages
  /\ view \in ViewState /\ net \in SUBSET CallState

\* The statistics have no request, the page of one request has one.
PageHasRequest ==
  /\ page = "stats" => view.selected = None
  /\ page = "detail" => view.selected # None

\* The latest load of each slot asks for what is chosen; a sheet that was closed asks for nothing.
AsksChosen(c) ==
  c.latest /\ c.here =>
    /\ c.slot = "list" => c.ask.filter = view.filter
    /\ c.slot = "one" => c.ask.id = view.selected \/ view.selected = None
LatestAsksChosen == session = "in" => \A c \in net : AsksChosen(c)

ViewsInv == ViewsTypeOK /\ PageHasRequest /\ LatestAsksChosen /\ ShownIsChosen

\* The parts of what is shown: of the list, of the sheet, of what is awaited.
ListShown ==
  page # "detail" /\ ~Awaited("list") /\ ~view.failed["list"]
    => view.list # None /\ view.list.filter = view.filter
SheetShown ==
  view.selected # None /\ view.one \notin {None, view.selected}
    => page = "detail" /\ (view.busy["one"] \/ view.failed["one"])
BusyAwaits == \A s \in Slots : view.busy[s] => Awaited(s)

-----------------------------------------------------------------------------
LEMMA ShownInParts ==
  ShownIsChosen <=> (session = "in" => ListShown /\ SheetShown /\ BusyAwaits)
BY DEF ShownIsChosen, ListShown, SheetShown, BusyAwaits

LEMMA FirstIsQuestion ==
  /\ FirstAsk \in Questions /\ FirstAsk.filter = FirstFilter /\ FirstAsk.id = None
  /\ \A id \in Requests \cup {None} :
       /\ [FirstAsk EXCEPT !.id = id] \in Questions
       /\ [FirstAsk EXCEPT !.id = id].id = id
  /\ \A f \in Filters :
       /\ [FirstAsk EXCEPT !.filter = f] \in Questions
       /\ [FirstAsk EXCEPT !.filter = f].filter = f
<1>1. FirstFilter \in Filters BY ViewsAssumption DEF FirstFilter
<1>2. FirstAsk \in Questions BY <1>1 DEF FirstAsk, Questions, Windows
<1> QED BY <1>1, <1>2 DEF FirstAsk, Questions

LEMMA CallIsCall ==
  ASSUME NEW s \in Slots, NEW ask \in Questions, cookie \in BOOLEAN
  PROVE  /\ Call(s, ask) \in CallState /\ Call(s, ask).slot = s /\ Call(s, ask).ask = ask
         /\ Call(s, ask).latest = TRUE /\ Call(s, ask).here = TRUE
BY DEF Call, CallState

LEMMA MountedIsView ==
  ASSUME NEW id \in Requests \cup {None}
  PROVE  /\ Mounted(id) \in ViewState
         /\ Mounted(id).filter = FirstFilter /\ Mounted(id).selected = id /\ Mounted(id).one = None
         /\ Mounted(id).busy = [s \in Slots |-> s = "list" \/ id # None]
<1>1. FirstFilter \in Filters BY ViewsAssumption DEF FirstFilter
<1>2. [s \in Slots |-> s = "list" \/ id # None] \in [Slots -> BOOLEAN] OBVIOUS
<1>3. [s \in Slots |-> FALSE] \in [Slots -> BOOLEAN] OBVIOUS
<1>4. PICK b : b = [s \in Slots |-> s = "list" \/ id # None] OBVIOUS
<1>5. PICK f : f = [s \in Slots |-> FALSE] OBVIOUS
<1>6. Mounted(id) = [filter |-> FirstFilter, selected |-> id, live |-> FALSE, window |-> "fifty",
                     list |-> None, one |-> None, busy |-> b, failed |-> f]
  BY <1>4, <1>5 DEF Mounted
<1> QED BY <1>1, <1>2, <1>3, <1>4, <1>5, <1>6 DEF ViewState, Windows

\* The calls that are not the latest of their slot any more, or of no page.
LEMMA SupersededTells ==
  ASSUME NEW s \in Slots, net \in SUBSET CallState
  PROVE  /\ Superseded(s) \in SUBSET CallState
         /\ \A c \in Superseded(s) : c.latest /\ c.here => c \in net /\ c.slot # s
         /\ \A t \in Slots \ {s} : Latest(t) \subseteq Superseded(s)
<1> DEFINE after(c) == [c EXCEPT !.latest = c.latest /\ ~(c.here /\ c.slot = s)]
<1>1. Superseded(s) = {after(c) : c \in net} BY DEF Superseded
<1>2. ASSUME NEW c \in net
      PROVE  /\ after(c) \in CallState /\ after(c).here = c.here /\ after(c).slot = c.slot
             /\ after(c).latest = (c.latest /\ ~(c.here /\ c.slot = s))
             /\ c.latest /\ ~(c.here /\ c.slot = s) => after(c) = c
  <2>1. c \in CallState OBVIOUS
  <2>2. c.latest \in BOOLEAN /\ c.here \in BOOLEAN BY <2>1 DEF CallState
  <2>3. PICK b \in BOOLEAN : b = (c.latest /\ ~(c.here /\ c.slot = s)) BY <2>2
  <2>4. after(c) = [c EXCEPT !.latest = b] BY <2>3
  <2> HIDE DEF after
  <2>5. after(c) \in CallState /\ after(c).here = c.here /\ after(c).slot = c.slot /\ after(c).latest = b
    BY <2>1, <2>3, <2>4 DEF CallState
  <2>6. c.latest /\ ~(c.here /\ c.slot = s) => after(c) = c
    <3>1. SUFFICES ASSUME c.latest, ~(c.here /\ c.slot = s) PROVE after(c) = c OBVIOUS
    <3>2. b = TRUE /\ c.latest = TRUE BY <3>1, <2>2, <2>3
    <3> QED BY <2>1, <2>4, <3>2 DEF CallState
  <2> QED BY <2>3, <2>5, <2>6
<1> HIDE DEF after
<1>3. \A c \in Superseded(s) : c.latest /\ c.here => c \in net /\ c.slot # s
  <2>1. SUFFICES ASSUME NEW c \in net, after(c).latest, after(c).here
                 PROVE  after(c) \in net /\ after(c).slot # s
    BY <1>1
  <2> QED BY <2>1, <1>2
<1>4. \A t \in Slots \ {s} : Latest(t) \subseteq Superseded(s)
  BY <1>1, <1>2 DEF Latest
<1> QED BY <1>1, <1>2, <1>3, <1>4

LEMMA LeftTells ==
  ASSUME net \in SUBSET CallState
  PROVE  Left \in SUBSET CallState /\ \A c \in Left : ~c.here
<1> DEFINE after(c) == [c EXCEPT !.here = FALSE, !.ask = FirstAsk]
<1>1. Left = {after(c) : c \in {d \in net : d.latest}} BY DEF Left
<1>2. ASSUME NEW c \in net PROVE after(c) \in CallState /\ ~after(c).here
  BY FirstIsQuestion DEF CallState
<1> HIDE DEF after
<1> QED BY <1>1, <1>2

-----------------------------------------------------------------------------
\* A page that mounts awaits all that it does not show yet.
FreshCalls(calls, id) ==
  /\ calls \in SUBSET CallState
  /\ \A c \in calls : /\ c.latest /\ c.here
                      /\ c.slot = "list" => c.ask.filter = FirstFilter
                      /\ c.slot = "one" => c.ask.id = id
MountedOn(p, id) == IF p = "detail" THEN [Mounted(id) EXCEPT !.busy["list"] = FALSE] ELSE Mounted(id)

LEMMA FirstCallsFresh ==
  ASSUME NEW p \in Pages, NEW id \in Requests \cup {None}, cookie \in BOOLEAN
  PROVE  /\ FreshCalls(FirstCalls(p, id), id)
         /\ p # "detail" => \E c \in FirstCalls(p, id) : c.slot = "list"
         /\ p # "stats" /\ id # None => \E c \in FirstCalls(p, id) : c.slot = "one"
<1>1. PICK a : a = [FirstAsk EXCEPT !.id = id] OBVIOUS
<1>2. a \in Questions /\ a.id = id BY <1>1, FirstIsQuestion
<1>3. PICK c : c = Call("list", FirstAsk) OBVIOUS
<1>4. PICK d : d = Call("one", a) OBVIOUS
<1>5. c \in CallState /\ c.slot = "list" /\ c.latest /\ c.here /\ c.ask.filter = FirstFilter
  BY <1>3, CallIsCall, FirstIsQuestion DEF Slots
<1>6. d \in CallState /\ d.slot = "one" /\ d.latest /\ d.here /\ d.ask.id = id
  BY <1>2, <1>4, CallIsCall DEF Slots
<1>7. CASE p = "stats"
  <2>1. FirstCalls(p, id) = {c} BY <1>7, <1>3 DEF FirstCalls
  <2> QED BY <2>1, <1>5, <1>7 DEF FreshCalls
<1>8. CASE p = "logs"
  <2>1. FirstCalls(p, id) = {c} \cup (IF id = None THEN {} ELSE {d})
    BY <1>8, <1>1, <1>3, <1>4 DEF FirstCalls
  <2> QED BY <2>1, <1>5, <1>6, <1>8 DEF FreshCalls
<1>9. CASE p = "detail"
  <2>1. FirstCalls(p, id) = {d} BY <1>9, <1>1, <1>4 DEF FirstCalls
  <2> QED BY <2>1, <1>6, <1>9 DEF FreshCalls
<1> QED BY <1>7, <1>8, <1>9 DEF Pages

LEMMA MountedKeeps ==
  ASSUME NEW p \in Pages, NEW id \in Requests \cup {None}, NEW calls, ViewsInv,
         FreshCalls(calls, id),
         p # "detail" => \E c \in calls : c.slot = "list",
         p # "stats" /\ id # None => \E c \in calls : c.slot = "one",
         p = "stats" => id = None, p = "detail" => id # None,
         session' = "in", page' = p, cookie' \in BOOLEAN,
         view' = MountedOn(p, id), net' = Left \cup calls
  PROVE  ViewsInv'
<1>1. net \in SUBSET CallState BY DEF ViewsInv, ViewsTypeOK
<1>2. Left \in SUBSET CallState /\ \A c \in Left : ~c.here BY <1>1, LeftTells
<1>3. PICK m : m = Mounted(id) OBVIOUS
<1>4. m \in ViewState /\ m.filter = FirstFilter /\ m.selected = id /\ m.one = None
      /\ m.busy = [s \in Slots |-> s = "list" \/ id # None]
  BY <1>3, MountedIsView
<1>5. view' = IF p = "detail" THEN [m EXCEPT !.busy["list"] = FALSE] ELSE m
  BY <1>3 DEF MountedOn
<1>6. /\ view' \in ViewState /\ view'.filter = FirstFilter /\ view'.selected = id /\ view'.one = None
      /\ view'.busy["one"] => id # None
      /\ view'.busy["list"] => p # "detail"
  <2>1. CASE p = "detail"
    <3>1. PICK b : b = [m.busy EXCEPT !["list"] = FALSE] OBVIOUS
    <3>2. m.busy \in [Slots -> BOOLEAN] BY <1>4 DEF ViewState
    <3>3. b \in [Slots -> BOOLEAN] /\ ~b["list"] /\ (b["one"] => id # None)
      BY <3>1, <3>2, <1>4 DEF Slots
    <3>4. view' = [m EXCEPT !.busy = b] BY <3>1, <2>1, <1>5
    <3> QED BY <3>3, <3>4, <2>1, <1>4 DEF ViewState
  <2>2. CASE p # "detail"
    <3>1. m.busy["one"] => id # None BY <1>4 DEF Slots
    <3> QED BY <3>1, <2>2, <1>4, <1>5
  <2> QED BY <2>1, <2>2
<1>7. net' \in SUBSET CallState BY <1>2 DEF FreshCalls
<1>8. ViewsTypeOK' BY <1>6, <1>7 DEF ViewsTypeOK
<1>9. PageHasRequest' BY <1>6 DEF PageHasRequest
<1>10. LatestAsksChosen' BY <1>2, <1>6 DEF LatestAsksChosen, AsksChosen, FreshCalls
<1>11. /\ p # "detail" => Awaited("list")'
       /\ p # "stats" /\ id # None => Awaited("one")'
  BY DEF Awaited, Latest, FreshCalls
<1>12. ListShown' /\ SheetShown' BY <1>6, <1>11 DEF ListShown, SheetShown
<1>13. BusyAwaits' BY <1>6, <1>11 DEF BusyAwaits, Slots
<1>14. ShownIsChosen' BY <1>12, <1>13 DEF ShownIsChosen, ListShown, SheetShown, BusyAwaits
<1> QED BY <1>8, <1>9, <1>10, <1>14 DEF ViewsInv

\* A load that is sent supersedes the one before of its slot.
LEMMA SendsKeeps ==
  ASSUME NEW s \in Slots, NEW ask \in Questions, ViewsInv, session = "in",
         net' = Superseded(s) \cup {Call(s, ask)}, UNCHANGED <<session, cookie, page>>,
         view' \in ViewState, PageHasRequest',
         s = "list" => /\ ask.filter = view'.filter
                       /\ view'.selected = view.selected /\ view'.one = view.one
                       /\ view'.busy["one"] = view.busy["one"]
                       /\ view'.failed["one"] = view.failed["one"],
         s = "one" => /\ ask.id = view'.selected
                      /\ view'.filter = view.filter /\ view'.list = view.list
                      /\ view'.busy["list"] = view.busy["list"]
                      /\ view'.failed["list"] = view.failed["list"]
                      /\ view'.one = None \/ (page = "detail" /\ view'.busy["one"])
  PROVE  ViewsInv'
<1>1. ViewsTypeOK /\ LatestAsksChosen /\ ListShown /\ SheetShown /\ BusyAwaits
  BY ShownInParts DEF ViewsInv
<1>2. net \in SUBSET CallState /\ cookie \in BOOLEAN BY <1>1 DEF ViewsTypeOK
<1>3. PICK c : c = Call(s, ask) OBVIOUS
<1>4. c \in CallState /\ c.slot = s /\ c.ask = ask /\ c.latest /\ c.here
  BY <1>2, <1>3, CallIsCall
<1>5. PICK old : old = Superseded(s) OBVIOUS
<1>6. /\ old \in SUBSET CallState
      /\ \A d \in old : d.latest /\ d.here => d \in net /\ d.slot # s
      /\ \A t \in Slots \ {s} : Latest(t) \subseteq old
  BY <1>2, <1>5, SupersededTells
<1>7. net' = old \cup {c} BY <1>3, <1>5
<1>8. ViewsTypeOK' BY <1>1, <1>4, <1>6, <1>7 DEF ViewsTypeOK
<1>9. ASSUME NEW d \in net', d.latest, d.here
      PROVE  /\ d.slot = "list" => d.ask.filter = view'.filter
             /\ d.slot = "one" => d.ask.id = view'.selected \/ view'.selected = None
  <2>1. CASE d = c BY <2>1, <1>4 DEF Slots
  <2>2. CASE d \in old
    <3>1. d \in net /\ d.slot # s BY <2>2, <1>6, <1>9
    <3> QED BY <3>1, <1>1, <1>9 DEF LatestAsksChosen, AsksChosen, Slots
  <2> QED BY <2>1, <2>2, <1>7, <1>9
<1>10. LatestAsksChosen' BY <1>9 DEF LatestAsksChosen, AsksChosen
<1>11. Awaited(s)' BY <1>4, <1>7 DEF Awaited, Latest
<1>12. \A t \in Slots : Awaited(t) => Awaited(t)'
  <2>1. SUFFICES ASSUME NEW t \in Slots \ {s}, Awaited(t) PROVE Awaited(t)' BY <1>11
  <2> QED BY <2>1, <1>6, <1>7 DEF Awaited, Latest
<1>13. ListShown' BY <1>1, <1>11, <1>12 DEF ListShown, Slots
<1>14. SheetShown' BY <1>1 DEF SheetShown, Slots
<1>15. BusyAwaits' BY <1>1, <1>11, <1>12 DEF BusyAwaits, Slots
<1>16. ShownIsChosen' BY <1>13, <1>14, <1>15 DEF ShownIsChosen, ListShown, SheetShown, BusyAwaits
<1> QED BY <1>8, <1>10, <1>16 DEF ViewsInv

\* A call that the server answers is still the call that it was.
LEMMA AnsweredKeeps ==
  ASSUME ViewsInv, NEW c \in net, NEW d \in CallState,
         d.slot = c.slot, d.ask = c.ask, d.here = c.here, d.latest = c.latest,
         net' = (net \ {c}) \cup {d}, UNCHANGED <<session, cookie, page, view>>
  PROVE  ViewsInv'
<1>1. ViewsTypeOK /\ PageHasRequest /\ LatestAsksChosen
      /\ (session = "in" => ListShown /\ SheetShown /\ BusyAwaits)
  BY ShownInParts DEF ViewsInv
<1>2. ViewsTypeOK' BY <1>1 DEF ViewsTypeOK
<1>3. PageHasRequest' BY <1>1 DEF PageHasRequest
<1>4. LatestAsksChosen' BY <1>1 DEF LatestAsksChosen, AsksChosen
<1>5. \A s \in Slots : Awaited(s)' <=> Awaited(s) BY DEF Awaited, Latest
<1>6. session = "in" => ListShown' /\ SheetShown' /\ BusyAwaits'
  BY <1>1, <1>5 DEF ListShown, SheetShown, BusyAwaits, Slots
<1>7. ShownIsChosen' BY <1>6 DEF ShownIsChosen, ListShown, SheetShown, BusyAwaits
<1> QED BY <1>2, <1>3, <1>4, <1>7 DEF ViewsInv
-----------------------------------------------------------------------------
(* Each step                                                               *)

LEMMA ViewsParts ==
  ASSUME ViewsInv
  PROVE  /\ ViewsTypeOK /\ PageHasRequest /\ LatestAsksChosen
         /\ session = "in" => ListShown /\ SheetShown /\ BusyAwaits
BY ShownInParts DEF ViewsInv

LEMMA AnswersKeeps ==
  ASSUME NEW c \in net, ViewsInv, Answers(c) \/ Breaks(c)
  PROVE  ViewsInv'
<1>1. c \in CallState BY DEF ViewsInv, ViewsTypeOK
<1>2. PICK a \in {"rows", "unauthorized", "failed"} : net' = (net \ {c}) \cup {[c EXCEPT !.answer = a]}
  BY DEF Answers, Breaks
<1>3. PICK d : d = [c EXCEPT !.answer = a] OBVIOUS
<1>4. d \in CallState /\ d.slot = c.slot /\ d.ask = c.ask /\ d.here = c.here /\ d.latest = c.latest
  BY <1>1, <1>3 DEF CallState
<1>5. net' = (net \ {c}) \cup {d} /\ UNCHANGED <<session, cookie, page, view>>
  BY <1>2, <1>3 DEF Answers, Breaks
<1> QED BY <1>4, <1>5, AnsweredKeeps

\* The same calls, of the same page, with the same choices.
LEMMA SameViewKeeps ==
  ASSUME ViewsInv, cookie' \in BOOLEAN, UNCHANGED <<session, page, view, net>>
  PROVE  ViewsInv'
<1>1. ViewsTypeOK' BY DEF ViewsInv, ViewsTypeOK
<1>2. PageHasRequest' /\ LatestAsksChosen'
  BY DEF ViewsInv, PageHasRequest, LatestAsksChosen, AsksChosen
<1>3. ShownIsChosen' BY DEF ViewsInv, ShownIsChosen, Awaited, Latest
<1> QED BY <1>1, <1>2, <1>3 DEF ViewsInv

\* Logged out, the dashboard shows nothing.
LEMMA OutKeeps ==
  ASSUME ViewsInv, session' = "out", cookie' \in BOOLEAN, net' \in SUBSET CallState,
         UNCHANGED <<page, view>>
  PROVE  ViewsInv'
<1>1. ViewsTypeOK' BY DEF ViewsInv, ViewsTypeOK
<1>2. PageHasRequest' BY DEF ViewsInv, PageHasRequest
<1>3. LatestAsksChosen' /\ ShownIsChosen' BY DEF LatestAsksChosen, ShownIsChosen
<1> QED BY <1>1, <1>2, <1>3 DEF ViewsInv

LEMMA SessionKeeps ==
  ASSUME ViewsInv, LoadSession \/ Login \/ Logout \/ CookieGoes
  PROVE  ViewsInv'
<1>1. ViewsTypeOK /\ PageHasRequest BY ViewsParts
<1>2. page \in Pages /\ cookie \in BOOLEAN /\ view.selected \in Requests \cup {None}
  BY <1>1 DEF ViewsTypeOK, ViewState
<1>3. PICK id \in Requests \cup {None} : id = view.selected BY <1>2
<1>4. (page = "stats" => id = None) /\ (page = "detail" => id # None)
  BY <1>1, <1>3 DEF PageHasRequest
<1>5. PICK calls : calls = FirstCalls(page, id) OBVIOUS
<1>6. /\ FreshCalls(calls, id)
      /\ page # "detail" => \E c \in calls : c.slot = "list"
      /\ page # "stats" /\ id # None => \E c \in calls : c.slot = "one"
  BY <1>2, <1>5, FirstCallsFresh
<1>7. net \in SUBSET CallState /\ Left \in SUBSET CallState
  BY <1>1, LeftTells DEF ViewsTypeOK
<1>8. CASE LoadSession
  <2>1. CASE cookie
    <3>1. session' = "in" /\ cookie' = cookie /\ page' = page /\ view' = MountedOn(page, id)
          /\ net' = Left \cup calls
      BY <1>3, <1>5, <1>8, <2>1 DEF LoadSession, Mounts, MountedOn
    <3> QED BY <3>1, <1>2, <1>4, <1>6, MountedKeeps
  <2>2. CASE ~cookie
    BY <1>2, <1>7, <1>8, <2>2, OutKeeps DEF LoadSession
  <2> QED BY <2>1, <2>2
<1>9. CASE Login
  <2> DEFINE after(c) == [c EXCEPT !.carries = TRUE]
  <2>1. PICK carried : carried = {after(c) : c \in calls} OBVIOUS
  <2>2. \A c \in calls : /\ after(c) \in CallState /\ after(c).slot = c.slot
                         /\ after(c).ask = c.ask /\ after(c).here = c.here
                         /\ after(c).latest = c.latest
    BY <1>6 DEF FreshCalls, CallState
  <2>3. /\ FreshCalls(carried, id)
        /\ page # "detail" => \E c \in carried : c.slot = "list"
        /\ page # "stats" /\ id # None => \E c \in carried : c.slot = "one"
    <3> HIDE DEF after
    <3> QED BY <2>1, <2>2, <1>6 DEF FreshCalls
  <2>4. session' = "in" /\ cookie' = TRUE /\ page' = page /\ view' = MountedOn(page, id)
        /\ net' = Left \cup carried
    BY <1>3, <1>5, <1>9, <2>1 DEF Login, MountedOn
  <2> QED BY <2>3, <2>4, <1>2, <1>4, MountedKeeps
<1>10. CASE Logout BY <1>7, <1>10, OutKeeps DEF Logout
<1>11. CASE CookieGoes BY <1>11, SameViewKeeps DEF CookieGoes
<1> QED BY <1>8, <1>9, <1>10, <1>11

LEMMA NavigateKeeps ==
  ASSUME ViewsInv, NEW p \in Pages, NEW id \in Requests \cup {None}, Navigate(p, id)
  PROVE  ViewsInv'
<1>1. ViewsTypeOK BY ViewsParts
<1>2. cookie \in BOOLEAN /\ view \in ViewState BY <1>1 DEF ViewsTypeOK
<1>3. session = "in" /\ (p = "stats" => id = None) /\ (p = "detail" => id # None) /\ page' = p
      /\ UNCHANGED <<session, cookie>>
  BY DEF Navigate
<1>4. PICK calls : calls = FirstCalls(p, id) OBVIOUS
<1>5. CASE Mounts(p, id)
  <2>1. /\ FreshCalls(calls, id)
        /\ p # "detail" => \E c \in calls : c.slot = "list"
        /\ p # "stats" /\ id # None => \E c \in calls : c.slot = "one"
    BY <1>2, <1>4, FirstCallsFresh
  <2>2. view' = MountedOn(p, id) /\ net' = Left \cup calls
    BY <1>4, <1>5 DEF Mounts, MountedOn
  <2> QED BY <2>1, <2>2, <1>2, <1>3, MountedKeeps
<1>6. CASE /\ p = "detail" /\ page = p
           /\ view' = [view EXCEPT !.selected = id, !.busy["one"] = TRUE]
           /\ net' = Superseded("one") \cup FirstCalls(p, id)
  <2>1. PICK a : a = [FirstAsk EXCEPT !.id = id] OBVIOUS
  <2>2. a \in Questions /\ a.id = id BY <2>1, FirstIsQuestion
  <2>3. net' = Superseded("one") \cup {Call("one", a)} BY <1>6, <2>1 DEF FirstCalls
  <2>4. PICK b : b = [view.busy EXCEPT !["one"] = TRUE] OBVIOUS
  <2>5. b \in [Slots -> BOOLEAN] /\ b["one"] /\ b["list"] = view.busy["list"]
    BY <2>4, <1>2 DEF ViewState, Slots
  <2>6. view' = [view EXCEPT !.selected = id, !.busy = b] BY <1>6, <2>4
  <2>7. view' \in ViewState /\ view'.selected = id /\ view'.filter = view.filter
        /\ view'.list = view.list /\ view'.busy = b /\ view'.failed = view.failed
    BY <2>5, <2>6, <1>2 DEF ViewState
  <2>8. PageHasRequest' BY <2>7, <1>3, <1>6 DEF PageHasRequest
  <2> QED BY <2>2, <2>3, <2>5, <2>7, <2>8, <1>3, <1>6, SendsKeeps DEF Slots
<1> QED BY <1>5, <1>6 DEF Navigate

\* A load of the list, from the statistics or from the logs.
LEMMA ListSentKeeps ==
  ASSUME ViewsInv, NEW f \in Filters, NEW w \in Windows, NEW live \in BOOLEAN, NEW loud \in BOOLEAN,
         session = "in", page # "detail", HasRoom,
         view' = [view EXCEPT !.filter = f, !.live = live, !.busy["list"] = view.busy["list"] \/ loud],
         net' = Superseded("list") \cup {Call("list", AskOf(f, w))}, UNCHANGED OtherVars
  PROVE  ViewsInv'
<1>1. ViewsTypeOK /\ PageHasRequest BY ViewsParts
<1>2. view \in ViewState BY <1>1 DEF ViewsTypeOK
<1>3. PICK a : a = AskOf(f, w) OBVIOUS
<1>4. a \in Questions /\ a.filter = f BY <1>3 DEF AskOf, Questions
<1>5. view.busy \in [Slots -> BOOLEAN] BY <1>2 DEF ViewState
<1>6. view.busy["list"] \in BOOLEAN BY <1>5 DEF Slots
<1>7. PICK l \in BOOLEAN : l = (view.busy["list"] \/ loud) BY <1>6
<1>8. PICK b : b = [view.busy EXCEPT !["list"] = l] OBVIOUS
<1>9. b \in [Slots -> BOOLEAN] /\ b["one"] = view.busy["one"] BY <1>5, <1>8 DEF Slots
<1>10. view' = [view EXCEPT !.filter = f, !.live = live, !.busy = b] BY <1>7, <1>8
<1>11. view' \in ViewState /\ view'.filter = f /\ view'.selected = view.selected
       /\ view'.one = view.one /\ view'.busy = b /\ view'.failed = view.failed
  BY <1>2, <1>9, <1>10 DEF ViewState
<1>12. UNCHANGED <<session, cookie, page>> BY DEF OtherVars
<1>13. PageHasRequest' BY <1>1, <1>11, <1>12 DEF PageHasRequest
<1> QED BY <1>3, <1>4, <1>9, <1>11, <1>12, <1>13, SendsKeeps DEF Slots

LEMMA StatsKeeps ==
  ASSUME ViewsInv, StatsPoll \/ UsagePoll \/ \E f \in Filters : StatsFilter(f) \/ UsageFilter(f)
  PROVE  ViewsInv'
<1>1. ViewsTypeOK BY ViewsParts
<1>2. view \in ViewState BY <1>1 DEF ViewsTypeOK
<1>3. PICK f \in Filters : /\ view' = [view EXCEPT !.filter = f]
                           /\ Sends("list", [FirstAsk EXCEPT !.filter = f])
                           /\ At("stats") /\ UNCHANGED OtherVars
  <2>1. view = [view EXCEPT !.filter = view.filter] /\ view.filter \in Filters
    BY <1>2 DEF ViewState
  <2>2. CASE StatsPoll \/ UsagePoll BY <2>1, <2>2 DEF StatsPoll, UsagePoll
  <2>3. CASE \E f \in Filters : StatsFilter(f) \/ UsageFilter(f)
    BY <2>3 DEF StatsFilter, UsageFilter
  <2> QED BY <2>2, <2>3
<1>4. [FirstAsk EXCEPT !.filter = f] = AskOf(f, "fifty") BY DEF FirstAsk, AskOf
<1>5. view' = [view EXCEPT !.filter = f, !.live = view.live, !.busy["list"] = view.busy["list"] \/ FALSE]
  BY <1>2, <1>3 DEF ViewState, Slots
<1>6. view.live \in BOOLEAN BY <1>2 DEF ViewState
<1> QED BY <1>3, <1>4, <1>5, <1>6, ListSentKeeps DEF Sends, At, Windows

LEMMA LogsKeeps ==
  ASSUME ViewsInv,
         \/ \E f \in Filters : LogsFilter(f)
         \/ LogsPage \/ LogsSort \/ LogsRefresh \/ LiveOn \/ LivePoll
         \/ \E w \in Windows : LogsLimit(w)
  PROVE  ViewsInv'
<1>1. ViewsTypeOK BY ViewsParts
<1>2. view \in ViewState BY <1>1 DEF ViewsTypeOK
<1>3. view.filter \in Filters /\ view.window \in Windows /\ view.live \in BOOLEAN
      /\ view.busy \in [Slots -> BOOLEAN]
  BY <1>2 DEF ViewState
<1>4. PICK f \in Filters, w \in Windows, live \in BOOLEAN, loud \in BOOLEAN :
         At("logs") /\ Refresh(AskOf(f, w), loud, [view EXCEPT !.filter = f, !.live = live])
  <2>1. view = [view EXCEPT !.filter = view.filter, !.live = view.live]
        /\ [view EXCEPT !.live = TRUE] = [view EXCEPT !.filter = view.filter, !.live = TRUE]
    BY <1>2 DEF ViewState
  <2>2. \A f \in Filters : [view EXCEPT !.filter = f] = [view EXCEPT !.filter = f, !.live = view.live]
    BY <1>2 DEF ViewState
  <2>3. ASSUME NEW w \in Windows, NEW loud \in BOOLEAN, At("logs"), Refresh(AskOf(view.filter, w), loud, view)
        PROVE  \E f \in Filters, u \in Windows, live \in BOOLEAN, l \in BOOLEAN :
                 At("logs") /\ Refresh(AskOf(f, u), l, [view EXCEPT !.filter = f, !.live = live])
    <3>1. Refresh(AskOf(view.filter, w), loud, [view EXCEPT !.filter = view.filter, !.live = view.live])
      BY <2>1, <2>3
    <3> QED BY <3>1, <2>3, <1>3
  <2>9. CASE \E f \in Filters : LogsFilter(f)
    <3>1. PICK f \in Filters : LogsFilter(f) BY <2>9
    <3> QED BY <3>1, <2>2, <1>3 DEF LogsFilter
  <2>4. CASE LogsPage \/ LogsSort BY <2>4, <2>3, <1>3 DEF LogsPage, LogsSort
  <2>5. CASE LogsRefresh BY <2>5, <2>3, <1>3 DEF LogsRefresh
  <2>6. CASE LiveOn BY <2>6, <2>1, <1>3 DEF LiveOn, Windows
  <2>7. CASE LivePoll BY <2>7, <2>3 DEF LivePoll, Windows
  <2>8. CASE \E w \in Windows : LogsLimit(w) BY <2>8, <2>3, <1>3 DEF LogsLimit
  <2> QED BY <2>9, <2>4, <2>5, <2>6, <2>7, <2>8
<1>5. view' = [view EXCEPT !.filter = f, !.live = live, !.busy["list"] = view.busy["list"] \/ loud]
  BY <1>2, <1>4 DEF Refresh, ViewState
<1>6. HasRoom /\ net' = Superseded("list") \cup {Call("list", AskOf(f, w))} /\ UNCHANGED OtherVars
      /\ session = "in" /\ page # "detail"
  BY <1>4 DEF Refresh, Sends, At
<1> QED BY <1>5, <1>6, ListSentKeeps

LEMMA SelectKeeps ==
  ASSUME ViewsInv, LoadDetail \/ \E id \in Requests : Select(id)
  PROVE  ViewsInv'
<1>1. ViewsTypeOK /\ PageHasRequest BY ViewsParts
<1>2. view \in ViewState BY <1>1 DEF ViewsTypeOK
<1>3. CASE LoadDetail
  <2>1. PICK id \in Requests \cup {None} : id = view.selected BY <1>2 DEF ViewState
  <2>2. PICK a : a = [FirstAsk EXCEPT !.id = id] OBVIOUS
  <2>3. a \in Questions /\ a.id = id BY <2>2, FirstIsQuestion
  <2>4. session = "in" /\ page = "detail" /\ net' = Superseded("one") \cup {Call("one", a)}
        /\ UNCHANGED <<session, cookie, page>> /\ view' = [view EXCEPT !.busy["one"] = TRUE]
    BY <1>3, <2>1, <2>2 DEF LoadDetail, Sends, At, OtherVars
  <2>5. PICK b : b = [view.busy EXCEPT !["one"] = TRUE] OBVIOUS
  <2>6. b \in [Slots -> BOOLEAN] /\ b["one"] /\ b["list"] = view.busy["list"]
    BY <2>5, <1>2 DEF ViewState, Slots
  <2>7. view' = [view EXCEPT !.busy = b] BY <2>4, <2>5
  <2>8. view' \in ViewState /\ view'.selected = view.selected /\ view'.filter = view.filter
        /\ view'.list = view.list /\ view'.busy = b /\ view'.failed = view.failed
    BY <2>6, <2>7, <1>2 DEF ViewState
  <2>9. PageHasRequest' BY <2>8, <2>4, <1>1 DEF PageHasRequest
  <2> QED BY <2>1, <2>3, <2>4, <2>6, <2>8, <2>9, SendsKeeps DEF Slots
<1>4. ASSUME NEW id \in Requests, Select(id) PROVE ViewsInv'
  <2>1. PICK a : a = [FirstAsk EXCEPT !.id = id] OBVIOUS
  <2>2. a \in Questions /\ a.id = id BY <2>1, FirstIsQuestion
  <2>3. session = "in" /\ page = "logs" /\ net' = Superseded("one") \cup {Call("one", a)}
        /\ UNCHANGED <<session, cookie, page>>
        /\ view' = [view EXCEPT !.selected = id, !.one = None, !.failed["one"] = FALSE, !.busy["one"] = TRUE]
    BY <1>4, <2>1 DEF Select, Sends, At, OtherVars
  <2>4. PICK b : b = [view.busy EXCEPT !["one"] = TRUE] OBVIOUS
  <2>5. PICK f : f = [view.failed EXCEPT !["one"] = FALSE] OBVIOUS
  <2>6. /\ b \in [Slots -> BOOLEAN] /\ b["one"] /\ b["list"] = view.busy["list"]
        /\ f \in [Slots -> BOOLEAN] /\ f["list"] = view.failed["list"]
    BY <2>4, <2>5, <1>2 DEF ViewState, Slots
  <2>7. view' = [view EXCEPT !.selected = id, !.one = None, !.failed = f, !.busy = b]
    BY <2>3, <2>4, <2>5
  <2>8. view' \in ViewState /\ view'.selected = id /\ view'.filter = view.filter /\ view'.one = None
        /\ view'.list = view.list /\ view'.busy = b /\ view'.failed = f
    BY <2>6, <2>7, <1>2 DEF ViewState
  <2>9. PageHasRequest' BY <2>8, <2>3 DEF PageHasRequest
  <2> QED BY <2>2, <2>3, <2>6, <2>8, <2>9, SendsKeeps DEF Slots
<1> QED BY <1>3, <1>4

LEMMA QuietKeeps ==
  ASSUME ViewsInv, LiveOff \/ Close
  PROVE  ViewsInv'
<1>1. ViewsTypeOK /\ PageHasRequest /\ LatestAsksChosen /\ session = "in" /\ page = "logs"
      /\ ListShown /\ SheetShown /\ BusyAwaits
  BY ViewsParts DEF LiveOff, Close, At
<1>2. view \in ViewState BY <1>1 DEF ViewsTypeOK
<1>3. UNCHANGED <<session, cookie, page, net>> BY DEF LiveOff, Close, OtherVars
<1>4. /\ view' \in ViewState /\ view'.filter = view.filter /\ view'.list = view.list
      /\ view'.busy["list"] = view.busy["list"] /\ view'.failed["list"] = view.failed["list"]
      /\ \/ /\ view'.selected = view.selected /\ view'.one = view.one
            /\ view'.busy["one"] = view.busy["one"] /\ view'.failed["one"] = view.failed["one"]
         \/ view'.selected = None /\ ~view'.busy["one"]
  <2>1. CASE LiveOff BY <2>1, <1>2 DEF LiveOff, ViewState
  <2>2. CASE Close
    <3>1. PICK b : b = [view.busy EXCEPT !["one"] = FALSE] OBVIOUS
    <3>2. PICK f : f = [view.failed EXCEPT !["one"] = FALSE] OBVIOUS
    <3>3. /\ b \in [Slots -> BOOLEAN] /\ ~b["one"] /\ b["list"] = view.busy["list"]
          /\ f \in [Slots -> BOOLEAN] /\ f["list"] = view.failed["list"]
      BY <3>1, <3>2, <1>2 DEF ViewState, Slots
    <3>4. view' = [view EXCEPT !.selected = None, !.one = None, !.failed = f, !.busy = b]
      BY <3>1, <3>2, <2>2 DEF Close
    <3> QED BY <3>3, <3>4, <1>2 DEF ViewState
  <2> QED BY <2>1, <2>2
<1>5. ViewsTypeOK' BY <1>1, <1>3, <1>4 DEF ViewsTypeOK
<1>6. PageHasRequest' BY <1>1, <1>3 DEF PageHasRequest
<1>7. LatestAsksChosen' BY <1>1, <1>3, <1>4 DEF LatestAsksChosen, AsksChosen
<1>8. \A s \in Slots : Awaited(s)' <=> Awaited(s) BY <1>3 DEF Awaited, Latest
<1>9. ListShown' BY <1>1, <1>3, <1>4, <1>8 DEF ListShown, Slots
<1>10. SheetShown' BY <1>1, <1>3, <1>4 DEF SheetShown
<1>11. BusyAwaits' BY <1>1, <1>4, <1>8 DEF BusyAwaits, Slots
<1>12. ShownIsChosen' BY <1>9, <1>10, <1>11 DEF ShownIsChosen, ListShown, SheetShown, BusyAwaits
<1> QED BY <1>5, <1>6, <1>7, <1>12 DEF ViewsInv

\* The answer to the latest call is the answer to what is chosen.
LEMMA SettledTells ==
  ASSUME NEW c \in CallState, view \in ViewState
  PROVE  /\ Settled(view, c) \in ViewState
         /\ Settled(view, c).filter = view.filter /\ Settled(view, c).selected = view.selected
         /\ Settled(view, c).busy = [view.busy EXCEPT ![c.slot] = FALSE]
         /\ Settled(view, c).failed = [view.failed EXCEPT ![c.slot] = c.answer # "rows"]
         /\ Settled(view, c).list = IF c.answer = "rows" /\ c.slot = "list" THEN c.ask ELSE view.list
         /\ Settled(view, c).one = IF c.answer = "rows" /\ c.slot # "list" THEN c.ask.id ELSE view.one
<1>1. PICK a : a = IF c.answer # "rows" THEN view
                   ELSE IF c.slot = "list" THEN Listed(view, c) ELSE Detailed(view, c)
  OBVIOUS
<1>2. c.ask \in Questions /\ c.ask.window \in Windows /\ c.ask.id \in Requests \cup {None}
      /\ c.slot \in Slots
  BY DEF CallState, Questions
<1>3. /\ a \in ViewState /\ a.filter = view.filter /\ a.selected = view.selected
      /\ a.busy = view.busy /\ a.failed = view.failed
      /\ a.list = IF c.answer = "rows" /\ c.slot = "list" THEN c.ask ELSE view.list
      /\ a.one = IF c.answer = "rows" /\ c.slot # "list" THEN c.ask.id ELSE view.one
  <2>1. CASE c.answer # "rows" BY <2>1, <1>1
  <2>2. CASE c.answer = "rows" /\ c.slot = "list" BY <2>2, <1>1, <1>2 DEF Listed, ViewState
  <2>3. CASE c.answer = "rows" /\ c.slot # "list" BY <2>3, <1>1, <1>2 DEF Detailed, ViewState
  <2> QED BY <2>1, <2>2, <2>3
<1>4. PICK bad \in BOOLEAN : bad = (c.answer # "rows") OBVIOUS
<1>5. PICK b : b = [a.busy EXCEPT ![c.slot] = FALSE] OBVIOUS
<1>6. PICK f : f = [a.failed EXCEPT ![c.slot] = bad] OBVIOUS
<1>7. b \in [Slots -> BOOLEAN] /\ f \in [Slots -> BOOLEAN]
  BY <1>2, <1>3, <1>5, <1>6 DEF ViewState
<1>8. Settled(view, c) = [a EXCEPT !.busy = b, !.failed = f] BY <1>1, <1>4, <1>5, <1>6 DEF Settled
<1> QED BY <1>3, <1>4, <1>5, <1>6, <1>7, <1>8 DEF ViewState

LEMMA ArrivesKeeps ==
  ASSUME NEW c \in net, ViewsInv, Arrives(c)
  PROVE  ViewsInv'
<1>1. ViewsTypeOK /\ PageHasRequest /\ LatestAsksChosen
      /\ (session = "in" => ListShown /\ SheetShown /\ BusyAwaits)
  BY ViewsParts
<1>2. c \in CallState /\ view \in ViewState BY <1>1 DEF ViewsTypeOK
<1>3. /\ net' = net \ {c} /\ UNCHANGED <<cookie, page>>
      /\ session' \in {session, "out"}
      /\ view' = IF c.latest /\ c.here /\ session = "in" THEN Settled(view, c) ELSE view
  BY DEF Arrives, Applies
<1>4. PICK v : v = Settled(view, c) OBVIOUS
<1>5. /\ v \in ViewState /\ v.filter = view.filter /\ v.selected = view.selected
      /\ v.busy = [view.busy EXCEPT ![c.slot] = FALSE]
      /\ v.failed = [view.failed EXCEPT ![c.slot] = c.answer # "rows"]
      /\ v.list = IF c.answer = "rows" /\ c.slot = "list" THEN c.ask ELSE view.list
      /\ v.one = IF c.answer = "rows" /\ c.slot # "list" THEN c.ask.id ELSE view.one
  BY <1>2, <1>4, SettledTells
<1>6. view' \in {view, v} BY <1>3, <1>4
<1>7. view' \in ViewState /\ view'.filter = view.filter /\ view'.selected = view.selected
  BY <1>2, <1>5, <1>6
<1>8. ViewsTypeOK' BY <1>1, <1>3, <1>7 DEF ViewsTypeOK
<1>9. PageHasRequest' BY <1>1, <1>3, <1>7 DEF PageHasRequest
<1>10. LatestAsksChosen' BY <1>1, <1>3, <1>7 DEF LatestAsksChosen, AsksChosen
<1>11. ASSUME session' = "in" PROVE ListShown' /\ SheetShown' /\ BusyAwaits'
  <2>1. session = "in" /\ ListShown /\ SheetShown /\ BusyAwaits BY <1>1, <1>3, <1>11
  <2>2. CASE ~(c.latest /\ c.here)
    <3>1. view' = view BY <2>2, <1>3
    <3>2. \A s \in Slots : Awaited(s)' <=> Awaited(s) BY <2>2, <1>3 DEF Awaited, Latest
    <3> QED BY <3>1, <3>2, <2>1, <1>3 DEF ListShown, SheetShown, BusyAwaits, Slots
  <2>3. CASE c.latest /\ c.here
    <3>1. view' = v BY <2>1, <2>3, <1>3, <1>4
    <3>2. c.slot \in Slots /\ c.ask \in Questions /\ c.ask # None
      BY <1>2, ViewsAssumption DEF CallState
    <3>3. \A s \in Slots \ {c.slot} : Awaited(s)' <=> Awaited(s) BY <1>3 DEF Awaited, Latest
    <3>4. AsksChosen(c) BY <2>1, <1>1 DEF LatestAsksChosen
    <3>5. view.busy \in [Slots -> BOOLEAN] /\ view.failed \in [Slots -> BOOLEAN]
      BY <1>2 DEF ViewState
    <3>6. CASE c.slot = "list"
      <4>1. v.failed["list"] = (c.answer # "rows") /\ v.failed["one"] = view.failed["one"]
            /\ v.busy["one"] = view.busy["one"] /\ ~v.busy["list"]
        BY <3>5, <3>6, <1>5 DEF Slots
      <4>2. ListShown' BY <4>1, <3>1, <3>2, <3>4, <3>6, <2>3, <1>5 DEF ListShown, AsksChosen
      <4>3. SheetShown' BY <4>1, <3>1, <3>6, <2>1, <1>3, <1>5 DEF SheetShown
      <4>4. BusyAwaits' BY <4>1, <3>1, <3>3, <3>6, <2>1 DEF BusyAwaits, Slots
      <4> QED BY <4>2, <4>3, <4>4
    <3>7. CASE c.slot = "one"
      <4>1. v.failed["one"] = (c.answer # "rows") /\ v.failed["list"] = view.failed["list"]
            /\ v.busy["list"] = view.busy["list"] /\ ~v.busy["one"]
        BY <3>5, <3>7, <1>5 DEF Slots
      <4>2. ListShown' BY <4>1, <3>1, <3>3, <3>7, <2>1, <1>3, <1>5 DEF ListShown, Slots
      <4>3. SheetShown'
        <5>1. CASE c.answer = "rows"
          <6>1. v.one = c.ask.id BY <5>1, <3>7, <1>5
          <6>2. c.ask.id = view.selected \/ view.selected = None BY <3>4, <3>7, <2>3 DEF AsksChosen
          <6> QED BY <6>1, <6>2, <3>1, <1>5 DEF SheetShown
        <5>2. CASE c.answer # "rows"
          <6>1. v.one = view.one /\ v.failed["one"] BY <5>2, <4>1, <1>5
          <6> QED BY <6>1, <3>1, <2>1, <1>3, <1>5 DEF SheetShown
        <5> QED BY <5>1, <5>2
      <4>4. BusyAwaits' BY <4>1, <3>1, <3>3, <3>7, <2>1 DEF BusyAwaits, Slots
      <4> QED BY <4>2, <4>3, <4>4
    <3> QED BY <3>2, <3>6, <3>7 DEF Slots
  <2> QED BY <2>2, <2>3
<1>12. ShownIsChosen' BY <1>11 DEF ShownIsChosen, ListShown, SheetShown, BusyAwaits
<1> QED BY <1>8, <1>9, <1>10, <1>12 DEF ViewsInv

-----------------------------------------------------------------------------
LEMMA ViewsStart == ViewsInit => ViewsInv
<1> SUFFICES ASSUME ViewsInit PROVE ViewsInv OBVIOUS
<1>1. view \in ViewState /\ view.selected = None BY MountedIsView DEF ViewsInit
<1>2. ViewsTypeOK BY <1>1 DEF ViewsInit, ViewsTypeOK, Pages
<1>3. PageHasRequest BY <1>1 DEF ViewsInit, PageHasRequest
<1>4. LatestAsksChosen /\ ShownIsChosen BY DEF ViewsInit, LatestAsksChosen, ShownIsChosen
<1> QED BY <1>2, <1>3, <1>4 DEF ViewsInv

LEMMA ViewsSteps == ViewsInv /\ ViewsNext => ViewsInv'
<1> SUFFICES ASSUME ViewsInv, ViewsNext PROVE ViewsInv' OBVIOUS
<1> QED
  BY SessionKeeps, NavigateKeeps, StatsKeeps, LogsKeeps, SelectKeeps, QuietKeeps, AnswersKeeps,
     ArrivesKeeps
  DEF ViewsNext

LEMMA ViewsStutter == ViewsInv /\ UNCHANGED viewVars => ViewsInv'
BY SameViewKeeps DEF viewVars, ViewsInv, ViewsTypeOK

-----------------------------------------------------------------------------
(***************************************************************************)
(* The forms                                                               *)
(***************************************************************************)
KeyState == [of : Rows \cup {NoOne}, by : Nat]
Row == [on : BOOLEAN, edit : Nat, key : KeyState]
RowTable == [Rows -> Row \cup {Absent}]
ActiveState == [of : Rows, on : BOOLEAN]
EditFormState == [of : Rows \cup {NoOne}, edit : Nat, key : KeyState, dirty : BOOLEAN]
EditorState ==
  [page : {"none", "channels", "patched"}, list : RowTable \cup {Absent}, error : BOOLEAN,
   mode : {"create", "edit"}, active : ActiveState \cup {Absent}, form : EditFormState,
   pane : BOOLEAN, creating : BOOLEAN, pending : BOOLEAN, deleting : BOOLEAN,
   toggling : SUBSET Rows]
WriteOps == {"toggle", "update", "create", "delete"}
NoList == [m \in {} |-> Absent]
FlightState ==
  [op : WriteOps \cup {"load", "detail"}, of : Rows \cup {NoOne}, row : Row \cup {Absent},
   after : [what : {"nothing", "toggled", "submitted", "deleted"}, of : Rows \cup {NoOne}],
   answer : {"none", "ok", "error"}, list : RowTable \cup {NoList}]

\* What a call carries, and what its answer brings.
Carries(c) ==
  /\ c.op # "load" => c.of \in Rows
  /\ c.op \notin {"load", "detail", "delete"} => c.row \in Row
  /\ c.answer = "ok" => c.list \in RowTable
  /\ c.answer = "ok" /\ c.op \notin {"load", "delete"} => c.list[c.of] \in Row
  /\ c.answer = "ok" /\ c.op = "delete" => c.list[c.of] = Absent

EditorsTypeOK ==
  /\ stored \in RowTable /\ ui \in EditorState
  /\ flying \in Seq(FlightState) /\ \A i \in DOMAIN flying : Carries(flying[i])
  /\ edits \in Nat /\ failures \in Nat
  /\ lapses \in SUBSET {"reopened", "crossed", "written", "two steps"}
  /\ ui.mode = "edit" => ui.active \in ActiveState
  /\ ui.page = "none" => flying = << >> /\ ui.list = Absent
  /\ ui.page = "patched" /\ (\E i \in 1..Len(flying) : flying[i].op # "load") => ui.list \in RowTable

\* The channels: a write that was done will load the list, and the last load brings what is
\* stored.
WriteDone(s) == \E i \in 1..Len(s) : s[i].op \in WriteOps /\ s[i].answer = "ok"
NoLoad(s) == \A i \in 1..Len(s) : s[i].op # "load"
LoadBrings(s, brought) ==
  \E i \in 1..Len(s) : /\ s[i].op = "load" /\ \A j \in (i + 1)..Len(s) : s[j].op # "load"
                       /\ s[i].answer = "ok" => s[i].list = brought
OnItsWay(s, brought, shown) == WriteDone(s) \/ LoadBrings(s, brought) \/ (NoLoad(s) /\ shown)
ListShows == ui.error \/ ui.list = Absent \/ ui.list = stored

\* The other pages: one call for each row, whose answer is put into the list.
OnePerRow(s) == \A i, j \in 1..Len(s) : s[i].of = s[j].of => i = j
RowOnItsWay(s, n) == \E i \in 1..Len(s) : s[i].of = n /\ s[i].answer = "ok"
FirstLoad(s, brought) ==
  Len(s) = 1 /\ s[1].op = "load" /\ (s[1].answer = "ok" => s[1].list = brought)
RowsTold ==
  /\ ui.list \in RowTable /\ OnePerRow(flying)
  /\ \A i \in 1..Len(flying) :
       /\ flying[i].op \in WriteOps
       /\ flying[i].op \in {"update", "toggle"} => ui.list[flying[i].of] # Absent
       /\ flying[i].answer = "ok" => flying[i].list[flying[i].of] = stored[flying[i].of]
  /\ \A n \in Rows : ui.list[n] = stored[n] \/ RowOnItsWay(flying, n)

InOrder == lapses \cap {"crossed", "written", "two steps"} = {}
ListTold ==
  InOrder =>
    /\ ui.page = "channels" => OnItsWay(flying, stored, ListShows)
    /\ ui.page = "patched" => (ui.list = Absent /\ FirstLoad(flying, stored)) \/ RowsTold

\* The open form is of the open channel, and so is the key typed into it.
FormFits ==
  /\ ui.active # Absent => ui.form.of = ui.active.of
  /\ ui.mode = "edit" /\ ui.form.dirty => ui.form.key.of = ui.active.of
NotReopened == "reopened" \notin lapses
NewFormFits ==
  NotReopened /\ ui.mode = "create" =>
    /\ \A i \in DOMAIN flying : flying[i].op # "detail"
    /\ ui.form.dirty \/ ui.form.key = NoKey
CallFits(c) ==
  /\ c.op = "update" => /\ ui.page = "channels" => c.after.of = c.of
                        /\ c.row.key = NoKey \/ c.row.key.of = c.of
  /\ c.op = "create" /\ NotReopened => c.row.key.of = c.of
KeysFit ==
  /\ \A i \in DOMAIN flying : CallFits(flying[i])
  /\ NotReopened => \A n \in Rows : stored[n] # Absent => stored[n].key.of = n

EditorsInv == EditorsTypeOK /\ ListTold /\ FormFits /\ NewFormFits /\ KeysFit

-----------------------------------------------------------------------------
(* Calls in flight: one is sent, answered or arrives                       *)

LEMMA Sent ==
  ASSUME NEW s \in Seq(FlightState), NEW c \in FlightState
  PROVE  /\ Append(s, c) \in Seq(FlightState) /\ Len(Append(s, c)) = Len(s) + 1
         /\ \A i \in 1..Len(s) : Append(s, c)[i] = s[i]
         /\ Append(s, c)[Len(s) + 1] = c
OBVIOUS

LEMMA SentWrite ==
  ASSUME NEW s \in Seq(FlightState), NEW c \in FlightState, NEW brought, c.op # "load"
  PROVE  /\ NoLoad(s) => NoLoad(Append(s, c))
         /\ LoadBrings(s, brought) => LoadBrings(Append(s, c), brought)
         /\ WriteDone(s) => WriteDone(Append(s, c))
<1> DEFINE t == Append(s, c)
<1>1. Len(s) \in Nat /\ Len(t) = Len(s) + 1 /\ (\A i \in 1..Len(s) : t[i] = s[i]) /\ t[Len(s) + 1] = c
  BY Sent
<1> HIDE DEF t
<1>2. NoLoad(s) => NoLoad(t) BY <1>1 DEF NoLoad
<1>3. LoadBrings(s, brought) => LoadBrings(t, brought)
  <2>1. SUFFICES ASSUME LoadBrings(s, brought) PROVE LoadBrings(t, brought) OBVIOUS
  <2>2. PICK i \in 1..Len(s) : /\ s[i].op = "load" /\ \A j \in (i + 1)..Len(s) : s[j].op # "load"
                               /\ s[i].answer = "ok" => s[i].list = brought
    BY <2>1 DEF LoadBrings
  <2>3. ASSUME NEW j \in (i + 1)..Len(t) PROVE t[j].op # "load"
    BY <2>2, <1>1
  <2>4. i \in 1..Len(t) /\ t[i] = s[i] BY <1>1
  <2> QED BY <2>2, <2>3, <2>4 DEF LoadBrings
<1>4. WriteDone(s) => WriteDone(t)
  <2>1. \A i \in 1..Len(s) : i \in 1..Len(t) /\ t[i] = s[i] BY <1>1
  <2> QED BY <2>1 DEF WriteDone
<1> QED BY <1>2, <1>3, <1>4 DEF t

LEMMA SentLoad ==
  ASSUME NEW s \in Seq(FlightState), NEW c \in FlightState, NEW brought,
         c.op = "load", c.answer = "none"
  PROVE  LoadBrings(Append(s, c), brought)
<1> DEFINE t == Append(s, c)
<1>1. Len(s) \in Nat /\ Len(t) = Len(s) + 1 /\ t[Len(s) + 1] = c
  BY Sent
<1> HIDE DEF t
<1>2. Len(s) + 1 \in 1..Len(t) /\ \A j \in (Len(s) + 2)..Len(t) : FALSE BY <1>1
<1>3. LoadBrings(t, brought) BY <1>1, <1>2 DEF LoadBrings
<1> QED BY <1>3 DEF t

LEMMA Arrived ==
  ASSUME NEW s \in Seq(FlightState), NEW i \in 1..Len(s)
  PROVE  /\ RemoveAt(s, i) \in Seq(FlightState) /\ Len(RemoveAt(s, i)) = Len(s) - 1
         /\ \A j \in 1..(i - 1) : RemoveAt(s, i)[j] = s[j]
         /\ \A j \in i..(Len(s) - 1) : RemoveAt(s, i)[j] = s[j + 1]
<1>1. Len(s) \in Nat /\ i \in Nat OBVIOUS
<1> DEFINE a == SubSeq(s, 1, i - 1)
           b == SubSeq(s, i + 1, Len(s))
<1>2. a \in Seq(FlightState) /\ Len(a) = i - 1 /\ \A j \in 1..(i - 1) : a[j] = s[j]
  <2>1. \A j \in 1..(i - 1) : s[j] \in FlightState BY <1>1
  <2> QED BY <1>1, <2>1, SubSeqProperties
<1>3. b \in Seq(FlightState) /\ Len(b) = Len(s) - i /\ \A j \in 1..(Len(s) - i) : b[j] = s[i + j]
  <2>1. \A j \in (i + 1)..Len(s) : s[j] \in FlightState BY <1>1
  <2>2. CASE i + 1 <= Len(s) + 1 BY <1>1, <2>1, <2>2, SubSeqProperties
  <2> QED BY <1>1, <2>2
<1>4. RemoveAt(s, i) = a \o b BY DEF RemoveAt
<1> HIDE DEF a, b
<1>5. a \o b \in Seq(FlightState) /\ Len(a \o b) = Len(s) - 1
  <2>1. a \o b \in Seq(FlightState) /\ Len(a \o b) = Len(a) + Len(b)
    BY <1>2, <1>3, ConcatProperties
  <2> QED BY <2>1, <1>1, <1>2, <1>3
<1>6. \A j \in 1..(i - 1) : (a \o b)[j] = a[j]
  BY <1>1, <1>2, <1>3, ConcatProperties
<1>7. \A j \in i..(Len(s) - 1) : (a \o b)[j] = b[j - (i - 1)]
  <2>1. SUFFICES ASSUME NEW j \in i..(Len(s) - 1) PROVE (a \o b)[j] = b[j - (i - 1)] OBVIOUS
  <2>2. j \in 1..(Len(a) + Len(b)) /\ ~(j <= Len(a)) BY <1>1, <1>2, <1>3
  <2>3. (a \o b)[j] = b[j - Len(a)] BY <2>2, <1>2, <1>3, ConcatProperties
  <2> QED BY <2>3, <1>2
<1>8. \A j \in i..(Len(s) - 1) : (a \o b)[j] = s[j + 1]
  <2>1. SUFFICES ASSUME NEW j \in i..(Len(s) - 1) PROVE (a \o b)[j] = s[j + 1] OBVIOUS
  <2>2. j - (i - 1) \in 1..(Len(s) - i) /\ i + (j - (i - 1)) = j + 1 BY <1>1
  <2> QED BY <2>2, <1>3, <1>7
<1> QED BY <1>2, <1>4, <1>5, <1>6, <1>8

\* What is left is the calls but the one that arrived, in their order.
LEMMA ArrivedKeeps ==
  ASSUME NEW s \in Seq(FlightState), NEW i \in 1..Len(s)
  PROVE  /\ \A j \in 1..Len(RemoveAt(s, i)) : \E k \in 1..Len(s) : k # i /\ RemoveAt(s, i)[j] = s[k]
         /\ \A k \in 1..Len(s) : k # i => \E j \in 1..Len(RemoveAt(s, i)) : RemoveAt(s, i)[j] = s[k]
<1>1. /\ Len(s) \in Nat /\ i \in Nat /\ Len(RemoveAt(s, i)) = Len(s) - 1
      /\ \A j \in 1..(i - 1) : RemoveAt(s, i)[j] = s[j]
      /\ \A j \in i..(Len(s) - 1) : RemoveAt(s, i)[j] = s[j + 1]
  BY Arrived
<1>2. ASSUME NEW j \in 1..Len(RemoveAt(s, i)) PROVE \E k \in 1..Len(s) : k # i /\ RemoveAt(s, i)[j] = s[k]
  <2>1. CASE j < i BY <2>1, <1>1
  <2>2. CASE j >= i
    <3>1. j + 1 \in 1..Len(s) /\ j + 1 # i /\ RemoveAt(s, i)[j] = s[j + 1] BY <2>2, <1>1
    <3> QED BY <3>1
  <2> QED BY <2>1, <2>2, <1>1
<1>3. ASSUME NEW k \in 1..Len(s), k # i PROVE \E j \in 1..Len(RemoveAt(s, i)) : RemoveAt(s, i)[j] = s[k]
  <2>1. CASE k < i BY <2>1, <1>1
  <2>2. CASE k > i
    <3>1. k - 1 \in i..(Len(s) - 1) /\ k - 1 \in 1..Len(RemoveAt(s, i)) /\ (k - 1) + 1 = k
      BY <2>2, <1>1
    <3> QED BY <3>1, <1>1
  <2> QED BY <2>1, <2>2, <1>1, <1>3
<1> QED BY <1>2, <1>3

\* The last load stays the last one, whatever else arrives.
LEMMA ArrivedBeside ==
  ASSUME NEW s \in Seq(FlightState), NEW i \in 1..Len(s), NEW brought
  PROVE  /\ NoLoad(s) => NoLoad(RemoveAt(s, i))
         /\ WriteDone(s) /\ ~(s[i].op \in WriteOps /\ s[i].answer = "ok") => WriteDone(RemoveAt(s, i))
         /\ LoadBrings(s, brought) =>
              \/ LoadBrings(RemoveAt(s, i), brought)
              \/ /\ s[i].op = "load" /\ \A j \in (i + 1)..Len(s) : s[j].op # "load"
                 /\ s[i].answer = "ok" => s[i].list = brought
<1> DEFINE t == RemoveAt(s, i)
<1>1. /\ Len(s) \in Nat /\ i \in Nat /\ Len(t) = Len(s) - 1
      /\ \A j \in 1..(i - 1) : t[j] = s[j]
      /\ \A j \in i..(Len(s) - 1) : t[j] = s[j + 1]
  <2>1. Len(s) \in Nat /\ i \in Nat OBVIOUS
  <2> QED BY <2>1, Arrived, Zenon
<1>2. /\ \A j \in 1..Len(t) : \E k \in 1..Len(s) : k # i /\ t[j] = s[k]
      /\ \A k \in 1..Len(s) : k # i => \E j \in 1..Len(t) : t[j] = s[k]
  BY ArrivedKeeps
<1> HIDE DEF t
<1>3. NoLoad(s) => NoLoad(t) BY <1>2 DEF NoLoad
<1>4. WriteDone(s) /\ ~(s[i].op \in WriteOps /\ s[i].answer = "ok") => WriteDone(t)
  BY <1>2 DEF WriteDone
<1>5. ASSUME LoadBrings(s, brought)
      PROVE  \/ LoadBrings(t, brought)
             \/ /\ s[i].op = "load" /\ \A j \in (i + 1)..Len(s) : s[j].op # "load"
                /\ s[i].answer = "ok" => s[i].list = brought
  <2>1. PICK l \in 1..Len(s) : /\ s[l].op = "load" /\ \A j \in (l + 1)..Len(s) : s[j].op # "load"
                               /\ s[l].answer = "ok" => s[l].list = brought
    BY <1>5 DEF LoadBrings
  <2>2. CASE l = i BY <2>1, <2>2
  <2>3. CASE l < i
    <3>1. l \in 1..Len(t) /\ t[l] = s[l] BY <2>3, <1>1
    <3>2. \A j \in (l + 1)..Len(t) : t[j].op # "load"
      <4>1. SUFFICES ASSUME NEW j \in (l + 1)..Len(t) PROVE t[j].op # "load" OBVIOUS
      <4>2. CASE j < i BY <4>2, <2>1, <1>1
      <4>3. CASE j >= i
        <5>1. j + 1 \in (l + 1)..Len(s) /\ t[j] = s[j + 1] BY <4>3, <1>1
        <5> QED BY <5>1, <2>1
      <4> QED BY <4>2, <4>3, <1>1
    <3> QED BY <3>1, <3>2, <2>1 DEF LoadBrings
  <2>4. CASE l > i
    <3>1. l - 1 \in 1..Len(t) /\ t[l - 1] = s[l] /\ (l - 1) + 1 = l
      <4>1. l - 1 \in i..(Len(s) - 1) /\ (l - 1) + 1 = l BY <2>4, <1>1
      <4> QED BY <4>1, <1>1
    <3>2. \A j \in l..Len(t) : t[j].op # "load"
      <4>1. SUFFICES ASSUME NEW j \in l..Len(t) PROVE t[j].op # "load" OBVIOUS
      <4>2. j + 1 \in (l + 1)..Len(s) /\ t[j] = s[j + 1] BY <2>4, <1>1
      <4> QED BY <4>2, <2>1
    <3> QED BY <3>1, <3>2, <2>1 DEF LoadBrings
  <2> QED BY <2>2, <2>3, <2>4, <1>1
<1> QED BY <1>3, <1>4, <1>5 DEF t

LEMMA AnsweredAt ==
  ASSUME NEW s \in Seq(FlightState), NEW i \in 1..Len(s), NEW d \in FlightState
  PROVE  /\ [s EXCEPT ![i] = d] \in Seq(FlightState) /\ Len([s EXCEPT ![i] = d]) = Len(s)
         /\ [s EXCEPT ![i] = d][i] = d
         /\ \A j \in 1..Len(s) : j # i => [s EXCEPT ![i] = d][j] = s[j]
OBVIOUS

\* A load is answered with what is stored, or with an error; a call that was not done changes
\* nothing of what is on its way.
LEMMA AnsweredTells ==
  ASSUME NEW s \in Seq(FlightState), NEW i \in 1..Len(s), NEW d \in FlightState, NEW brought,
         d.op = s[i].op, s[i].answer = "none",
         d.op = "load" /\ d.answer = "ok" => d.list = brought
  PROVE  /\ NoLoad(s) => NoLoad([s EXCEPT ![i] = d])
         /\ WriteDone(s) => WriteDone([s EXCEPT ![i] = d])
         /\ LoadBrings(s, brought) => LoadBrings([s EXCEPT ![i] = d], brought)
<1> DEFINE t == [s EXCEPT ![i] = d]
<1>1. Len(t) = Len(s) /\ t[i] = d /\ \A j \in 1..Len(s) : j # i => t[j] = s[j]
  BY AnsweredAt
<1>2. Len(s) \in Nat OBVIOUS
<1> HIDE DEF t
<1>3. \A j \in 1..Len(s) : t[j].op = s[j].op BY <1>1
<1>4. NoLoad(s) => NoLoad(t) BY <1>1, <1>3 DEF NoLoad
<1>5. WriteDone(s) => WriteDone(t)
  <2>1. \A j \in 1..Len(s) : s[j].answer = "ok" => j # i OBVIOUS
  <2> QED BY <1>1, <2>1 DEF WriteDone
<1>6. LoadBrings(s, brought) => LoadBrings(t, brought)
  <2>1. SUFFICES ASSUME LoadBrings(s, brought) PROVE LoadBrings(t, brought) OBVIOUS
  <2>2. PICK l \in 1..Len(s) : /\ s[l].op = "load" /\ \A j \in (l + 1)..Len(s) : s[j].op # "load"
                               /\ s[l].answer = "ok" => s[l].list = brought
    BY <2>1 DEF LoadBrings
  <2>3. \A j \in (l + 1)..Len(t) : t[j].op # "load" BY <2>2, <1>1, <1>2, <1>3
  <2>4. t[l].op = "load" /\ (t[l].answer = "ok" => t[l].list = brought)
    BY <2>2, <1>1, <1>3
  <2> QED BY <2>3, <2>4, <1>1 DEF LoadBrings
<1> QED BY <1>4, <1>5, <1>6 DEF t
-----------------------------------------------------------------------------
(* The parts of the invariant                                              *)

LEMMA EditorsParts ==
  ASSUME EditorsInv
  PROVE  /\ EditorsTypeOK /\ ListTold /\ FormFits /\ NewFormFits /\ KeysFit
         /\ stored \in RowTable /\ ui \in EditorState
         /\ flying \in Seq(FlightState) /\ Len(flying) \in Nat /\ DOMAIN flying = 1..Len(flying)
         /\ \A i \in 1..Len(flying) :
              flying[i] \in FlightState /\ Carries(flying[i]) /\ CallFits(flying[i])
         /\ edits \in Nat /\ failures \in Nat
         /\ lapses \in SUBSET {"reopened", "crossed", "written", "two steps"}
         /\ ui.mode = "edit" => ui.active \in ActiveState
         /\ ui.page = "none" => flying = << >> /\ ui.list = Absent
         /\ ui.page = "patched" /\ (\E i \in 1..Len(flying) : flying[i].op # "load")
              => ui.list \in RowTable
<1>1. EditorsTypeOK /\ ListTold /\ FormFits /\ NewFormFits /\ KeysFit BY DEF EditorsInv
<1>2. flying \in Seq(FlightState) BY <1>1 DEF EditorsTypeOK
<1>3. DOMAIN flying = 1..Len(flying) /\ Len(flying) \in Nat
      /\ \A i \in 1..Len(flying) : flying[i] \in FlightState
  BY <1>2
<1> QED BY <1>1, <1>2, <1>3 DEF EditorsTypeOK, KeysFit

\* What is typed into a form or opened is no matter of the list.
LEMMA FormKeeps ==
  ASSUME EditorsInv, ui' \in EditorState,
         ui'.page = ui.page, ui'.list = ui.list, ui'.error = ui.error,
         ui'.mode = "edit" => ui'.active \in ActiveState,
         edits' \in Nat, UNCHANGED <<stored, flying, failures>>,
         lapses' = lapses \/ lapses' = lapses \cup {"reopened"},
         FormFits', NewFormFits'
  PROVE  EditorsInv'
<1>1. EditorsTypeOK /\ ListTold /\ KeysFit BY DEF EditorsInv
<1>2. EditorsTypeOK' BY <1>1 DEF EditorsTypeOK
<1>3. ListTold' BY <1>1 DEF ListTold, InOrder, ListShows, RowsTold
<1>4. KeysFit' BY <1>1 DEF KeysFit, CallFits, NotReopened
<1> QED BY <1>2, <1>3, <1>4 DEF EditorsInv

\* The page of the channels sends a call.
LEMMA ChannelCallKeeps ==
  ASSUME EditorsInv, ui.page = "channels", ui' \in EditorState,
         ui'.page = ui.page, ui'.list = ui.list, ui'.error = ui.error,
         ui'.mode = "edit" => ui'.active \in ActiveState,
         NEW c \in FlightState, c.op # "load", c.answer = "none", Carries(c), CallFits(c),
         flying' = Append(flying, c), edits' \in Nat, UNCHANGED <<stored, failures, lapses>>,
         FormFits',
         NotReopened /\ ui'.mode = "create"
           => c.op # "detail" /\ ui.mode = "create" /\ ui'.form = ui.form
  PROVE  EditorsInv'
<1>1. EditorsTypeOK /\ ListTold /\ NewFormFits /\ KeysFit /\ flying \in Seq(FlightState)
      /\ Len(flying) \in Nat
      /\ \A i \in 1..Len(flying) : Carries(flying[i]) /\ CallFits(flying[i])
  BY EditorsParts
<1>2. /\ flying' \in Seq(FlightState) /\ Len(flying') = Len(flying) + 1
      /\ \A i \in 1..Len(flying) : flying'[i] = flying[i]
      /\ flying'[Len(flying) + 1] = c
  BY <1>1, Sent
<1>3. \A i \in 1..Len(flying') : \/ i \in 1..Len(flying) /\ flying'[i] = flying[i]
                                 \/ flying'[i] = c
  BY <1>1, <1>2
<1>4. DOMAIN flying' = 1..Len(flying') /\ DOMAIN flying = 1..Len(flying) BY <1>1, <1>2
<1>5. \A i \in DOMAIN flying' : Carries(flying'[i]) BY <1>1, <1>3, <1>4
<1>6. EditorsTypeOK' BY <1>1, <1>2, <1>5 DEF EditorsTypeOK
<1>7. /\ NoLoad(flying) => NoLoad(flying')
      /\ LoadBrings(flying, stored) => LoadBrings(flying', stored)
      /\ WriteDone(flying) => WriteDone(flying')
  BY <1>1, SentWrite
<1>8. ListTold' BY <1>1, <1>7 DEF ListTold, InOrder, OnItsWay, ListShows
<1>9. NewFormFits' BY <1>1, <1>3, <1>4 DEF NewFormFits, NotReopened
<1>10. KeysFit'
  <2>1. \A i \in DOMAIN flying' : CallFits(flying[i])' BY <1>1, <1>3, <1>4 DEF CallFits, NotReopened
  <2> QED BY <2>1, <1>1 DEF KeysFit, NotReopened
<1> QED BY <1>6, <1>8, <1>9, <1>10 DEF EditorsInv

LEMMA FlyIsFlight ==
  ASSUME NEW op \in WriteOps \cup {"load", "detail"}, NEW n \in Rows \cup {NoOne},
         NEW row \in Row \cup {Absent}, NEW what \in {"nothing", "toggled", "submitted", "deleted"},
         NEW m \in Rows \cup {NoOne}
  PROVE  /\ Fly(op, n, row, Then(what, m)) \in FlightState
         /\ Fly(op, n, row, Then(what, m)).op = op /\ Fly(op, n, row, Then(what, m)).of = n
         /\ Fly(op, n, row, Then(what, m)).row = row /\ Fly(op, n, row, Then(what, m)).answer = "none"
         /\ Fly(op, n, row, Then(what, m)).after.of = m
         /\ Fly(op, n, row, Then(what, m)).after.what = what
BY DEF Fly, Then, FlightState, NoList

-----------------------------------------------------------------------------
(* The page of the channels                                                *)

LEMMA ToggleKeeps ==
  ASSUME EditorsInv, NEW n \in Rows, Toggle(n)
  PROVE  EditorsInv'
<1>1. ui \in EditorState /\ FormFits /\ NewFormFits
      /\ edits \in Nat /\ (ui.mode = "edit" => ui.active \in ActiveState)
  BY EditorsParts
<1>2. ui.page = "channels" /\ ui.list # Absent /\ ui.list[n] # Absent
      /\ ui' = [ui EXCEPT !.toggling = ui.toggling \cup {n}] /\ UNCHANGED <<stored, failures, lapses>>
  BY DEF Toggle, AtChannels, Listed1
<1>3. PICK row : row = [ui.list[n] EXCEPT !.on = ~ui.list[n].on] OBVIOUS
<1>4. row \in Row
  <2>1. ui.list \in RowTable BY <1>1, <1>2 DEF EditorState
  <2>2. ui.list[n] \in Row BY <2>1, <1>2 DEF RowTable
  <2> QED BY <2>2, <1>3 DEF Row
<1>5. PICK c : c = Fly("toggle", n, row, Then("toggled", n)) OBVIOUS
<1>6. c \in FlightState /\ c.op = "toggle" /\ c.of = n /\ c.row = row /\ c.answer = "none"
  BY <1>4, <1>5, FlyIsFlight DEF WriteOps
<1>7. flying' = Append(flying, c) /\ edits' \in Nat BY <1>1, <1>3, <1>5 DEF Toggle, Asks
<1>8. /\ ui' \in EditorState /\ ui'.page = ui.page /\ ui'.list = ui.list /\ ui'.error = ui.error
      /\ ui'.mode = ui.mode /\ ui'.active = ui.active /\ ui'.form = ui.form
  BY <1>1, <1>2 DEF EditorState
<1>9. Carries(c) /\ CallFits(c) BY <1>4, <1>6 DEF Carries, CallFits
<1>10. FormFits' BY <1>1, <1>8 DEF FormFits
<1> QED BY <1>1, <1>2, <1>6, <1>7, <1>8, <1>9, <1>10, ChannelCallKeeps

LEMMA DeleteKeeps ==
  ASSUME EditorsInv, NEW n \in Rows, Delete(n)
  PROVE  EditorsInv'
<1>1. ui \in EditorState /\ FormFits /\ edits \in Nat /\ (ui.mode = "edit" => ui.active \in ActiveState)
  BY EditorsParts
<1>2. ui.page = "channels" /\ ui' = [ui EXCEPT !.deleting = TRUE] /\ UNCHANGED <<stored, failures, lapses>>
  BY DEF Delete, AtChannels
<1>3. PICK c : c = Fly("delete", n, Absent, Then("deleted", n)) OBVIOUS
<1>4. c \in FlightState /\ c.op = "delete" /\ c.of = n /\ c.answer = "none"
  BY <1>3, FlyIsFlight DEF WriteOps
<1>5. flying' = Append(flying, c) /\ edits' \in Nat BY <1>1, <1>3 DEF Delete, Asks
<1>6. /\ ui' \in EditorState /\ ui'.page = ui.page /\ ui'.list = ui.list /\ ui'.error = ui.error
      /\ ui'.mode = ui.mode /\ ui'.active = ui.active /\ ui'.form = ui.form
  BY <1>1, <1>2 DEF EditorState
<1>7. Carries(c) /\ CallFits(c) BY <1>4 DEF Carries, CallFits
<1>8. FormFits' BY <1>1, <1>6 DEF FormFits
<1> QED BY <1>1, <1>2, <1>4, <1>5, <1>6, <1>7, <1>8, ChannelCallKeeps

LEMMA OpenEditKeeps ==
  ASSUME EditorsInv, NEW n \in Rows, OpenEdit(n)
  PROVE  EditorsInv'
<1>1. ui \in EditorState /\ edits \in Nat BY EditorsParts
<1>2. ui.page = "channels" /\ ui.list # Absent /\ ui.list[n] # Absent /\ UNCHANGED <<stored, failures, lapses>>
  BY DEF OpenEdit, AtChannels, Listed1
<1>3. PICK row : row = ui.list[n] OBVIOUS
<1>4. row \in Row
  <2>1. ui.list \in RowTable BY <1>1, <1>2 DEF EditorState
  <2> QED BY <2>1, <1>2, <1>3 DEF RowTable
<1>5. PICK a : a = [of |-> n, on |-> row.on] OBVIOUS
<1>6. PICK f : f = FormOf(n, row, FALSE) OBVIOUS
<1>7. a \in ActiveState /\ a.of = n /\ f \in EditFormState /\ f.of = n /\ f.dirty = FALSE
  BY <1>4, <1>5, <1>6 DEF ActiveState, EditFormState, FormOf, NoKey, KeyState, Row
<1>8. ui' = [ui EXCEPT !.mode = "edit", !.active = a, !.form = f]
  BY <1>3, <1>5, <1>6 DEF OpenEdit
<1>9. /\ ui' \in EditorState /\ ui'.page = ui.page /\ ui'.list = ui.list /\ ui'.error = ui.error
      /\ ui'.mode = "edit" /\ ui'.active = a /\ ui'.form = f
  BY <1>1, <1>7, <1>8 DEF EditorState
<1>10. PICK c : c = Fly("detail", n, Absent, Nothing) OBVIOUS
<1>11. c \in FlightState /\ c.op = "detail" /\ c.of = n /\ c.answer = "none"
  <2>1. c = Fly("detail", n, Absent, Then("nothing", NoOne)) BY <1>10 DEF Nothing
  <2> QED BY <2>1, FlyIsFlight DEF WriteOps
<1>12. flying' = Append(flying, c) /\ edits' \in Nat BY <1>1, <1>10 DEF OpenEdit, Asks
<1>13. Carries(c) /\ CallFits(c) BY <1>11 DEF Carries, CallFits
<1>14. FormFits' BY <1>7, <1>9 DEF FormFits
<1> QED BY <1>2, <1>7, <1>9, <1>11, <1>12, <1>13, <1>14, ChannelCallKeeps

LEMMA SubmitKeeps ==
  ASSUME EditorsInv, Submit
  PROVE  EditorsInv'
<1>1. ui \in EditorState /\ FormFits /\ NewFormFits /\ edits \in Nat
      /\ (ui.mode = "edit" => ui.active \in ActiveState)
  BY EditorsParts
<1>2. ui.page = "channels" /\ ui' = [ui EXCEPT !.pending = TRUE] /\ UNCHANGED <<stored, failures, lapses>>
  BY DEF Submit, AtChannels
<1>3. /\ ui' \in EditorState /\ ui'.page = ui.page /\ ui'.list = ui.list /\ ui'.error = ui.error
      /\ ui'.mode = ui.mode /\ ui'.active = ui.active /\ ui'.form = ui.form
  BY <1>1, <1>2 DEF EditorState
<1>4. FormFits' BY <1>1, <1>3 DEF FormFits
<1>5. ui.form \in EditFormState BY <1>1 DEF EditorState
<1>6. CASE /\ ui.mode = "edit" /\ ui.active # Absent
           /\ Asks(Fly("update", ui.active.of, Payload(ui.form, "edit"), Then("submitted", ui.form.of)))
  <2>1. PICK row : row = Payload(ui.form, "edit") OBVIOUS
  <2>2. row \in Row /\ row.key = IF ui.form.dirty THEN ui.form.key ELSE NoKey
    BY <2>1, <1>5 DEF Payload, Row, EditFormState, NoKey, KeyState
  <2>3. PICK n : n = ui.active.of OBVIOUS
  <2>4. n \in Rows /\ ui.form.of = n /\ (ui.form.dirty => ui.form.key.of = n)
    BY <2>3, <1>1, <1>6 DEF FormFits, ActiveState
  <2>5. PICK c : c = Fly("update", n, row, Then("submitted", n)) OBVIOUS
  <2>6. c \in FlightState /\ c.op = "update" /\ c.of = n /\ c.row = row /\ c.answer = "none"
        /\ c.after.of = n
    BY <2>2, <2>4, <2>5, FlyIsFlight DEF WriteOps
  <2>7. flying' = Append(flying, c) /\ edits' \in Nat
    BY <2>1, <2>3, <2>4, <2>5, <1>1, <1>6 DEF Asks
  <2>8. Carries(c) BY <2>2, <2>4, <2>6 DEF Carries
  <2>9. CallFits(c) BY <2>2, <2>4, <2>6 DEF CallFits
  <2> QED BY <2>6, <2>7, <2>8, <2>9, <1>1, <1>2, <1>3, <1>4, <1>6, ChannelCallKeeps
<1>7. ASSUME ui.mode = "create", ui.form.key # NoKey, NEW n \in Rows, NEW on \in BOOLEAN,
             ui.form.dirty => ui.form.key.of = n,
             Asks(Fly("create", n, [Payload(ui.form, "create") EXCEPT !.on = on], Then("submitted", n)))
      PROVE  EditorsInv'
  <2>1. PICK row : row = [Payload(ui.form, "create") EXCEPT !.on = on] OBVIOUS
  <2>2. row = [on |-> on, edit |-> ui.form.edit, key |-> ui.form.key] BY <2>1 DEF Payload
  <2>3. row \in Row /\ row.key = ui.form.key BY <2>2, <1>5 DEF Row, EditFormState
  <2>4. PICK c : c = Fly("create", n, row, Then("submitted", n)) OBVIOUS
  <2>5. c \in FlightState /\ c.op = "create" /\ c.of = n /\ c.row = row /\ c.answer = "none"
    BY <2>3, <2>4, FlyIsFlight DEF WriteOps
  <2>6. flying' = Append(flying, c) /\ edits' \in Nat BY <2>1, <2>4, <1>1, <1>7 DEF Asks
  <2>7. Carries(c) BY <2>3, <2>5 DEF Carries
  <2>8. NotReopened => ui.form.dirty BY <1>1, <1>7 DEF NewFormFits
  <2>9. CallFits(c) BY <2>3, <2>5, <2>8, <1>7 DEF CallFits
  <2> QED BY <2>5, <2>6, <2>7, <2>9, <1>1, <1>2, <1>3, <1>4, ChannelCallKeeps
<1> QED BY <1>6, <1>7 DEF Submit

LEMMA TypesKeeps ==
  ASSUME EditorsInv, OpenCreate \/ CloseCreate \/ TypesKey \/ TypesRest
  PROVE  EditorsInv'
<1>1. ui \in EditorState /\ FormFits /\ NewFormFits /\ edits \in Nat
      /\ (ui.mode = "edit" => ui.active \in ActiveState) /\ ui.form \in EditFormState
      /\ DOMAIN flying = 1..Len(flying)
  BY EditorsParts DEF EditorState
<1>2. CASE OpenCreate
  <2>1. PICK f : f = BlankForm OBVIOUS
  <2>2. f \in EditFormState /\ f.key = NoKey BY <2>1 DEF BlankForm, EditFormState, NoKey, KeyState
  <2>3. ui' = [ui EXCEPT !.mode = "create", !.active = Absent, !.form = f, !.pane = FALSE, !.creating = TRUE]
    BY <2>1, <1>2 DEF OpenCreate
  <2>4. /\ ui' \in EditorState /\ ui'.page = ui.page /\ ui'.list = ui.list /\ ui'.error = ui.error
        /\ ui'.mode = "create" /\ ui'.active = Absent /\ ui'.form = f
    BY <2>2, <2>3, <1>1 DEF EditorState
  <2>5. FormFits' BY <2>4 DEF FormFits
  <2>6. lapses' = lapses \cup (IF Flies("detail") THEN {"reopened"} ELSE {})
        /\ UNCHANGED <<stored, flying, edits, failures>>
    BY <1>2 DEF OpenCreate
  <2>7. NewFormFits' BY <2>2, <2>4, <2>6 DEF NewFormFits, NotReopened, Flies
  <2>8. lapses' = lapses \/ lapses' = lapses \cup {"reopened"} BY <2>6
  <2> QED BY <2>4, <2>5, <2>6, <2>7, <2>8, <1>1, FormKeeps
<1>3. CASE CloseCreate
  <2>1. ui' = [ui EXCEPT !.creating = FALSE] /\ UNCHANGED <<stored, flying, edits, failures, lapses>>
    BY <1>3 DEF CloseCreate
  <2>2. /\ ui' \in EditorState /\ ui'.page = ui.page /\ ui'.list = ui.list /\ ui'.error = ui.error
        /\ ui'.mode = ui.mode /\ ui'.active = ui.active /\ ui'.form = ui.form
    BY <2>1, <1>1 DEF EditorState
  <2>3. FormFits' /\ NewFormFits' BY <2>1, <2>2, <1>1 DEF FormFits, NewFormFits, NotReopened
  <2> QED BY <2>1, <2>2, <2>3, <1>1, FormKeeps
<1>4. CASE TypesKey
  <2>1. PICK n \in IF ui.mode = "edit" THEN {ui.active.of} ELSE Rows :
           ui' = [ui EXCEPT !.form.key = [of |-> n, by |-> edits'], !.form.dirty = TRUE]
    BY <1>4 DEF TypesKey
  <2>2. edits' \in Nat /\ UNCHANGED <<stored, flying, failures, lapses>>
    <3>1. edits' = edits + 1 /\ UNCHANGED <<stored, flying, failures, lapses>> BY <1>4, Zenon DEF TypesKey
    <3> QED BY <3>1, <1>1
  <2>3. n \in Rows BY <2>1, <1>1 DEF ActiveState
  <2>4. PICK f : f = [ui.form EXCEPT !.key = [of |-> n, by |-> edits'], !.dirty = TRUE] OBVIOUS
  <2>5. f \in EditFormState /\ f.of = ui.form.of /\ f.key.of = n /\ f.dirty = TRUE
    BY <2>2, <2>3, <2>4, <1>1 DEF EditFormState, KeyState
  <2>6. ui' = [ui EXCEPT !.form = f] BY <2>1, <2>4
  <2>7. /\ ui' \in EditorState /\ ui'.page = ui.page /\ ui'.list = ui.list /\ ui'.error = ui.error
        /\ ui'.mode = ui.mode /\ ui'.active = ui.active /\ ui'.form = f
    BY <2>5, <2>6, <1>1 DEF EditorState
  <2>8. FormFits' BY <2>1, <2>5, <2>7, <1>1 DEF FormFits
  <2>9. NewFormFits' BY <2>2, <2>5, <2>7, <1>1 DEF NewFormFits, NotReopened
  <2> QED BY <2>2, <2>7, <2>8, <2>9, <1>1, FormKeeps
<1>5. CASE TypesRest
  <2>1. edits' \in Nat /\ ui' = [ui EXCEPT !.form.edit = edits'] /\ UNCHANGED <<stored, flying, failures, lapses>>
    BY <1>1, <1>5 DEF TypesRest
  <2>2. PICK f : f = [ui.form EXCEPT !.edit = edits'] OBVIOUS
  <2>3. f \in EditFormState /\ f.of = ui.form.of /\ f.key = ui.form.key /\ f.dirty = ui.form.dirty
    BY <2>1, <2>2, <1>1 DEF EditFormState
  <2>4. ui' = [ui EXCEPT !.form = f] BY <2>1, <2>2
  <2>5. /\ ui' \in EditorState /\ ui'.page = ui.page /\ ui'.list = ui.list /\ ui'.error = ui.error
        /\ ui'.mode = ui.mode /\ ui'.active = ui.active /\ ui'.form = f
    BY <2>3, <2>4, <1>1 DEF EditorState
  <2>6. FormFits' BY <2>3, <2>5, <1>1 DEF FormFits
  <2>7. NewFormFits' BY <2>1, <2>3, <2>5, <1>1 DEF NewFormFits, NotReopened
  <2> QED BY <2>1, <2>5, <2>6, <2>7, <1>1, FormKeeps
<1> QED BY <1>2, <1>3, <1>4, <1>5

-----------------------------------------------------------------------------
(* The server answers                                                      *)

\* A write changes the row it is of, and gives no row a key of another.
LEMMA AppliedIsTable ==
  ASSUME stored \in RowTable, NEW c \in FlightState, Carries(c), CallFits(c), c.op \in WriteOps,
         ~Refused(c)
  PROVE  /\ Applied(c) \in RowTable
         /\ c.op # "delete" => Applied(c)[c.of] \in Row
         /\ c.op = "delete" => Applied(c)[c.of] = Absent
         /\ \A n \in Rows : n # c.of => Applied(c)[n] = stored[n]
         /\ NotReopened /\ (\A n \in Rows : stored[n] # Absent => stored[n].key.of = n)
              => \A n \in Rows : Applied(c)[n] # Absent => Applied(c)[n].key.of = n
<1>1. c.of \in Rows BY DEF Carries, WriteOps
<1>2. c.op # "create" => stored[c.of] # Absent /\ stored[c.of] \in Row
  BY <1>1 DEF Refused, WriteOps, RowTable
<1>3. c.op # "delete" => c.row \in Row BY DEF Carries, WriteOps
<1>4. CASE c.op = "toggle"
  <2>1. PICK new : new = [stored[c.of] EXCEPT !.on = c.row.on] OBVIOUS
  <2>2. new \in Row /\ new.key = stored[c.of].key BY <2>1, <1>2, <1>3, <1>4 DEF Row
  <2>3. Applied(c) = [stored EXCEPT ![c.of] = new] BY <2>1, <1>4 DEF Applied
  <2>4. Applied(c) \in RowTable /\ Applied(c)[c.of] = new
        /\ \A n \in Rows : n # c.of => Applied(c)[n] = stored[n]
    BY <2>2, <2>3, <1>1 DEF RowTable
  <2> QED BY <2>2, <2>4, <1>1, <1>2, <1>4
<1>5. CASE c.op = "update"
  <2>1. PICK key : key = IF c.row.key = NoKey THEN stored[c.of].key ELSE c.row.key OBVIOUS
  <2>2. PICK new : new = [stored[c.of] EXCEPT !.edit = c.row.edit, !.key = key] OBVIOUS
  <2>3. key \in KeyState BY <2>1, <1>2, <1>3, <1>5 DEF Row
  <2>4. new \in Row /\ new.key = key BY <2>2, <2>3, <1>2, <1>3, <1>5 DEF Row
  <2>5. Applied(c) = [stored EXCEPT ![c.of].edit = c.row.edit,
                                    ![c.of].key = IF c.row.key = NoKey THEN stored[c.of].key ELSE c.row.key]
    BY <1>1, <1>2, <1>3, <1>5 DEF Applied, RowTable, Row
  <2>6. Applied(c) = [stored EXCEPT ![c.of] = new]
    BY <2>1, <2>2, <2>5, <1>1 DEF RowTable
  <2>7. Applied(c) \in RowTable /\ Applied(c)[c.of] = new
        /\ \A n \in Rows : n # c.of => Applied(c)[n] = stored[n]
    BY <2>4, <2>6, <1>1 DEF RowTable
  <2>8. (\A n \in Rows : stored[n] # Absent => stored[n].key.of = n) => key.of = c.of
    BY <2>1, <1>1, <1>2, <1>5 DEF CallFits
  <2> QED BY <2>4, <2>7, <2>8, <1>1, <1>5
<1>6. CASE c.op = "create"
  <2>1. PICK new : new = [on |-> TRUE, edit |-> c.row.edit, key |-> c.row.key] OBVIOUS
  <2>2. new \in Row /\ new.key = c.row.key BY <2>1, <1>3, <1>6 DEF Row
  <2>3. Applied(c) = [stored EXCEPT ![c.of] = new] BY <2>1, <1>6 DEF Applied
  <2>4. Applied(c) \in RowTable /\ Applied(c)[c.of] = new
        /\ \A n \in Rows : n # c.of => Applied(c)[n] = stored[n]
    BY <2>2, <2>3, <1>1 DEF RowTable
  <2>5. NotReopened => new.key.of = c.of BY <2>2, <1>6 DEF CallFits
  <2> QED BY <2>2, <2>4, <2>5, <1>1, <1>6
<1>7. CASE c.op = "delete"
  <2>1. Applied(c) = [stored EXCEPT ![c.of] = Absent] BY <1>7 DEF Applied
  <2>2. Applied(c) \in RowTable /\ Applied(c)[c.of] = Absent
        /\ \A n \in Rows : n # c.of => Applied(c)[n] = stored[n]
    BY <2>1, <1>1 DEF RowTable
  <2> QED BY <2>2, <1>1, <1>7
<1> QED BY <1>4, <1>5, <1>6, <1>7 DEF WriteOps

\* A call is answered: nothing was written, or its row was, or what happened is told apart.
LEMMA AnswerKeeps ==
  ASSUME EditorsInv, NEW i \in 1..Len(flying), NEW d \in FlightState, flying[i].answer = "none",
         d.op = flying[i].op, d.of = flying[i].of, d.row = flying[i].row, d.after = flying[i].after,
         Carries(d), flying' = [flying EXCEPT ![i] = d], stored' \in RowTable,
         NotReopened => \A n \in Rows : stored'[n] # Absent => stored'[n].key.of = n,
         UNCHANGED <<ui, edits>>, failures' \in Nat,
         lapses' = lapses \/ lapses' = lapses \cup {"written"},
         \/ stored' = stored /\ (d.answer = "ok" => d.op \in {"load", "detail"} /\ d.list = stored)
         \/ /\ d.op \in WriteOps /\ d.answer = "ok" /\ d.list = stored'
            /\ \A n \in Rows : n # d.of => stored'[n] = stored[n]
         \/ "written" \in lapses'
  PROVE  EditorsInv'
<1>1. /\ EditorsTypeOK /\ ListTold /\ FormFits /\ NewFormFits /\ KeysFit
      /\ flying \in Seq(FlightState) /\ Len(flying) \in Nat /\ DOMAIN flying = 1..Len(flying)
      /\ \A j \in 1..Len(flying) : Carries(flying[j]) /\ CallFits(flying[j])
  BY EditorsParts
<1>2. /\ flying' \in Seq(FlightState) /\ Len(flying') = Len(flying) /\ flying'[i] = d
      /\ \A j \in 1..Len(flying) : j # i => flying'[j] = flying[j]
  BY <1>1, AnsweredAt
<1>3. DOMAIN flying' = 1..Len(flying) BY <1>2
<1>4. \A j \in 1..Len(flying) : /\ flying'[j].op = flying[j].op /\ flying'[j].of = flying[j].of
                                /\ flying'[j].row = flying[j].row /\ flying'[j].after = flying[j].after
  BY <1>2
<1>5. \A j \in 1..Len(flying) : Carries(flying'[j]) BY <1>1, <1>2
<1>6. EditorsTypeOK'
  <2>1. ui.page # "none"
    <3>1. ui.page = "none" => flying = << >> BY <1>1, Zenon DEF EditorsTypeOK
    <3> QED BY <3>1
  <2>2. \A j \in DOMAIN flying' : Carries(flying[j])' BY <1>3, <1>5 DEF Carries
  <2>3. lapses' \in SUBSET {"reopened", "crossed", "written", "two steps"} BY <1>1 DEF EditorsTypeOK
  <2>4. ui.page = "patched" /\ (\E j \in 1..Len(flying') : flying'[j].op # "load") => ui.list \in RowTable
    BY <1>1, <1>2, <1>4 DEF EditorsTypeOK
  <2>5. stored' \in RowTable /\ ui' \in EditorState /\ edits' \in Nat /\ failures' \in Nat
        /\ (ui'.mode = "edit" => ui'.active \in ActiveState)
    BY <1>1 DEF EditorsTypeOK
  <2> QED BY <2>1, <2>2, <2>3, <2>4, <2>5, <1>2 DEF EditorsTypeOK
<1>7. ListTold'
  <2>1. SUFFICES ASSUME InOrder' PROVE /\ ui.page = "channels" => OnItsWay(flying, stored, ListShows)'
                                       /\ ui.page = "patched" => ((ui.list = Absent /\ FirstLoad(flying, stored)) \/ RowsTold)'
    BY DEF ListTold
  <2>2. InOrder /\ "written" \notin lapses' BY <2>1 DEF InOrder
  <2>3. CASE stored' = stored /\ (d.answer = "ok" => d.op \in {"load", "detail"} /\ d.list = stored)
    <3>1. ASSUME ui.page = "channels" PROVE OnItsWay(flying, stored, ListShows)'
      <4>1. OnItsWay(flying, stored, ListShows) BY <3>1, <2>2, <1>1 DEF ListTold
      <4>2. /\ NoLoad(flying) => NoLoad(flying')
            /\ WriteDone(flying) => WriteDone(flying')
            /\ LoadBrings(flying, stored) => LoadBrings(flying', stored)
        BY <2>3, <1>1, AnsweredTells
      <4> QED BY <4>1, <4>2, <2>3 DEF OnItsWay, ListShows
    <3>2. ASSUME ui.page = "patched"
          PROVE ((ui.list = Absent /\ FirstLoad(flying, stored)) \/ RowsTold)'
      <4>1. CASE ui.list = Absent /\ FirstLoad(flying, stored)
        <5>1. Len(flying') = 1 /\ flying'[1] = d /\ d.op = "load" BY <4>1, <1>2 DEF FirstLoad
        <5> QED BY <5>1, <4>1, <2>3 DEF FirstLoad
      <4>2. CASE RowsTold
        <5>1. OnePerRow(flying') BY <4>2, <1>2, <1>4 DEF RowsTold, OnePerRow
        <5>2. d.op \in WriteOps BY <4>2 DEF RowsTold
        <5>3. d.answer # "ok" BY <5>2, <2>3 DEF WriteOps
        <5>4. \A n \in Rows : RowOnItsWay(flying, n) => RowOnItsWay(flying', n)
          BY <1>2 DEF RowOnItsWay
        <5>5. \A j \in 1..Len(flying') :
                /\ flying'[j].op \in WriteOps
                /\ flying'[j].op \in {"update", "toggle"} => ui.list[flying'[j].of] # Absent
                /\ flying'[j].answer = "ok" => flying'[j].list[flying'[j].of] = stored[flying'[j].of]
          BY <5>3, <4>2, <1>2, <1>4 DEF RowsTold
        <5>6. \A n \in Rows : ui.list[n] = stored'[n] \/ RowOnItsWay(flying', n)
          BY <5>4, <4>2, <2>3 DEF RowsTold
        <5>7. ui'.list = ui.list /\ ui.list \in RowTable BY <4>2 DEF RowsTold
        <5> QED BY <5>1, <5>5, <5>6, <5>7, <2>3 DEF RowsTold
      <4> QED BY <4>1, <4>2, <3>2, <2>2, <1>1 DEF ListTold
    <3> QED BY <3>1, <3>2
  <2>4. CASE /\ d.op \in WriteOps /\ d.answer = "ok" /\ d.list = stored'
             /\ \A n \in Rows : n # d.of => stored'[n] = stored[n]
    <3>1. WriteDone(flying') BY <2>4, <1>2 DEF WriteDone
    <3>2. OnItsWay(flying, stored, ListShows)' BY <3>1 DEF OnItsWay
    <3>3. ASSUME ui.page = "patched" PROVE RowsTold'
      <4>1. RowsTold
        <5>1. ~FirstLoad(flying, stored) BY <2>4 DEF FirstLoad, WriteOps
        <5> QED BY <5>1, <3>3, <2>2, <1>1 DEF ListTold
      <4>2. OnePerRow(flying') BY <4>1, <1>2, <1>4 DEF RowsTold, OnePerRow
      <4>3. \A j \in 1..Len(flying) : flying[j].of \in Rows /\ (j # i => flying[j].of # d.of)
        BY <4>1, <1>1 DEF RowsTold, OnePerRow, Carries, WriteOps
      <4>4. \A j \in 1..Len(flying') :
                /\ flying'[j].op \in WriteOps
                /\ flying'[j].op \in {"update", "toggle"} => ui.list[flying'[j].of] # Absent
        BY <4>1, <1>2, <1>4 DEF RowsTold
      <4>5. \A j \in 1..Len(flying') :
              flying'[j].answer = "ok" => flying'[j].list[flying'[j].of] = stored'[flying'[j].of]
        BY <4>1, <4>3, <2>4, <1>2 DEF RowsTold
      <4>6. \A n \in Rows : ui.list[n] = stored'[n] \/ RowOnItsWay(flying', n)
        <5>1. SUFFICES ASSUME NEW n \in Rows, n # d.of PROVE ui.list[n] = stored'[n] \/ RowOnItsWay(flying', n)
          BY <2>4, <1>2 DEF RowOnItsWay
        <5>2. RowOnItsWay(flying, n) => RowOnItsWay(flying', n) BY <1>2 DEF RowOnItsWay
        <5> QED BY <5>1, <5>2, <4>1, <2>4 DEF RowsTold
      <4>7. ui.list \in RowTable BY <4>1 DEF RowsTold
      <4> QED BY <4>2, <4>4, <4>5, <4>6, <4>7 DEF RowsTold
    <3> QED BY <3>2, <3>3
  <2> QED BY <2>2, <2>3, <2>4
<1>8. FormFits' BY <1>1 DEF FormFits
<1>9. NewFormFits' BY <1>1, <1>3, <1>4 DEF NewFormFits, NotReopened
<1>10. KeysFit'
  <2>1. \A j \in DOMAIN flying' : CallFits(flying[j])' BY <1>1, <1>3, <1>4 DEF CallFits, NotReopened
  <2> QED BY <2>1 DEF KeysFit, NotReopened
<1> QED BY <1>6, <1>7, <1>8, <1>9, <1>10 DEF EditorsInv

LEMMA RepliesKeeps ==
  ASSUME EditorsInv, NEW i \in 1..Len(flying), Replies(i)
  PROVE  EditorsInv'
<1>1. PICK c : c = flying[i] OBVIOUS
<1>2. /\ flying \in Seq(FlightState) /\ c \in FlightState /\ Carries(c) /\ CallFits(c)
      /\ stored \in RowTable /\ failures \in Nat /\ KeysFit
  BY <1>1, EditorsParts
<1>3. c.answer = "none" /\ UNCHANGED <<ui, edits, failures, lapses>> BY <1>1 DEF Replies
<1>4. NotReopened => \A n \in Rows : stored[n] # Absent => stored[n].key.of = n BY <1>2 DEF KeysFit
<1>5. CASE Refused(c)
  <2>1. PICK d : d = [c EXCEPT !.answer = "error"] OBVIOUS
  <2>2. /\ d \in FlightState /\ d.op = c.op /\ d.of = c.of /\ d.row = c.row /\ d.after = c.after
        /\ d.answer = "error"
    BY <2>1, <1>2 DEF FlightState
  <2>3. flying' = [flying EXCEPT ![i] = d] /\ stored' = stored
    BY <2>1, <1>1, <1>5 DEF Replies
  <2>4. Carries(d) BY <2>2, <1>2 DEF Carries
  <2> QED BY <2>2, <2>3, <2>4, <1>1, <1>2, <1>3, <1>4, AnswerKeeps
<1>6. CASE ~Refused(c)
  <2>1. PICK brought : brought = Applied(c) OBVIOUS
  <2>2. PICK d : d = [c EXCEPT !.answer = "ok", !.list = brought] OBVIOUS
  <2>3. stored' = brought /\ flying' = [flying EXCEPT ![i].answer = "ok", ![i].list = brought]
    BY <2>1, <1>1, <1>6 DEF Replies
  <2>4. flying' = [flying EXCEPT ![i] = d] BY <2>2, <2>3, <1>1, <1>2
  <2>5. brought \in RowTable => /\ d \in FlightState /\ d.op = c.op /\ d.of = c.of /\ d.row = c.row
                              /\ d.after = c.after /\ d.answer = "ok" /\ d.list = brought
    BY <2>2, <1>2 DEF FlightState
  <2>6. CASE c.op \in WriteOps
    <3>1. /\ brought \in RowTable /\ (c.op # "delete" => brought[c.of] \in Row)
          /\ (c.op = "delete" => brought[c.of] = Absent)
          /\ \A n \in Rows : n # c.of => brought[n] = stored[n]
          /\ NotReopened => \A n \in Rows : brought[n] # Absent => brought[n].key.of = n
      BY <2>1, <2>6, <1>2, <1>4, <1>6, AppliedIsTable
    <3>2. Carries(d) BY <3>1, <2>5, <1>2 DEF Carries
    <3> QED BY <3>1, <3>2, <2>3, <2>4, <2>5, <2>6, <1>1, <1>2, <1>3, AnswerKeeps
  <2>7. CASE c.op \notin WriteOps
    <3>1. c.op \in {"load", "detail"} BY <2>7, <1>2 DEF FlightState
    <3>2. brought = stored BY <2>1, <3>1 DEF Applied
    <3>3. c.op = "detail" => c.of \in Rows /\ stored[c.of] \in Row
      BY <3>1, <1>2, <1>6 DEF Refused, Carries, RowTable
    <3>4. Carries(d) BY <3>1, <3>2, <3>3, <2>5, <1>2 DEF Carries
    <3> QED BY <3>1, <3>2, <3>4, <2>3, <2>4, <2>5, <1>1, <1>2, <1>3, <1>4, AnswerKeeps
  <2> QED BY <2>6, <2>7
<1> QED BY <1>5, <1>6

LEMMA FailsKeeps ==
  ASSUME EditorsInv, NEW i \in 1..Len(flying), Fails(i)
  PROVE  EditorsInv'
<1>1. PICK c : c = flying[i] OBVIOUS
<1>2. /\ flying \in Seq(FlightState) /\ c \in FlightState /\ Carries(c) /\ CallFits(c)
      /\ stored \in RowTable /\ failures \in Nat /\ KeysFit
  BY <1>1, EditorsParts
<1>3. c.answer = "none" /\ UNCHANGED <<ui, edits>> /\ failures' \in Nat BY <1>1, <1>2 DEF Fails
<1>4. NotReopened => \A n \in Rows : stored[n] # Absent => stored[n].key.of = n BY <1>2 DEF KeysFit
<1>5. PICK d : d = [c EXCEPT !.answer = "error"] OBVIOUS
<1>6. /\ d \in FlightState /\ d.op = c.op /\ d.of = c.of /\ d.row = c.row /\ d.after = c.after
      /\ d.answer = "error"
  BY <1>2, <1>5 DEF FlightState
<1>7. flying' = [flying EXCEPT ![i] = d] BY <1>1, <1>5 DEF Fails
<1>8. Carries(d) BY <1>2, <1>6 DEF Carries
<1>9. CASE UNCHANGED <<stored, lapses>>
  BY <1>1, <1>2, <1>3, <1>4, <1>6, <1>7, <1>8, <1>9, AnswerKeeps
<1>10. CASE /\ ~Refused(c) /\ c.op \notin {"load", "detail"}
            /\ stored' = Applied(c) /\ lapses' = lapses \cup {"written"}
  <2>1. c.op \in WriteOps BY <1>2, <1>10 DEF FlightState
  <2>2. stored' \in RowTable
        /\ (NotReopened => \A n \in Rows : stored'[n] # Absent => stored'[n].key.of = n)
    BY <2>1, <1>2, <1>4, <1>10, AppliedIsTable
  <2> QED BY <2>2, <1>1, <1>2, <1>3, <1>6, <1>7, <1>8, <1>10, AnswerKeeps
<1> QED BY <1>1, <1>9, <1>10 DEF Fails

-----------------------------------------------------------------------------
(* An answer arrives at the page of the channels                           *)

\* The calls that are left, and perhaps one more.
CallsGoOn ==
  /\ flying' \in Seq(FlightState) /\ DOMAIN flying' = 1..Len(flying')
  /\ \A j \in 1..Len(flying') :
       \/ \E k \in 1..Len(flying) : flying'[j] = flying[k]
       \/ Carries(flying'[j]) /\ CallFits(flying'[j]) /\ flying'[j].op # "detail"

LEMMA RestGoesOn ==
  ASSUME flying \in Seq(FlightState), NEW i \in 1..Len(flying), flying' = RemoveAt(flying, i)
  PROVE  CallsGoOn
<1>1. PICK rest : rest = RemoveAt(flying, i) OBVIOUS
<1>2. rest \in Seq(FlightState) BY <1>1, Arrived
<1>3. \A j \in 1..Len(rest) : \E k \in 1..Len(flying) : rest[j] = flying[k] BY <1>1, ArrivedKeeps
<1> QED BY <1>1, <1>2, <1>3 DEF CallsGoOn

LEMMA NextGoesOn ==
  ASSUME flying \in Seq(FlightState), NEW i \in 1..Len(flying), NEW d \in FlightState,
         flying' = Append(RemoveAt(flying, i), d), Carries(d), CallFits(d), d.op # "detail"
  PROVE  CallsGoOn
<1>1. PICK rest : rest = RemoveAt(flying, i) OBVIOUS
<1>2. rest \in Seq(FlightState) BY <1>1, Arrived
<1>3. \A j \in 1..Len(rest) : \E k \in 1..Len(flying) : rest[j] = flying[k] BY <1>1, ArrivedKeeps
<1>4. /\ flying' \in Seq(FlightState) /\ Len(flying') = Len(rest) + 1 /\ Len(rest) \in Nat
      /\ \A j \in 1..Len(rest) : flying'[j] = rest[j]
      /\ flying'[Len(rest) + 1] = d
  BY <1>1, <1>2, Sent
<1>5. \A j \in 1..Len(flying') : \/ \E k \in 1..Len(flying) : flying'[j] = flying[k]
                                 \/ flying'[j] = d
  BY <1>3, <1>4
<1> QED BY <1>4, <1>5 DEF CallsGoOn

LEMMA ChannelArrivalKeeps ==
  ASSUME EditorsInv, ui.page = "channels", NEW i \in 1..Len(flying), ui' \in EditorState,
         ui'.page = ui.page, ui'.mode = "edit" => ui'.active \in ActiveState,
         UNCHANGED <<stored, edits, failures>>,
         lapses \subseteq lapses', lapses' \subseteq lapses \cup {"crossed", "two steps"},
         CallsGoOn,
         FormFits', ListTold',
         NotReopened /\ ui'.mode = "create" => ui.mode = "create" /\ ui'.form = ui.form
  PROVE  EditorsInv'
<1>1. /\ EditorsTypeOK /\ NewFormFits /\ KeysFit
      /\ flying \in Seq(FlightState) /\ DOMAIN flying = 1..Len(flying)
      /\ \A j \in 1..Len(flying) : Carries(flying[j]) /\ CallFits(flying[j])
  BY EditorsParts
<1>6. /\ DOMAIN flying' = 1..Len(flying') /\ flying' \in Seq(FlightState)
      /\ \A j \in 1..Len(flying') :
           \/ \E k \in 1..Len(flying) : flying'[j] = flying[k]
           \/ Carries(flying'[j]) /\ CallFits(flying'[j]) /\ flying'[j].op # "detail"
  BY DEF CallsGoOn
<1>7. \A j \in DOMAIN flying' : Carries(flying'[j]) BY <1>1, <1>6
<1>8. lapses' \in SUBSET {"reopened", "crossed", "written", "two steps"}
      /\ (NotReopened' <=> NotReopened)
  BY <1>1 DEF EditorsTypeOK, NotReopened
<1>9. EditorsTypeOK'
  <2>1. \A j \in DOMAIN flying' : Carries(flying[j])' BY <1>7 DEF Carries
  <2>2. stored' \in RowTable /\ edits' \in Nat /\ failures' \in Nat BY <1>1 DEF EditorsTypeOK
  <2> QED BY <2>1, <2>2, <1>6, <1>8 DEF EditorsTypeOK
<1>10. NewFormFits'
  <2>1. SUFFICES ASSUME NotReopened', ui'.mode = "create"
        PROVE  (\A j \in DOMAIN flying' : flying'[j].op # "detail") /\ (ui'.form.dirty \/ ui'.form.key = NoKey)
    BY DEF NewFormFits
  <2>2. (\A j \in DOMAIN flying : flying[j].op # "detail") /\ (ui.form.dirty \/ ui.form.key = NoKey)
        /\ ui'.form = ui.form
    BY <2>1, <1>1, <1>8 DEF NewFormFits
  <2> QED BY <2>2, <1>1, <1>6
<1>11. KeysFit'
  <2>1. \A j \in DOMAIN flying' : CallFits(flying'[j])
    BY <1>1, <1>6
  <2>2. \A j \in DOMAIN flying' : CallFits(flying[j])'
    BY <2>1, <1>8 DEF CallFits
  <2> QED BY <2>2, <1>1, <1>8 DEF KeysFit
<1> QED BY <1>9, <1>10, <1>11 DEF EditorsInv

\* What is left of the calls still brings what is stored, but for a write that was done and the
\* last of the loads.
LEMMA RestOnItsWay ==
  ASSUME EditorsInv, ui.page = "channels", InOrder, NEW i \in 1..Len(flying),
         flying[i].op # "load", ~(flying[i].op \in WriteOps /\ flying[i].answer = "ok"),
         flying' = RemoveAt(flying, i), stored' = stored, ui'.list = ui.list, ui'.error = ui.error
  PROVE  OnItsWay(flying, stored, ListShows)'
<1>1. flying \in Seq(FlightState) /\ OnItsWay(flying, stored, ListShows) BY EditorsParts DEF ListTold
<1>2. /\ NoLoad(flying) => NoLoad(flying')
      /\ WriteDone(flying) => WriteDone(flying')
      /\ LoadBrings(flying, stored) => LoadBrings(flying', stored)
  BY <1>1, ArrivedBeside
<1> QED BY <1>1, <1>2 DEF OnItsWay, ListShows

\* A call that loads the list next.
LEMMA LoadIsNext ==
  ASSUME flying \in Seq(FlightState), NEW i \in 1..Len(flying), ThenLoads(i, flying[i].after)
  PROVE  /\ CallsGoOn
         /\ \A brought : LoadBrings(flying', brought)
<1>1. PICK d : d = Load(flying[i].after) OBVIOUS
<1>2. flying[i] \in FlightState OBVIOUS
<1>3. d \in FlightState /\ d.op = "load" /\ d.answer = "none"
  BY <1>1, <1>2 DEF Load, Fly, FlightState, NoList
<1>4. flying' = Append(RemoveAt(flying, i), d) BY <1>1 DEF ThenLoads, Rest
<1>5. Carries(d) /\ CallFits(d) BY <1>3 DEF Carries, CallFits
<1>6. RemoveAt(flying, i) \in Seq(FlightState) BY Arrived
<1>7. \A brought : LoadBrings(flying', brought) BY <1>3, <1>4, <1>6, SentLoad
<1>8. CallsGoOn BY <1>3, <1>4, <1>5, NextGoesOn
<1> QED BY <1>7, <1>8

\* What is told apart when an answer arrives.
LEMMA ChannelLapses ==
  ASSUME EditorsInv, NEW i \in 1..Len(flying), ChannelsArrive(i)
  PROVE  /\ ui.page = "channels" /\ UNCHANGED <<stored, edits, failures>>
         /\ lapses \subseteq lapses' /\ lapses' \subseteq lapses \cup {"crossed", "two steps"}
         /\ InOrder' => InOrder
         /\ InOrder' /\ flying[i].op = "load" => \A j \in 1..(i - 1) : flying[j].op # "load"
         /\ InOrder' => ~(flying[i].op = "create" /\ flying[i].answer = "ok" /\ ~flying[i].row.on)
<1>1. ui.page = "channels" /\ UNCHANGED <<stored, edits, failures>> BY DEF ChannelsArrive
<1>2. PICK crossed : crossed = (IF flying[i].op = "load" /\ \E j \in 1..(i - 1) : flying[j].op = "load"
                                THEN {"crossed"} ELSE {})
  OBVIOUS
<1>3. PICK steps : steps = (IF flying[i].op = "create" /\ flying[i].answer = "ok" /\ ~flying[i].row.on
                            THEN {"two steps"} ELSE {})
  OBVIOUS
<1>4. lapses' = lapses \cup crossed \cup steps BY <1>2, <1>3 DEF ChannelsArrive
<1>5. lapses \subseteq lapses' /\ lapses' \subseteq lapses \cup {"crossed", "two steps"}
  BY <1>2, <1>3, <1>4
<1>6. InOrder' => InOrder BY <1>5 DEF InOrder
<1>7. InOrder' => "crossed" \notin crossed /\ "two steps" \notin steps
  BY <1>4 DEF InOrder
<1>8. InOrder' /\ flying[i].op = "load" => \A j \in 1..(i - 1) : flying[j].op # "load"
  BY <1>2, <1>7
<1>9. InOrder' => ~(flying[i].op = "create" /\ flying[i].answer = "ok" /\ ~flying[i].row.on)
  BY <1>3, <1>7
<1> QED BY <1>1, <1>5, <1>6, <1>8, <1>9

LEMMA ToggleArrivesKeeps ==
  ASSUME EditorsInv, NEW i \in 1..Len(flying), ChannelsArrive(i), ToggleArrives(i)
  PROVE  EditorsInv'
<1>1. PICK c : c = flying[i] OBVIOUS
<1>2. /\ flying \in Seq(FlightState) /\ c \in FlightState /\ Carries(c) /\ FormFits /\ ui \in EditorState
      /\ (ui.mode = "edit" => ui.active \in ActiveState)
  BY <1>1, EditorsParts
<1>3. /\ ui.page = "channels" /\ UNCHANGED <<stored, edits, failures>>
      /\ lapses \subseteq lapses' /\ lapses' \subseteq lapses \cup {"crossed", "two steps"}
  BY ChannelLapses
<1>4. CallsGoOn /\ LoadBrings(flying', stored) BY <1>2, LoadIsNext DEF ToggleArrives
<1>5. /\ ui' \in EditorState /\ ui'.page = ui.page /\ ui'.mode = ui.mode /\ ui'.form = ui.form
      /\ ui'.active = ui.active
         \/ (ui.active # Absent /\ ui'.active \in ActiveState /\ ui'.active.of = ui.active.of)
  <2>1. CASE c.answer = "ok" /\ ui.active # Absent /\ ui.active.of = c.of
    <3>1. PICK b : b = c.list[c.of].on OBVIOUS
    <3>2. b \in BOOLEAN
      <4>1. c.list[c.of] \in Row BY <2>1, <1>1, <1>2 DEF Carries, ToggleArrives
      <4> QED BY <3>1, <4>1 DEF Row
    <3>3. ui.active \in ActiveState BY <2>1, <1>2 DEF EditorState
    <3>4. PICK a : a = [ui.active EXCEPT !.on = b] OBVIOUS
    <3>5. a \in ActiveState /\ a.of = ui.active.of BY <3>2, <3>3, <3>4 DEF ActiveState
    <3>6. ui' = [ui EXCEPT !.active.on = b] BY <2>1, <3>1, <1>1 DEF ToggleArrives
    <3>7. ui' = [ui EXCEPT !.active = a] BY <3>4, <3>6
    <3> QED BY <2>1, <3>5, <3>7, <1>2 DEF EditorState
  <2>2. CASE ~(c.answer = "ok" /\ ui.active # Absent /\ ui.active.of = c.of)
    <3>1. ui' = ui BY <2>2, <1>1 DEF ToggleArrives
    <3> QED BY <3>1, <1>2
  <2> QED BY <2>1, <2>2
<1>6. FormFits' BY <1>2, <1>5 DEF FormFits
<1>7. ListTold'
  <2>1. OnItsWay(flying, stored, ListShows)' BY <1>3, <1>4 DEF OnItsWay
  <2> QED BY <2>1, <1>3, <1>5 DEF ListTold
<1>8. ui'.mode = "edit" => ui'.active \in ActiveState BY <1>2, <1>5
<1> QED BY <1>3, <1>4, <1>5, <1>6, <1>7, <1>8, ChannelArrivalKeeps

LEMMA DetailArrivesKeeps ==
  ASSUME EditorsInv, NEW i \in 1..Len(flying), ChannelsArrive(i), DetailArrives(i)
  PROVE  EditorsInv'
<1>1. PICK c : c = flying[i] OBVIOUS
<1>2. /\ flying \in Seq(FlightState) /\ c \in FlightState /\ Carries(c) /\ FormFits /\ ui \in EditorState
      /\ (ui.mode = "edit" => ui.active \in ActiveState)
      /\ NewFormFits /\ DOMAIN flying = 1..Len(flying)
  BY <1>1, EditorsParts
<1>3. /\ ui.page = "channels" /\ UNCHANGED <<stored, edits, failures>>
      /\ lapses \subseteq lapses' /\ lapses' \subseteq lapses \cup {"crossed", "two steps"}
      /\ InOrder' => InOrder
  BY ChannelLapses
<1>4. c.op = "detail" /\ flying' = RemoveAt(flying, i) BY <1>1 DEF DetailArrives, Rest
<1>5. CallsGoOn BY <1>2, <1>4, RestGoesOn
<1>6. ~(NotReopened /\ ui.mode = "create") BY <1>1, <1>2, <1>4 DEF NewFormFits
<1>7. /\ ui' \in EditorState /\ ui'.page = ui.page /\ ui'.mode = ui.mode
      /\ ui'.list = ui.list /\ ui'.error = ui.error
      /\ \/ ui'.active = ui.active /\ ui'.form = ui.form
         \/ ui'.active \in ActiveState /\ ui'.form.of = ui'.active.of /\ ui'.form.dirty = FALSE
  <2>1. CASE c.answer = "ok"
    <3>1. PICK row : row = c.list[c.of] OBVIOUS
    <3>2. row \in Row /\ c.of \in Rows BY <2>1, <3>1, <1>2, <1>4 DEF Carries
    <3>3. PICK a : a = [of |-> c.of, on |-> row.on] OBVIOUS
    <3>4. PICK f : f = FormOf(c.of, row, TRUE) OBVIOUS
    <3>5. a \in ActiveState /\ a.of = c.of BY <3>2, <3>3 DEF ActiveState, Row
    <3>6. f = [of |-> c.of, edit |-> row.edit, key |-> row.key, dirty |-> FALSE] BY <3>4 DEF FormOf
    <3>7. f \in EditFormState /\ f.of = c.of /\ f.dirty = FALSE BY <3>2, <3>6 DEF EditFormState, Row
    <3>8. ui' = [ui EXCEPT !.active = a, !.form = f, !.pane = TRUE]
      BY <2>1, <3>1, <3>3, <3>4, <1>1 DEF DetailArrives
    <3> QED BY <3>5, <3>7, <3>8, <1>2 DEF EditorState
  <2>2. CASE c.answer # "ok"
    <3>1. ui' = [ui EXCEPT !.pane = TRUE] BY <2>2, <1>1 DEF DetailArrives
    <3> QED BY <3>1, <1>2 DEF EditorState
  <2> QED BY <2>1, <2>2
<1>8. FormFits' BY <1>2, <1>7 DEF FormFits
<1>9. ListTold'
  <2>1. InOrder' => OnItsWay(flying, stored, ListShows)'
    <3>1. c.op # "load" /\ c.op \notin WriteOps BY <1>4 DEF WriteOps
    <3> QED BY <3>1, <1>1, <1>3, <1>4, <1>7, RestOnItsWay
  <2> QED BY <2>1, <1>3, <1>7 DEF ListTold
<1>10. ui'.mode = "edit" => ui'.active \in ActiveState BY <1>2, <1>7
<1> QED BY <1>3, <1>5, <1>6, <1>7, <1>8, <1>9, <1>10, ChannelArrivalKeeps

\* The answer to a write: the list is loaded next, a second call is made, or the error is shown.
LEMMA WriteArrivesKeeps ==
  ASSUME EditorsInv, NEW i \in 1..Len(flying), ChannelsArrive(i), flying[i].op \in WriteOps,
         ui' = ui \/ ui' = [ui EXCEPT !.pending = FALSE] \/ ui' = [ui EXCEPT !.deleting = FALSE],
         \/ ThenLoads(i, flying[i].after)
         \/ flying[i].answer # "ok" /\ flying' = RemoveAt(flying, i)
         \/ CallsGoOn /\ ~InOrder'
  PROVE  EditorsInv'
<1>1. PICK c : c = flying[i] OBVIOUS
<1>2. /\ flying \in Seq(FlightState) /\ FormFits /\ ui \in EditorState
      /\ (ui.mode = "edit" => ui.active \in ActiveState)
  BY <1>1, EditorsParts
<1>3. /\ ui.page = "channels" /\ UNCHANGED <<stored, edits, failures>>
      /\ lapses \subseteq lapses' /\ lapses' \subseteq lapses \cup {"crossed", "two steps"}
      /\ InOrder' => InOrder
  BY ChannelLapses
<1>4. /\ ui' \in EditorState /\ ui'.page = ui.page /\ ui'.mode = ui.mode /\ ui'.form = ui.form
      /\ ui'.active = ui.active /\ ui'.list = ui.list /\ ui'.error = ui.error
  BY <1>2 DEF EditorState
<1>5. FormFits' BY <1>2, <1>4 DEF FormFits
<1>6. CallsGoOn /\ (InOrder' => OnItsWay(flying, stored, ListShows)')
  <2>1. CASE ThenLoads(i, flying[i].after)
    <3>1. CallsGoOn /\ LoadBrings(flying', stored) BY <2>1, <1>2, LoadIsNext
    <3> QED BY <3>1, <1>3 DEF OnItsWay
  <2>2. CASE flying[i].answer # "ok" /\ flying' = RemoveAt(flying, i)
    <3>1. CallsGoOn BY <2>2, <1>2, RestGoesOn
    <3>2. flying[i].op # "load" BY DEF WriteOps
    <3> QED BY <3>1, <3>2, <2>2, <1>3, <1>4, RestOnItsWay
  <2> QED BY <2>1, <2>2
<1>7. ListTold' BY <1>3, <1>4, <1>6 DEF ListTold
<1> QED BY <1>2, <1>3, <1>4, <1>5, <1>6, <1>7, ChannelArrivalKeeps

LEMMA SubmitArrivesKeeps ==
  ASSUME EditorsInv, NEW i \in 1..Len(flying), ChannelsArrive(i), SubmitArrives(i)
  PROVE  EditorsInv'
<1>1. PICK c : c = flying[i] OBVIOUS
<1>2. flying \in Seq(FlightState) /\ c \in FlightState /\ Carries(c) BY <1>1, EditorsParts
<1>3. c.op \in WriteOps BY <1>1 DEF SubmitArrives, WriteOps
<1>4. CASE c.answer # "ok"
  <2>1. ui' = [ui EXCEPT !.pending = FALSE] /\ flying' = RemoveAt(flying, i)
    BY <1>1, <1>4 DEF SubmitArrives, Rest
  <2> QED BY <2>1, <1>1, <1>3, <1>4, WriteArrivesKeeps
<1>5. CASE c.answer = "ok" /\ ~(c.op = "create" /\ ~c.row.on)
  <2>1. ui' = ui /\ ThenLoads(i, c.after) BY <1>1, <1>5 DEF SubmitArrives
  <2> QED BY <2>1, <1>1, <1>3, WriteArrivesKeeps
<1>6. CASE c.answer = "ok" /\ c.op = "create" /\ ~c.row.on
  <2>1. PICK row : row = [c.row EXCEPT !.on = FALSE] OBVIOUS
  <2>2. c.of \in Rows /\ c.row \in Row BY <1>2, <1>6 DEF Carries
  <2>3. row \in Row BY <2>1, <2>2 DEF Row
  <2>4. PICK d : d = Fly("toggle", c.of, row, c.after) OBVIOUS
  <2>5. d \in FlightState /\ d.op = "toggle" /\ d.of = c.of /\ d.row = row /\ d.answer = "none"
    BY <2>2, <2>3, <2>4, <1>2 DEF Fly, FlightState, NoList, WriteOps
  <2>6. Carries(d) /\ CallFits(d) BY <2>2, <2>3, <2>5 DEF Carries, CallFits
  <2>7. ui' = ui /\ flying' = Append(RemoveAt(flying, i), d)
    BY <2>1, <2>4, <1>1, <1>6 DEF SubmitArrives, Rest
  <2>8. CallsGoOn BY <2>5, <2>6, <2>7, <1>2, NextGoesOn
  <2>9. ~InOrder' BY <1>1, <1>6, ChannelLapses
  <2> QED BY <2>7, <2>8, <2>9, <1>1, <1>3, WriteArrivesKeeps
<1> QED BY <1>4, <1>5, <1>6

LEMMA DeleteArrivesKeeps ==
  ASSUME EditorsInv, NEW i \in 1..Len(flying), ChannelsArrive(i), DeleteArrives(i)
  PROVE  EditorsInv'
<1>1. flying[i].op \in WriteOps BY DEF DeleteArrives, WriteOps
<1>2. CASE flying[i].answer = "ok"
  <2>1. ui' = ui /\ ThenLoads(i, flying[i].after) BY <1>2 DEF DeleteArrives
  <2> QED BY <2>1, <1>1, WriteArrivesKeeps
<1>3. CASE flying[i].answer # "ok"
  <2>1. ui' = [ui EXCEPT !.deleting = FALSE] /\ flying' = RemoveAt(flying, i)
    BY <1>3 DEF DeleteArrives, Rest
  <2> QED BY <2>1, <1>1, <1>3, WriteArrivesKeeps
<1> QED BY <1>2, <1>3

LEMMA ReloadedShows ==
  ASSUME ui \in EditorState, NEW c \in FlightState, Carries(c), c.answer # "none"
  PROVE  /\ Reloaded(ui, c) \in EditorState
         /\ Reloaded(ui, c).page = ui.page /\ Reloaded(ui, c).mode = ui.mode
         /\ Reloaded(ui, c).form = ui.form /\ Reloaded(ui, c).active = ui.active
         /\ c.answer = "ok" => Reloaded(ui, c).list = c.list
         /\ c.answer # "ok" => Reloaded(ui, c).error
<1>1. PICK shown : shown = IF c.answer = "ok" THEN [ui EXCEPT !.list = c.list, !.error = FALSE]
                                              ELSE [ui EXCEPT !.error = TRUE]
  OBVIOUS
<1>2. /\ shown \in EditorState /\ shown.page = ui.page /\ shown.mode = ui.mode
      /\ shown.form = ui.form /\ shown.active = ui.active
      /\ c.answer = "ok" => shown.list = c.list
      /\ c.answer # "ok" => shown.error
  BY <1>1 DEF Carries, EditorState
<1>3. PICK u : u = Reloaded(ui, c) OBVIOUS
<1>4. \/ u = [shown EXCEPT !.toggling = shown.toggling \ {c.after.of}]
      \/ u = [shown EXCEPT !.pane = FALSE, !.creating = FALSE, !.pending = FALSE]
      \/ u = [shown EXCEPT !.deleting = FALSE]
      \/ u = shown
  BY <1>1, <1>3 DEF Reloaded
<1>5. u \in EditorState /\ u.page = shown.page /\ u.mode = shown.mode /\ u.form = shown.form
      /\ u.active = shown.active /\ u.list = shown.list /\ u.error = shown.error
  <2>1. CASE u = [shown EXCEPT !.toggling = shown.toggling \ {c.after.of}]
    BY <2>1, <1>2 DEF EditorState
  <2>2. CASE u = [shown EXCEPT !.pane = FALSE, !.creating = FALSE, !.pending = FALSE]
    BY <2>2, <1>2 DEF EditorState
  <2>3. CASE u = [shown EXCEPT !.deleting = FALSE] BY <2>3, <1>2 DEF EditorState
  <2>4. CASE u = shown BY <2>4, <1>2
  <2> QED BY <2>1, <2>2, <2>3, <2>4, <1>4
<1> QED BY <1>2, <1>3, <1>5

\* The last of the loads brings what is stored; one that overtakes an earlier one is told apart.
LEMMA LoadArrivesKeeps ==
  ASSUME EditorsInv, NEW i \in 1..Len(flying), ChannelsArrive(i), LoadArrives(i)
  PROVE  EditorsInv'
<1>1. PICK c : c = flying[i] OBVIOUS
<1>2. /\ flying \in Seq(FlightState) /\ Len(flying) \in Nat /\ c \in FlightState /\ Carries(c)
      /\ FormFits /\ ui \in EditorState /\ ListTold
      /\ (ui.mode = "edit" => ui.active \in ActiveState)
  BY <1>1, EditorsParts
<1>3. /\ ui.page = "channels" /\ UNCHANGED <<stored, edits, failures>>
      /\ lapses \subseteq lapses' /\ lapses' \subseteq lapses \cup {"crossed", "two steps"}
      /\ InOrder' => InOrder
  BY ChannelLapses
<1>4. c.op = "load" /\ flying' = RemoveAt(flying, i) /\ ui' = Reloaded(ui, c)
  BY <1>1 DEF LoadArrives, Rest
<1>5. c.answer # "none" BY <1>1 DEF ChannelsArrive
<1>6. /\ ui' \in EditorState /\ ui'.page = ui.page /\ ui'.mode = ui.mode
      /\ ui'.form = ui.form /\ ui'.active = ui.active
      /\ c.answer = "ok" => ui'.list = c.list
      /\ c.answer # "ok" => ui'.error
  BY <1>2, <1>4, <1>5, ReloadedShows
<1>7. CallsGoOn BY <1>2, <1>4, RestGoesOn
<1>8. FormFits' BY <1>2, <1>6 DEF FormFits
<1>9. ASSUME InOrder' PROVE OnItsWay(flying, stored, ListShows)'
  <2>1. OnItsWay(flying, stored, ListShows) BY <1>2, <1>3, <1>9 DEF ListTold
  <2>2. /\ WriteDone(flying) => WriteDone(flying')
        /\ LoadBrings(flying, stored) =>
              \/ LoadBrings(flying', stored)
              \/ /\ \A j \in (i + 1)..Len(flying) : flying[j].op # "load"
                 /\ c.answer = "ok" => c.list = stored
    <3>1. ~(c.op \in WriteOps) BY <1>4 DEF WriteOps
    <3> QED BY <3>1, <1>1, <1>2, <1>4, ArrivedBeside
  <2>3. ~NoLoad(flying) BY <1>1, <1>4 DEF NoLoad
  <2>4. CASE /\ \A j \in (i + 1)..Len(flying) : flying[j].op # "load"
             /\ c.answer = "ok" => c.list = stored
    <3>1. \A j \in 1..(i - 1) : flying[j].op # "load" BY <1>1, <1>4, <1>9, ChannelLapses
    <3>2. \A k \in 1..Len(flying) : k # i => flying[k].op # "load" BY <2>4, <3>1, <1>2
    <3>3. \A j \in 1..Len(RemoveAt(flying, i)) :
            \E k \in 1..Len(flying) : k # i /\ RemoveAt(flying, i)[j] = flying[k]
      BY <1>2, ArrivedKeeps
    <3>4. NoLoad(flying') BY <3>2, <3>3, <1>4 DEF NoLoad
    <3>5. ListShows' BY <2>4, <1>3, <1>6 DEF ListShows
    <3> QED BY <3>4, <3>5 DEF OnItsWay
  <2> QED BY <2>1, <2>2, <2>3, <2>4, <1>3 DEF OnItsWay
<1>10. ListTold' BY <1>3, <1>6, <1>9 DEF ListTold
<1> QED BY <1>2, <1>3, <1>6, <1>7, <1>8, <1>10, ChannelArrivalKeeps

-----------------------------------------------------------------------------
(* The pages that patch their list                                         *)

LEMMA PatchCallKeeps ==
  ASSUME EditorsInv, Patching, NEW c \in FlightState, c.op \in WriteOps, c.answer = "none",
         Carries(c), CallFits(c), c.op \in {"update", "toggle"} => ui.list[c.of] # Absent,
         flying' = Append(flying, c), edits' \in Nat, UNCHANGED <<stored, ui, failures>>,
         \/ lapses' = lapses /\ \A i \in 1..Len(flying) : flying[i].of # c.of
         \/ lapses' = lapses \cup {"crossed"}
  PROVE  EditorsInv'
<1>1. EditorsTypeOK /\ ListTold /\ FormFits /\ NewFormFits /\ KeysFit /\ flying \in Seq(FlightState)
      /\ Len(flying) \in Nat /\ DOMAIN flying = 1..Len(flying) /\ ui \in EditorState
      /\ \A i \in 1..Len(flying) : Carries(flying[i]) /\ CallFits(flying[i])
  BY EditorsParts
<1>2. /\ flying' \in Seq(FlightState) /\ Len(flying') = Len(flying) + 1
      /\ \A i \in 1..Len(flying) : flying'[i] = flying[i]
      /\ flying'[Len(flying) + 1] = c
  BY <1>1, Sent
<1>3. \A i \in 1..Len(flying') : \/ i \in 1..Len(flying) /\ flying'[i] = flying[i]
                                 \/ i = Len(flying) + 1 /\ flying'[i] = c
  BY <1>1, <1>2
<1>4. DOMAIN flying' = 1..Len(flying') BY <1>2
<1>5. ui.page = "patched" /\ ui.list # Absent /\ ui.list \in RowTable
  BY <1>1 DEF Patching, EditorState
<1>6. EditorsTypeOK'
  <2>1. \A i \in DOMAIN flying' : Carries(flying[i])' BY <1>1, <1>3, <1>4 DEF Carries
  <2>2. lapses' \in SUBSET {"reopened", "crossed", "written", "two steps"} BY <1>1 DEF EditorsTypeOK
  <2>3. stored' \in RowTable /\ ui' \in EditorState /\ failures' \in Nat
        /\ (ui'.mode = "edit" => ui'.active \in ActiveState)
    BY <1>1 DEF EditorsTypeOK
  <2> QED BY <2>1, <2>2, <2>3, <1>2, <1>5 DEF EditorsTypeOK
<1>7. ListTold'
  <2>1. SUFFICES ASSUME InOrder' PROVE RowsTold'
    BY <1>5 DEF ListTold
  <2>2. InOrder /\ \A i \in 1..Len(flying) : flying[i].of # c.of BY <2>1 DEF InOrder
  <2>3. RowsTold BY <2>2, <1>1, <1>5 DEF ListTold
  <2>4. OnePerRow(flying') BY <2>2, <2>3, <1>3 DEF OnePerRow, RowsTold
  <2>5. \A n \in Rows : RowOnItsWay(flying, n) => RowOnItsWay(flying', n)
    BY <1>1, <1>2 DEF RowOnItsWay
  <2>6. \A i \in 1..Len(flying') :
          /\ flying'[i].op \in WriteOps
          /\ flying'[i].op \in {"update", "toggle"} => ui.list[flying'[i].of] # Absent
          /\ flying'[i].answer = "ok" => flying'[i].list[flying'[i].of] = stored[flying'[i].of]
    BY <2>3, <1>3 DEF RowsTold
  <2> QED BY <2>3, <2>4, <2>5, <2>6 DEF RowsTold
<1>8. FormFits' BY <1>1 DEF FormFits
<1>9. NewFormFits'
  <2>1. c.op # "detail" BY DEF WriteOps
  <2> QED BY <2>1, <1>1, <1>3, <1>4 DEF NewFormFits, NotReopened
<1>10. KeysFit'
  <2>1. \A i \in DOMAIN flying' : CallFits(flying[i])' BY <1>1, <1>3, <1>4 DEF CallFits, NotReopened
  <2> QED BY <2>1, <1>1 DEF KeysFit, NotReopened
<1> QED BY <1>6, <1>7, <1>8, <1>9, <1>10 DEF EditorsInv

LEMMA SaveKeeps ==
  ASSUME EditorsInv, NEW n \in Rows, KeysSave(n)
  PROVE  EditorsInv'
<1>1. edits \in Nat /\ DOMAIN flying = 1..Len(flying) BY EditorsParts
<1>2. Patching /\ ui.list[n] # Absent /\ UNCHANGED <<stored, ui, failures>> /\ edits' = edits + 1
  BY DEF KeysSave, Asks
<1>3. PICK row : row = [on |-> TRUE, edit |-> edits', key |-> NoKey] OBVIOUS
<1>4. row \in Row /\ row.key = NoKey BY <1>1, <1>2, <1>3 DEF Row, KeyState, NoKey
<1>5. PICK c : c = Fly("update", n, row, Nothing) OBVIOUS
<1>6. c \in FlightState /\ c.op = "update" /\ c.of = n /\ c.row = row /\ c.answer = "none"
  <2>1. c = Fly("update", n, row, Then("nothing", NoOne)) BY <1>5 DEF Nothing
  <2> QED BY <2>1, <1>4, FlyIsFlight DEF WriteOps
<1>7. flying' = Append(flying, c) BY <1>3, <1>5 DEF KeysSave, Asks
<1>8. Carries(c) BY <1>4, <1>6 DEF Carries
<1>9. ui.page # "channels" BY <1>2 DEF Patching
<1>10. CallFits(c) BY <1>4, <1>6, <1>9 DEF CallFits
<1>11. \/ lapses' = lapses /\ \A i \in 1..Len(flying) : flying[i].of # c.of
       \/ lapses' = lapses \cup {"crossed"}
  BY <1>1, <1>6 DEF KeysSave
<1>12. c.op \in WriteOps /\ edits' \in Nat BY <1>1, <1>2, <1>6 DEF WriteOps
<1> QED BY <1>2, <1>6, <1>7, <1>8, <1>10, <1>11, <1>12, PatchCallKeeps

LEMMA AliasToggleKeeps ==
  ASSUME EditorsInv, NEW n \in Rows, AliasToggle(n)
  PROVE  EditorsInv'
<1>1. edits \in Nat /\ DOMAIN flying = 1..Len(flying) /\ ui \in EditorState BY EditorsParts
<1>2. Patching /\ ui.list[n] # Absent /\ UNCHANGED <<stored, ui, failures>> /\ edits' = edits + 1
  BY DEF AliasToggle, Asks
<1>3. PICK row : row = [ui.list[n] EXCEPT !.on = ~ui.list[n].on] OBVIOUS
<1>4. row \in Row
  <2>1. ui.list \in RowTable BY <1>1, <1>2 DEF EditorState, Patching
  <2>2. ui.list[n] \in Row BY <2>1, <1>2 DEF RowTable
  <2> QED BY <2>2, <1>3 DEF Row
<1>5. PICK c : c = Fly("toggle", n, row, Nothing) OBVIOUS
<1>6. c \in FlightState /\ c.op = "toggle" /\ c.of = n /\ c.row = row /\ c.answer = "none"
  <2>1. c = Fly("toggle", n, row, Then("nothing", NoOne)) BY <1>5 DEF Nothing
  <2> QED BY <2>1, <1>4, FlyIsFlight DEF WriteOps
<1>7. flying' = Append(flying, c) BY <1>3, <1>5 DEF AliasToggle, Asks
<1>8. Carries(c) /\ CallFits(c) BY <1>4, <1>6 DEF Carries, CallFits
<1>9. \/ lapses' = lapses /\ \A i \in 1..Len(flying) : flying[i].of # c.of
      \/ lapses' = lapses \cup {"crossed"}
  BY <1>1, <1>6 DEF AliasToggle
<1>10. c.op \in WriteOps /\ edits' \in Nat BY <1>1, <1>2, <1>6 DEF WriteOps
<1> QED BY <1>2, <1>6, <1>7, <1>8, <1>9, <1>10, PatchCallKeeps

LEMMA PatchCreateKeeps ==
  ASSUME EditorsInv, NEW n \in Rows, KeysCreate(n)
  PROVE  EditorsInv'
<1>1. edits \in Nat /\ DOMAIN flying = 1..Len(flying) BY EditorsParts
<1>2. Patching /\ UNCHANGED <<stored, ui, failures, lapses>> /\ edits' = edits + 1
      /\ \A i \in DOMAIN flying : flying[i].of # n
  BY DEF KeysCreate, Asks
<1>3. PICK row : row = [on |-> TRUE, edit |-> edits', key |-> [of |-> n, by |-> edits']] OBVIOUS
<1>4. row \in Row /\ row.key.of = n BY <1>1, <1>2, <1>3 DEF Row, KeyState
<1>5. PICK c : c = Fly("create", n, row, Nothing) OBVIOUS
<1>6. c \in FlightState /\ c.op = "create" /\ c.of = n /\ c.row = row /\ c.answer = "none"
  <2>1. c = Fly("create", n, row, Then("nothing", NoOne)) BY <1>5 DEF Nothing
  <2> QED BY <2>1, <1>4, FlyIsFlight DEF WriteOps
<1>7. flying' = Append(flying, c) BY <1>3, <1>5 DEF KeysCreate, Asks
<1>8. Carries(c) /\ CallFits(c) BY <1>4, <1>6 DEF Carries, CallFits
<1>9. lapses' = lapses /\ \A i \in 1..Len(flying) : flying[i].of # c.of
  BY <1>1, <1>2, <1>6
<1>10. c.op \in WriteOps /\ edits' \in Nat BY <1>1, <1>2, <1>6 DEF WriteOps
<1> QED BY <1>2, <1>6, <1>7, <1>8, <1>9, <1>10, PatchCallKeeps

LEMMA PatchDeleteKeeps ==
  ASSUME EditorsInv, NEW n \in Rows, KeysDelete(n)
  PROVE  EditorsInv'
<1>1. edits \in Nat /\ DOMAIN flying = 1..Len(flying) BY EditorsParts
<1>2. Patching /\ UNCHANGED <<stored, ui, failures>> /\ edits' = edits + 1
  BY DEF KeysDelete, Asks
<1>3. PICK c : c = Fly("delete", n, Absent, Nothing) OBVIOUS
<1>4. c \in FlightState /\ c.op = "delete" /\ c.of = n /\ c.answer = "none"
  <2>1. c = Fly("delete", n, Absent, Then("nothing", NoOne)) BY <1>3 DEF Nothing
  <2> QED BY <2>1, FlyIsFlight DEF WriteOps
<1>5. flying' = Append(flying, c) BY <1>3 DEF KeysDelete, Asks
<1>6. Carries(c) /\ CallFits(c) BY <1>4 DEF Carries, CallFits
<1>7. \/ lapses' = lapses /\ \A i \in 1..Len(flying) : flying[i].of # c.of
      \/ lapses' = lapses \cup {"crossed"}
  BY <1>1, <1>4 DEF KeysDelete
<1>8. c.op \in WriteOps /\ edits' \in Nat BY <1>1, <1>2, <1>4 DEF WriteOps
<1> QED BY <1>2, <1>4, <1>5, <1>6, <1>7, <1>8, PatchCallKeeps

\* Which row an answer changes in the list.
LEMMA PatchedRow ==
  ASSUME NEW c \in FlightState, Carries(c), c.answer = "ok", c.op # "load", NEW list \in RowTable
  PROVE  /\ Patched(list, c) \in RowTable
         /\ \A n \in Rows : n # c.of => Patched(list, c)[n] = list[n]
         /\ c.op \in WriteOps /\ (c.op \in {"update", "toggle"} => list[c.of] # Absent)
              => Patched(list, c)[c.of] = c.list[c.of]
<1>1. c.of \in Rows /\ (c.op # "delete" => c.list[c.of] \in Row)
      /\ (c.op = "delete" => c.list[c.of] = Absent)
  BY DEF Carries
<1>2. PICK new : new = IF c.op = "delete" \/ (c.op # "create" /\ list[c.of] = Absent)
                       THEN Absent ELSE c.list[c.of]
  OBVIOUS
<1>3. Patched(list, c) = [list EXCEPT ![c.of] = new]
  BY <1>1, <1>2 DEF Patched, RowTable
<1>4. new \in Row \cup {Absent} BY <1>1, <1>2
<1>5. Patched(list, c) \in RowTable /\ Patched(list, c)[c.of] = new
      /\ \A n \in Rows : n # c.of => Patched(list, c)[n] = list[n]
  BY <1>1, <1>3, <1>4 DEF RowTable
<1>6. c.op \in WriteOps /\ (c.op \in {"update", "toggle"} => list[c.of] # Absent) => new = c.list[c.of]
  BY <1>1, <1>2 DEF WriteOps
<1> QED BY <1>5, <1>6

LEMMA RestOnePerRow ==
  ASSUME NEW s \in Seq(FlightState), NEW i \in 1..Len(s), OnePerRow(s)
  PROVE  OnePerRow(RemoveAt(s, i))
<1>1. PICK t : t = RemoveAt(s, i) OBVIOUS
<1>2. /\ Len(s) \in Nat /\ i \in Nat /\ Len(t) = Len(s) - 1
      /\ \A j \in 1..(i - 1) : t[j] = s[j]
      /\ \A j \in i..(Len(s) - 1) : t[j] = s[j + 1]
  <2>1. Len(s) \in Nat /\ i \in Nat OBVIOUS
  <2> QED BY <2>1, <1>1, Arrived, Zenon
<1>3. PICK at : at = [j \in 1..Len(t) |-> IF j < i THEN j ELSE j + 1] OBVIOUS
<1>4. \A j \in 1..Len(t) : at[j] \in 1..Len(s) /\ t[j] = s[at[j]] BY <1>2, <1>3
<1>5. \A j, k \in 1..Len(t) : at[j] = at[k] => j = k BY <1>2, <1>3
<1>6. SUFFICES ASSUME NEW j \in 1..Len(t), NEW k \in 1..Len(t), t[j].of = t[k].of PROVE j = k
  BY <1>1 DEF OnePerRow
<1>7. /\ at[j] \in 1..Len(s) /\ at[k] \in 1..Len(s)
      /\ t[j] = s[at[j]] /\ t[k] = s[at[k]]
  BY <1>4
<1>8. s[at[j]].of = s[at[k]].of BY <1>6, <1>7
<1>9. at[j] = at[k] BY <1>7, <1>8 DEF OnePerRow
<1> QED BY <1>5, <1>9

LEMMA PatchArrivesKeeps ==
  ASSUME EditorsInv, NEW i \in 1..Len(flying), PatchArrives(i)
  PROVE  EditorsInv'
<1>1. PICK c : c = flying[i] OBVIOUS
<1>2. /\ EditorsTypeOK /\ ListTold /\ FormFits /\ NewFormFits /\ KeysFit
      /\ flying \in Seq(FlightState) /\ Len(flying) \in Nat /\ DOMAIN flying = 1..Len(flying)
      /\ ui \in EditorState /\ c \in FlightState /\ Carries(c)
      /\ \A j \in 1..Len(flying) : Carries(flying[j]) /\ CallFits(flying[j])
  BY <1>1, EditorsParts
<1>3. /\ ui.page = "patched" /\ c.answer # "none" /\ (c.answer = "ok" \/ c.op # "load")
      /\ flying' = RemoveAt(flying, i) /\ UNCHANGED <<stored, edits, failures, lapses>>
  BY <1>1 DEF PatchArrives, Rest
<1>4. /\ flying' \in Seq(FlightState) /\ DOMAIN flying' = 1..Len(flying')
      /\ \A j \in 1..Len(flying') : \E k \in 1..Len(flying) : k # i /\ flying'[j] = flying[k]
      /\ \A k \in 1..Len(flying) : k # i => \E j \in 1..Len(flying') : flying'[j] = flying[k]
  <2>1. flying' \in Seq(FlightState) BY <1>2, <1>3, Arrived
  <2>2. /\ \A j \in 1..Len(RemoveAt(flying, i)) :
             \E k \in 1..Len(flying) : k # i /\ RemoveAt(flying, i)[j] = flying[k]
        /\ \A k \in 1..Len(flying) : k # i =>
             \E j \in 1..Len(RemoveAt(flying, i)) : RemoveAt(flying, i)[j] = flying[k]
    BY <1>2, ArrivedKeeps
  <2> QED BY <2>1, <2>2, <1>3
<1>5. (\E k \in 1..Len(flying) : flying[k].op # "load") => ui.list \in RowTable
  BY <1>2, <1>3 DEF EditorsTypeOK
<1>6. PICK list : list = IF c.answer = "ok" THEN Patched(ui.list, c) ELSE ui.list OBVIOUS
<1>7. (c.answer = "ok" => list \in RowTable) /\ (ui.list \in RowTable => list \in RowTable)
      /\ (c.answer # "ok" => list = ui.list)
  <2>1. CASE c.answer = "ok" /\ c.op = "load"
    <3>1. list = c.list BY <2>1, <1>6 DEF Patched
    <3> QED BY <3>1, <2>1, <1>2 DEF Carries
  <2>2. CASE c.answer = "ok" /\ c.op # "load"
    <3>1. ui.list \in RowTable BY <2>2, <1>1, <1>5
    <3> QED BY <3>1, <2>2, <1>2, <1>6, PatchedRow
  <2>3. CASE c.answer # "ok" BY <2>3, <1>6
  <2> QED BY <2>1, <2>2, <2>3
<1>8. /\ ui' \in EditorState /\ ui'.page = ui.page /\ ui'.mode = ui.mode /\ ui'.form = ui.form
      /\ ui'.active = ui.active /\ ui'.list = list
  <2>1. ui' = IF c.answer = "ok" THEN [ui EXCEPT !.list = Patched(ui.list, c)] ELSE ui
    BY <1>1 DEF PatchArrives
  <2>2. list \in RowTable \cup {Absent} BY <1>2, <1>7 DEF EditorState
  <2>3. CASE c.answer = "ok" BY <2>1, <2>2, <2>3, <1>2, <1>6 DEF EditorState
  <2>4. CASE c.answer # "ok" BY <2>1, <2>4, <1>2, <1>6
  <2> QED BY <2>3, <2>4
<1>9. EditorsTypeOK'
  <2>1. \A j \in DOMAIN flying' : Carries(flying[j])' BY <1>2, <1>4 DEF Carries
  <2>2. (\E j \in 1..Len(flying') : flying'[j].op # "load") => list \in RowTable
    <3>1. SUFFICES ASSUME NEW j \in 1..Len(flying'), flying'[j].op # "load" PROVE list \in RowTable
      OBVIOUS
    <3>2. PICK k \in 1..Len(flying) : flying'[j] = flying[k] BY <1>4
    <3> QED BY <3>1, <3>2, <1>5, <1>7
  <2>3. stored' \in RowTable /\ edits' \in Nat /\ failures' \in Nat
        /\ lapses' \in SUBSET {"reopened", "crossed", "written", "two steps"}
        /\ (ui'.mode = "edit" => ui'.active \in ActiveState) /\ ui'.page # "none"
    BY <1>2, <1>3, <1>8 DEF EditorsTypeOK
  <2> QED BY <2>1, <2>2, <2>3, <1>4, <1>8 DEF EditorsTypeOK
<1>10. ListTold'
  <2>1. SUFFICES ASSUME InOrder' PROVE RowsTold' \/ (ui.list = Absent /\ FirstLoad(flying, stored))'
    BY <1>3, <1>8 DEF ListTold
  <2>2. InOrder BY <2>1, <1>3 DEF InOrder
  <2>3. CASE ui.list = Absent /\ FirstLoad(flying, stored)
    <3>1. i = 1 /\ Len(flying) = 1 /\ c.op = "load" /\ (c.answer = "ok" => c.list = stored)
      BY <2>3, <1>1 DEF FirstLoad
    <3>2. c.answer = "ok" /\ list = stored BY <3>1, <1>3, <1>6 DEF Patched
    <3>3. \A j \in 1..Len(flying') : FALSE BY <3>1, <1>4
    <3>4. stored \in RowTable BY <1>2 DEF EditorsTypeOK
    <3> QED BY <3>2, <3>3, <3>4, <1>3, <1>8 DEF RowsTold, OnePerRow
  <2>4. CASE RowsTold
    <3>1. c.op \in WriteOps /\ ui.list \in RowTable /\ c.of \in Rows
      BY <2>4, <1>1, <1>2 DEF RowsTold, Carries, WriteOps
    <3>2. \A k \in 1..Len(flying) : k # i => flying[k].of # c.of /\ flying[k].of \in Rows
      BY <2>4, <1>1, <1>2 DEF RowsTold, OnePerRow, Carries, WriteOps
    <3>3. list \in RowTable /\ \A n \in Rows : n # c.of => list[n] = ui.list[n]
      BY <3>1, <1>2, <1>6, <1>7, PatchedRow DEF WriteOps
    <3>4. c.answer = "ok" => list[c.of] = stored[c.of]
      <4>1. SUFFICES ASSUME c.answer = "ok" PROVE list[c.of] = stored[c.of] OBVIOUS
      <4>2. c.list[c.of] = stored[c.of] /\ (c.op \in {"update", "toggle"} => ui.list[c.of] # Absent)
        BY <4>1, <2>4, <1>1 DEF RowsTold
      <4>3. c.op # "load" BY <3>1 DEF WriteOps
      <4> QED BY <4>1, <4>2, <4>3, <3>1, <1>2, <1>6, PatchedRow
    <3>5. OnePerRow(flying') BY <2>4, <1>2, <1>3, RestOnePerRow DEF RowsTold
    <3>6. \A j \in 1..Len(flying') :
            /\ flying'[j].op \in WriteOps
            /\ flying'[j].op \in {"update", "toggle"} => list[flying'[j].of] # Absent
            /\ flying'[j].answer = "ok" => flying'[j].list[flying'[j].of] = stored[flying'[j].of]
      <4>1. SUFFICES ASSUME NEW j \in 1..Len(flying')
            PROVE  /\ flying'[j].op \in WriteOps
                   /\ flying'[j].op \in {"update", "toggle"} => list[flying'[j].of] # Absent
                   /\ flying'[j].answer = "ok" => flying'[j].list[flying'[j].of] = stored[flying'[j].of]
        OBVIOUS
      <4>2. PICK k \in 1..Len(flying) : k # i /\ flying'[j] = flying[k] BY <1>4
      <4>3. list[flying[k].of] = ui.list[flying[k].of] BY <4>2, <3>2, <3>3
      <4> QED BY <4>2, <4>3, <2>4 DEF RowsTold
    <3>7. \A n \in Rows : list[n] = stored[n] \/ RowOnItsWay(flying', n)
      <4>1. SUFFICES ASSUME NEW n \in Rows, list[n] # stored[n] PROVE RowOnItsWay(flying', n) OBVIOUS
      <4>2. ~(c.answer = "ok" /\ n = c.of) BY <4>1, <3>4
      <4>3. list[n] = ui.list[n] BY <4>2, <3>3, <1>7
      <4>4. RowOnItsWay(flying, n) BY <4>1, <4>3, <2>4 DEF RowsTold
      <4>5. PICK k \in 1..Len(flying) : flying[k].of = n /\ flying[k].answer = "ok"
        BY <4>4 DEF RowOnItsWay
      <4>6. k # i BY <4>2, <4>5, <1>1
      <4> QED BY <4>5, <4>6, <1>4 DEF RowOnItsWay
    <3> QED BY <3>3, <3>5, <3>6, <3>7, <1>3, <1>8 DEF RowsTold
  <2> QED BY <2>2, <2>3, <2>4, <1>2, <1>3 DEF ListTold
<1>11. FormFits' BY <1>2, <1>8 DEF FormFits
<1>12. NewFormFits'
  <2>1. SUFFICES ASSUME NotReopened, ui.mode = "create"
        PROVE  (\A j \in DOMAIN flying' : flying'[j].op # "detail") /\ (ui.form.dirty \/ ui.form.key = NoKey)
    BY <1>3, <1>8 DEF NewFormFits, NotReopened
  <2>2. (\A k \in 1..Len(flying) : flying[k].op # "detail") /\ (ui.form.dirty \/ ui.form.key = NoKey)
    BY <2>1, <1>2 DEF NewFormFits
  <2>3. ASSUME NEW j \in 1..Len(flying') PROVE flying'[j].op # "detail"
    <3>1. PICK k \in 1..Len(flying) : flying'[j] = flying[k] BY <1>4
    <3> QED BY <3>1, <2>2
  <2> QED BY <2>2, <2>3, <1>4
<1>13. KeysFit'
  <2>1. \A j \in DOMAIN flying' : CallFits(flying'[j])
    <3>1. SUFFICES ASSUME NEW j \in 1..Len(flying') PROVE CallFits(flying'[j]) BY <1>4
    <3>2. PICK k \in 1..Len(flying) : flying'[j] = flying[k] BY <1>4
    <3> QED BY <3>2, <1>2
  <2>2. \A j \in DOMAIN flying' : CallFits(flying[j])'
    BY <2>1, <1>3, <1>8 DEF CallFits, NotReopened
  <2> QED BY <2>2, <1>2, <1>3 DEF KeysFit, NotReopened
<1> QED BY <1>9, <1>10, <1>11, <1>12, <1>13 DEF EditorsInv

-----------------------------------------------------------------------------
(* Every step keeps the invariant                                          *)

LEMMA OpenedIsEditor ==
  ASSUME NEW p \in {"none", "channels", "patched"}
  PROVE  /\ Opened(p) \in EditorState /\ Opened(p).page = p /\ Opened(p).list = Absent
         /\ Opened(p).mode = "create" /\ Opened(p).active = Absent /\ Opened(p).error = FALSE
         /\ Opened(p).form = BlankForm /\ BlankForm.key = NoKey
BY DEF Opened, EditorState, BlankForm, EditFormState, KeyState, NoKey

LEMMA FirstRowIsRow ==
  ASSUME NEW n \in Rows
  PROVE  FirstRow(n) \in Row /\ FirstRow(n).key.of = n
BY DEF FirstRow, Row, KeyState

LEMMA EditorsStart ==
  ASSUME EditorsInit
  PROVE  EditorsInv
<1>1. ui = Opened("none") /\ flying = << >> /\ edits = 0 /\ failures = 0 /\ lapses = {}
      /\ stored = [n \in Rows |-> FirstRow(n)]
  BY DEF EditorsInit
<1>2. /\ ui \in EditorState /\ ui.page = "none" /\ ui.list = Absent
      /\ ui.mode = "create" /\ ui.active = Absent /\ ui.form.key = NoKey
  BY <1>1, OpenedIsEditor
<1>3. flying \in Seq(FlightState) /\ DOMAIN flying = {} /\ Len(flying) = 0 BY <1>1
<1>4. stored \in RowTable BY <1>1, FirstRowIsRow DEF RowTable
<1>5. EditorsTypeOK BY <1>1, <1>2, <1>3, <1>4 DEF EditorsTypeOK
<1>6. ListTold BY <1>2 DEF ListTold
<1>7. FormFits BY <1>2 DEF FormFits
<1>8. NewFormFits BY <1>2, <1>3 DEF NewFormFits
<1>9. KeysFit BY <1>1, <1>3, FirstRowIsRow DEF KeysFit
<1> QED BY <1>5, <1>6, <1>7, <1>8, <1>9 DEF EditorsInv

LEMMA OpensKeeps ==
  ASSUME EditorsInv, NEW p \in {"channels", "patched"}, NEW there \in SUBSET Rows, Opens(p, there)
  PROVE  EditorsInv'
<1>1. EditorsTypeOK BY DEF EditorsInv
<1>2. PICK c : c = Load(Nothing) OBVIOUS
<1>3. c \in FlightState /\ c.op = "load" /\ c.answer = "none"
  <2>1. c = Fly("load", NoOne, Absent, Then("nothing", NoOne)) BY <1>2 DEF Load, Nothing
  <2> QED BY <2>1, FlyIsFlight DEF WriteOps
<1>4. ui' = Opened(p) /\ flying' = <<c>> /\ UNCHANGED <<edits, failures, lapses>>
      /\ stored' = [n \in Rows |-> IF n \in there THEN FirstRow(n) ELSE Absent]
  BY <1>2 DEF Opens
<1>5. flying' \in Seq(FlightState) /\ DOMAIN flying' = 1..1 /\ Len(flying') = 1 /\ flying'[1] = c
  BY <1>3, <1>4
<1>6. /\ ui' \in EditorState /\ ui'.page = p /\ ui'.list = Absent
      /\ ui'.mode = "create" /\ ui'.active = Absent /\ ui'.form.key = NoKey
  BY <1>4, OpenedIsEditor
<1>7. Carries(c) /\ CallFits(c)' BY <1>3 DEF Carries, CallFits
<1>8. stored' \in RowTable /\ \A n \in Rows : stored'[n] # Absent => stored'[n].key.of = n
  BY <1>4, FirstRowIsRow DEF RowTable
<1>9. EditorsTypeOK'
  <2>1. \A j \in DOMAIN flying' : Carries(flying[j])' BY <1>5, <1>7 DEF Carries
  <2>2. \A j \in 1..Len(flying') : flying'[j].op = "load" BY <1>3, <1>5
  <2>3. edits' \in Nat /\ failures' \in Nat
        /\ lapses' \in SUBSET {"reopened", "crossed", "written", "two steps"}
    BY <1>1, <1>4 DEF EditorsTypeOK
  <2> QED BY <2>1, <2>2, <2>3, <1>5, <1>6, <1>8 DEF EditorsTypeOK
<1>10. ListTold'
  <2>1. LoadBrings(flying', stored')
    <3>1. \A j \in (1 + 1)..Len(flying') : FALSE BY <1>5
    <3> QED BY <3>1, <1>3, <1>5 DEF LoadBrings
  <2>2. OnItsWay(flying, stored, ListShows)' BY <2>1 DEF OnItsWay
  <2>3. FirstLoad(flying', stored') BY <1>3, <1>5 DEF FirstLoad
  <2> QED BY <2>2, <2>3, <1>6 DEF ListTold
<1>11. FormFits' BY <1>6 DEF FormFits
<1>12. NewFormFits' BY <1>3, <1>5, <1>6 DEF NewFormFits
<1>13. KeysFit'
  <2>1. \A j \in DOMAIN flying' : CallFits(flying[j])' BY <1>3, <1>5 DEF CallFits
  <2> QED BY <2>1, <1>8 DEF KeysFit
<1> QED BY <1>9, <1>10, <1>11, <1>12, <1>13 DEF EditorsInv

LEMMA ChannelsArriveKeeps ==
  ASSUME EditorsInv, NEW i \in 1..Len(flying), ChannelsArrive(i)
  PROVE  EditorsInv'
<1>1. ToggleArrives(i) \/ DetailArrives(i) \/ SubmitArrives(i) \/ DeleteArrives(i) \/ LoadArrives(i)
  BY DEF ChannelsArrive
<1> QED BY <1>1, ToggleArrivesKeeps, DetailArrivesKeeps, SubmitArrivesKeeps, DeleteArrivesKeeps,
           LoadArrivesKeeps

LEMMA EditorsSteps ==
  ASSUME EditorsInv, EditorsNext
  PROVE  EditorsInv'
<1>1. DOMAIN flying = 1..Len(flying) BY EditorsParts
<1>2. CASE \E p \in {"channels", "patched"}, there \in SUBSET Rows : Opens(p, there)
  BY <1>2, OpensKeeps
<1>3. CASE \E i \in DOMAIN flying : Replies(i) \/ Fails(i) \/ ChannelsArrive(i) \/ PatchArrives(i)
  BY <1>1, <1>3, RepliesKeeps, FailsKeeps, ChannelsArriveKeeps, PatchArrivesKeeps
<1>4. CASE OpenCreate \/ CloseCreate \/ TypesKey \/ TypesRest
  BY <1>4, TypesKeeps
<1>5. CASE Submit BY <1>5, SubmitKeeps
<1>6. CASE \E n \in Rows : Toggle(n) \/ OpenEdit(n) \/ Delete(n)
  BY <1>6, ToggleKeeps, OpenEditKeeps, DeleteKeeps
<1>7. CASE \E n \in Rows : \/ KeysRename(n) \/ KeysModels(n) \/ KeysQuota(n)
                           \/ AliasSave(n) \/ ModelsSave(n) \/ ModelsReset(n)
  <2>1. PICK n \in Rows : KeysSave(n)
    BY <1>7 DEF KeysRename, KeysModels, KeysQuota, AliasSave, ModelsSave, ModelsReset
  <2> QED BY <2>1, SaveKeeps
<1>8. CASE \E n \in Rows : KeysCreate(n) \/ AliasCreate(n)
  BY <1>8, PatchCreateKeeps DEF AliasCreate
<1>9. CASE \E n \in Rows : KeysDelete(n) \/ AliasDelete(n)
  BY <1>9, PatchDeleteKeeps DEF AliasDelete
<1>10. CASE \E n \in Rows : AliasToggle(n)
  BY <1>10, AliasToggleKeeps
<1> QED BY <1>2, <1>3, <1>4, <1>5, <1>6, <1>7, <1>8, <1>9, <1>10, Zenon DEF EditorsNext

LEMMA EditorsStutter ==
  ASSUME EditorsInv, UNCHANGED editorVars
  PROVE  EditorsInv'
<1>1. EditorsTypeOK /\ ListTold /\ FormFits /\ NewFormFits /\ KeysFit BY DEF EditorsInv
<1>2. UNCHANGED <<stored, ui, flying, edits, failures, lapses>> BY DEF editorVars
<1>3. EditorsTypeOK' BY <1>1, <1>2 DEF EditorsTypeOK, Carries
<1>4. ListTold'
  <2>1. OnItsWay(flying, stored, ListShows) => OnItsWay(flying, stored, ListShows)'
    BY <1>2 DEF OnItsWay, ListShows
  <2>2. RowsTold => RowsTold' BY <1>2 DEF RowsTold
  <2>3. FirstLoad(flying, stored) => FirstLoad(flying, stored)' BY <1>2
  <2> QED BY <2>1, <2>2, <2>3, <1>1, <1>2 DEF ListTold, InOrder
<1>5. FormFits' BY <1>1, <1>2 DEF FormFits
<1>6. NewFormFits' BY <1>1, <1>2 DEF NewFormFits, NotReopened
<1>7. KeysFit' BY <1>1, <1>2 DEF KeysFit, CallFits, NotReopened
<1> QED BY <1>3, <1>4, <1>5, <1>6, <1>7 DEF EditorsInv

\* With nothing on its way the list is what is stored, and what is sent fits its row.
LEMMA EditorsTell ==
  ASSUME EditorsInv
  PROVE  OwnWritesShown /\ NoCrossWrite
<1>1. EditorsTypeOK /\ ListTold /\ KeysFit BY DEF EditorsInv
<1>2. OwnWritesShown
  <2>1. SUFFICES ASSUME flying = << >>, ~ui.error, ui.list # Absent, InOrder PROVE ui.list = stored
    BY DEF OwnWritesShown, InOrder
  <2>2. \A i \in 1..Len(flying) : FALSE BY <2>1
  <2>3. CASE ui.page = "channels"
    <3>1. OnItsWay(flying, stored, ListShows) BY <2>1, <2>3, <1>1 DEF ListTold
    <3> QED BY <3>1, <2>1, <2>2 DEF OnItsWay, WriteDone, LoadBrings, ListShows
  <2>4. CASE ui.page = "patched"
    <3>1. RowsTold BY <2>1, <2>4, <1>1 DEF ListTold
    <3>2. \A n \in Rows : ui.list[n] = stored[n] BY <3>1, <2>2 DEF RowsTold, RowOnItsWay
    <3>3. ui.list \in RowTable /\ stored \in RowTable BY <3>1, <1>1 DEF RowsTold, EditorsTypeOK
    <3> QED BY <3>2, <3>3 DEF RowTable
  <2>5. CASE ui.page = "none" BY <2>1, <2>5, <1>1 DEF EditorsTypeOK
  <2>6. ui.page \in {"none", "channels", "patched"} BY <1>1 DEF EditorsTypeOK, EditorState
  <2> QED BY <2>3, <2>4, <2>5, <2>6
<1>3. NoCrossWrite BY <1>1 DEF NoCrossWrite, KeysFit, CallFits, NotReopened
<1> QED BY <1>2, <1>3
=============================================================================
