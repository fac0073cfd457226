----------------------------- MODULE TsGateway -----------------------------
(***************************************************************************)
(* One request in the TypeScript gateway (src/index.ts): admission, the    *)
(* failover loop with its retries and its queue of fallback routes, the    *)
(* 429 cooldown (src/rate-limit-cooldown.ts), the promise chain that       *)
(* writes the request's log rows (src/console-log-tasks.ts), and the       *)
(* response that is passed on and recorded (ResponseObserver).             *)
(*                                                                         *)
(* JavaScript runs a handler undisturbed from one await to the next: an    *)
(* action is such a stretch. Between two of them other requests may put    *)
(* routes into cooldown or take them out, and time may pass.               *)
(***************************************************************************)
EXTENDS ResponseObserver, Sequences, FiniteSets, SequencesExt

CONSTANTS
  Routes,        \* channel, model and target of a route
  Initial,       \* the route the request resolves to first
  Mode,          \* responsesMode of a route: "native", "chat" or "disabled"
  Candidates,    \* sequences of routes the policy and the aliases offer as fallbacks
  Policies,
  MaxElsewhere   \* bound: times other requests or the clock change a cooldown

ASSUME GatewayAssumption ==
  /\ Initial \in Routes
  /\ Mode \in [Routes -> {"native", "chat", "disabled"}]
  /\ Candidates \subseteq Seq(Routes)
  /\ Policies \subseteq [enabled : BOOLEAN, maxFallback : Nat, retryAttempts : Nat,
                         on429 : BOOLEAN, on5xx : BOOLEAN, onTimeout : BOOLEAN, onNetwork : BOOLEAN]
  /\ MaxElsewhere \in Nat

VARIABLES
  pc,         \* where the handler is
  posted,     \* the request's method is POST: its responses are logged
  policy,     \* failoverPolicy, fetched once
  offered,    \* what buildFallbackRoutes can choose from
  active,     \* activeRoutes
  at,         \* activeRouteIndex
  retry,      \* retryIndexForRoute
  spent,      \* fallbackAttempts
  tried,      \* attemptedRouteKeys
  trigger,    \* lastFailureTrigger
  held,       \* the upstream response in the handler's hands
  cooling,    \* routes in cooldown
  elsewhere,
  answer,
  writes,     \* pendingConsoleRequestWrites: statements still to run
  row,        \* console_requests: the request's row
  first429,   \* history: the attempt of the first snapshot
  saves       \* history: saveRequestLogForAttempt calls

loopVars == <<pc, posted, policy, offered, active, at, retry, spent, tried, trigger, held, first429>>
logVars == <<writes, row, saves>>
handlerVars == <<loopVars, cooling, elsewhere, answer, logVars>>
gatewayVars == <<handlerVars, observerVars>>

NoRow == [save |-> 0, snapshot |-> 0, response |-> "none"]
Records == {"none", "full", "cut", "failed"}

GatewayInit ==
  /\ ObserverInit
  /\ pc = "start"
  /\ posted \in BOOLEAN
  /\ policy \in Policies
  /\ offered \in Candidates
  /\ active = <<Initial>>
  /\ at = 1 /\ retry = 0 /\ spent = 0
  /\ tried = {}
  /\ trigger = "none"
  /\ held = "none"
  /\ cooling = {}
  /\ elsewhere = 0
  /\ answer = "none"
  /\ writes = <<>>
  /\ row = NoRow
  /\ first429 = 0
  /\ saves = 0

-----------------------------------------------------------------------------
Route == active[at]

(* isOpenAiResponsesRequest: only a POST meets the route's responsesMode.  *)
ModeOf(r) == IF posted THEN Mode[r] ELSE "native"

(* rateLimitCooldownEnabled: the table only counts while the policy uses it. *)
CooldownEnabled == policy.enabled /\ policy.on429

Cooling(r) == CooldownEnabled /\ r \in cooling

(* shouldTriggerFailover *)
ShouldTrigger(t) ==
  /\ policy.enabled
  /\ \/ t = "timeout" /\ policy.onTimeout
     \/ t = "network" /\ policy.onNetwork
     \/ t = "429" /\ policy.on429
     \/ t = "5xx" /\ policy.on5xx

(* routes.filter: as SelectSeq, with a recursive function.                 *)
Filtered(routes, keep) ==
  LET first[n \in 0..Len(routes)] ==
        IF n = 0 THEN <<>>
        ELSE IF routes[n] \in keep THEN Append(first[n - 1], routes[n])
        ELSE first[n - 1]
  IN first[Len(routes)]

(* buildFallbackRoutes: what is offered, less what cools down, was tried   *)
(* or already waits in the queue. A route offered twice stays twice.       *)
FallbackRoutes(now, done) ==
  IF policy.maxFallback = 0 THEN <<>>
  ELSE Filtered(offered, {r \in Routes : /\ ~(CooldownEnabled /\ r \in now)
                                         /\ r \notin done /\ r \notin ToSet(active)})

(* The fallbacks appended to the queue: as many as the budget leaves.      *)
Appended(now, done) ==
  LET routes == FallbackRoutes(now, done)
      room == policy.maxFallback - spent
  IN SubSeq(routes, 1, IF Len(routes) < room THEN Len(routes) ELSE room)

MayRetry(t) == t # "429" /\ retry < policy.retryAttempts

\* Mutant: that a fallback is left is not asked for.
ContinuesUnasked(t, now, done) ==
  ShouldTrigger(t) /\ (MayRetry(t) \/ spent < policy.maxFallback)

(* shouldContinueAfterFailure *)
Continues(t, now, done) ==
  /\ ShouldTrigger(t)
  /\ \/ MayRetry(t)
     \/ spent < policy.maxFallback /\ FallbackRoutes(now, done) # <<>>

-----------------------------------------------------------------------------
Queue(ws) == writes' = writes \o ws

(* saveRequestLogForAttempt, one more link of the request's promise chain. *)
SaveAttempt ==
  /\ saves' = saves + 1
  /\ Queue(<<[kind |-> "request", save |-> saves + 1]>>)

NotLogged == UNCHANGED <<writes, saves>>

(* The handler returns its answer; its locals are gone.                    *)
Returns(a, k, upstream, logs) ==
  /\ pc' = "done"
  /\ answer' = a
  /\ held' = "none"
  /\ active' = <<Initial>> /\ at' = 1 /\ retry' = 0 /\ spent' = 0
  /\ tried' = {} /\ trigger' = "none"
  /\ Begin(k, upstream, logs)
  /\ UNCHANGED <<posted, policy, offered, first429>>

Stays == UNCHANGED <<answer, observerVars>>

(* On to the next route of the queue, after appending what there is.       *)
Advance(new) ==
  /\ active' = active \o new
  /\ spent' = spent + Len(new)
  /\ at' = at + 1
  /\ retry' = 0

(* Once a failure is to be survived: the same route again, or the next.    *)
GoOn(t) ==
  IF MayRetry(t)
    THEN retry' = retry + 1 /\ UNCHANGED <<active, spent, at>>
    ELSE Advance(Appended(cooling, tried))

-----------------------------------------------------------------------------
(* handleProxyRequest up to the loop: no route, no or wrong credentials, a  *)
(* spent quota or a forbidden model end it; so far nothing is written.     *)
Refuse ==
  /\ pc = "start"
  /\ Returns("refused", "quiet", FALSE, FALSE)
  /\ NotLogged
  /\ UNCHANGED <<cooling, elsewhere, row>>

Admit ==
  /\ pc = "start"
  /\ pc' = "loop"
  /\ Stays /\ NotLogged
  /\ UNCHANGED <<posted, policy, offered, active, at, retry, spent, tried, trigger, held,
                 first429, cooling, elsewhere, row>>

(* buildAttempt: a provider that does not serve the Responses API, or a    *)
(* body that cannot be converted to chat, is answered locally.             *)
AnswerLocally ==
  /\ pc = "loop" /\ at <= Len(active)
  /\ ModeOf(Route) # "native"
  /\ SaveAttempt
  /\ Returns("local", "plain", FALSE, TRUE)
  /\ UNCHANGED <<cooling, elsewhere, row>>

Tries == tried' = tried \cup {Route}

(* The cooldown of the route is still running: the next one, if there is   *)
(* one to append, else the client is told to wait.                         *)
SkipCooling ==
  /\ pc = "loop" /\ at <= Len(active)
  /\ ModeOf(Route) # "disabled"
  /\ Cooling(Route)
  /\ SaveAttempt
  /\ LET new == Appended(cooling, tried \cup {Route}) IN
     IF new # <<>> /\ spent < policy.maxFallback
       THEN /\ Advance(new) /\ Tries
            /\ trigger' = "429"
            /\ Stays
            /\ UNCHANGED <<pc, posted, policy, offered, held, first429>>
       ELSE Returns("cooling", "plain", FALSE, posted)
  /\ UNCHANGED <<cooling, elsewhere, row>>

(* getRateLimitCooldownRemainingMs forgets the entry if the policy does    *)
(* not use cooldowns.                                                      *)
Send ==
  /\ pc = "loop" /\ at <= Len(active)
  /\ ModeOf(Route) # "disabled"
  /\ ~Cooling(Route)
  /\ pc' = "sent"
  /\ Tries
  /\ cooling' = IF CooldownEnabled THEN cooling ELSE cooling \ {Route}
  /\ Stays /\ NotLogged
  /\ UNCHANGED <<posted, policy, offered, active, at, retry, spent, trigger, held, first429,
                 elsewhere, row>>

(* The loop runs off its queue: 502 or 504, and nothing is written.        *)
NoRouteLeft ==
  /\ pc = "loop" /\ at > Len(active)
  /\ Returns("exhausted", "quiet", FALSE, FALSE)
  /\ NotLogged
  /\ UNCHANGED <<cooling, elsewhere, row>>

-----------------------------------------------------------------------------
(* proxy() throws: no first byte in time, or no connection.                *)
Fails(t) ==
  /\ pc = "sent" /\ t \in {"timeout", "network"}
  /\ IF Continues(t, cooling, tried)
       THEN /\ pc' = "loop"
            /\ trigger' = t
            /\ GoOn(t)
            /\ Stays /\ NotLogged
            /\ UNCHANGED <<posted, policy, offered, tried, held, first429>>
       ELSE /\ SaveAttempt
            /\ Returns(t, "plain", FALSE, posted)
  /\ UNCHANGED <<cooling, elsewhere, row>>

(* clearRateLimitCooldown after a success, recordRateLimit429 after a 429. *)
Recorded(s) ==
  IF s = "ok" \/ (s = "429" /\ ~CooldownEnabled) THEN cooling \ {Route}
  ELSE IF s = "429" THEN cooling \cup {Route}
  ELSE cooling

(* A status arrives. It is passed on, or consumed: then the body is to be  *)
(* cancelled, that of a 429 read first.                                    *)
Arrives(s, k) ==
  /\ pc = "sent" /\ s \in {"ok", "429", "5xx", "4xx"} /\ k \in {"empty", "plain", "sse"}
  /\ cooling' = Recorded(s)
  /\ IF Continues(s, cooling', tried)
       THEN /\ k = "plain"
            /\ pc' = IF s = "429" THEN "snapshot" ELSE "cancel"
            /\ trigger' = s /\ held' = s
            /\ IF s = "429" THEN SaveAttempt ELSE NotLogged
            /\ Stays
            /\ UNCHANGED <<posted, policy, offered, active, at, retry, spent, tried, first429>>
       ELSE /\ s # "ok" => k = "plain"
            /\ SaveAttempt
            /\ Returns("upstream", k, TRUE, posted)
  /\ UNCHANGED <<elsewhere, row>>

(* The body of the 429 has been read (or could not be): its snapshot is    *)
(* queued behind the row.                                                  *)
TakeSnapshot ==
  /\ pc = "snapshot"
  /\ pc' = "cancel"
  /\ Queue(<<[kind |-> "snapshot", save |-> saves]>>)
  /\ first429' = IF first429 = 0 THEN saves ELSE first429
  /\ Stays
  /\ UNCHANGED <<posted, policy, offered, active, at, retry, spent, tried, trigger, held,
                 cooling, elsewhere, row, saves>>

(* The body is cancelled; what there is to fall back on is asked again.    *)
CancelBody ==
  /\ pc = "cancel"
  /\ pc' = "loop"
  /\ held' = "none"
  /\ GoOn(held)
  /\ Stays /\ NotLogged
  /\ UNCHANGED <<posted, policy, offered, tried, trigger, first429, cooling, elsewhere, row>>

-----------------------------------------------------------------------------
(* Another request meets a 429 or a success, or a cooldown expires.        *)
Elsewhere(r) ==
  /\ pc # "done"
  /\ elsewhere < MaxElsewhere
  /\ elsewhere' = elsewhere + 1
  /\ cooling' = IF r \in cooling THEN cooling \ {r} ELSE cooling \cup {r}
  /\ UNCHANGED <<loopVars, answer, logVars, observerVars>>

(* saveConsoleRequest is an upsert; the others only touch an existing row, *)
(* a snapshot only one that has none yet.                                  *)
Written(w, rec) ==
  CASE w.kind = "request" -> [rec EXCEPT !.save = w.save]
    [] w.kind = "snapshot" /\ rec.save > 0 /\ rec.snapshot = 0 -> [rec EXCEPT !.snapshot = w.save]
    [] w.kind = "response" /\ rec.save > 0 -> [rec EXCEPT !.response = w.what]
    [] OTHER -> rec

(* trackPendingConsoleRequestWrite: a link runs when the one before it     *)
(* has settled.                                                            *)
RunWrite ==
  /\ writes # <<>>
  /\ row' = Written(Head(writes), row)
  /\ writes' = Tail(writes)
  /\ UNCHANGED <<loopVars, cooling, elsewhere, answer, saves, observerVars>>

Record ==
  CASE obs = "rejected" -> "failed"
    [] completed        -> "full"
    [] OTHER            -> "cut"

\* Mutant: the response does not wait for the pending row.
LogResponseAtOnce ==
  /\ obs \in {"resolved", "rejected"}
  /\ obs' = "off"
  /\ row' = Written([kind |-> "response", what |-> Record], row)
  /\ UNCHANGED <<loopVars, cooling, elsewhere, answer, writes, saves,
                 bodyVars, seen, truncated, completed>>

(* queueObservedResponseLog and the handler of a failed observation: both  *)
(* wait for the pending writes of their request.                           *)
LogResponse ==
  /\ obs \in {"resolved", "rejected"}
  /\ writes = <<>>
  /\ obs' = "off"
  /\ row' = Written([kind |-> "response", what |-> Record], row)
  /\ UNCHANGED <<loopVars, cooling, elsewhere, answer, writes, saves,
                 bodyVars, seen, truncated, completed>>

Observes == ObserverNext /\ UNCHANGED handlerVars

Proceed ==
  \/ Refuse \/ Admit
  \/ AnswerLocally \/ SkipCooling \/ Send \/ NoRouteLeft
  \/ \E t \in {"timeout", "network"} : Fails(t)
  \/ \E s \in {"ok", "429", "5xx", "4xx"}, k \in {"empty", "plain", "sse"} : Arrives(s, k)
  \/ TakeSnapshot \/ CancelBody

GatewayNext ==
  \/ Proceed
  \/ \E r \in Routes : Elsewhere(r)
  \/ RunWrite \/ LogResponse
  \/ Observes

GatewaySpec == GatewayInit /\ [][GatewayNext]_gatewayVars

(* Sends are under a timeout, the rest of the handler waits for nothing    *)
(* but the body of a 429; statements settle; a body that is being read is  *)
(* continued, ends, breaks or is cut by the idle guard; timers fire and    *)
(* microtasks run. The client need neither read nor leave.                 *)
FairGatewaySpec ==
  /\ GatewaySpec
  /\ WF_gatewayVars(Proceed)
  /\ WF_gatewayVars(RunWrite)
  /\ WF_gatewayVars(LogResponse)
  /\ WF_gatewayVars(kind = "plain" /\ Pull /\ UNCHANGED handlerVars)
  /\ WF_gatewayVars((Chunk \/ BodyEnds \/ BodyBreaks) /\ UNCHANGED handlerVars)
  /\ WF_gatewayVars(ObservationTimesOut /\ UNCHANGED handlerVars)
  /\ WF_gatewayVars(Settle /\ UNCHANGED handlerVars)

-----------------------------------------------------------------------------
(* The loop runs off its queue only if a fallback that was there when the   *)
(* failure was judged survivable had gone into cooldown by the time the    *)
(* body was cancelled. Otherwise the client gets the answer of an upstream *)
(* or of the route that failed last.                                       *)
ExhaustedOnlyByRace == answer = "exhausted" => elsewhere > 0

(* Once everything has settled, the row of a request shows its last        *)
(* attempt and its first 429, and a response, in whatever order the        *)
(* handler, the statements and the body made progress. No response is      *)
(* logged when nothing was saved, when the loop ran off its queue after    *)
(* its 429s were, and when the method is not POST: the attempts of such a  *)
(* request are saved all the same (saveRequestLogForAttempt; shouldLog).   *)
RowTellsTheEnd ==
  (pc = "done" /\ writes = <<>> /\ obs = "off") =>
    /\ row.save = saves /\ row.snapshot = first429
    /\ row.response # "none" <=> posted /\ saves > 0 /\ answer # "exhausted"

(* Recorded as complete means complete: the body ended, and every chunk of  *)
(* it is in the record.                                                    *)
CompleteMeansWhole ==
  row.response = "full" => (source = "ended" /\ seen = got)

(* Every request is answered, and the row of a POST that saved an attempt  *)
(* gets its response, even if a stream never ends and its client stops     *)
(* reading; unless the loop ran off its queue.                             *)
AnsweredAndRecorded ==
  <>(answer # "none" /\ (posted /\ saves > 0 /\ answer # "exhausted" => row.response # "none"))
=============================================================================
