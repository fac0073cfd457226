--------------------------- MODULE ProxyFailover ---------------------------
(***************************************************************************)
(* One request through the retry and fallback loop of the Rust proxy       *)
(* (rust-proxy/src/proxy.rs, proxy_handler_inner): concurrency rule,       *)
(* Responses support, 429 cooldown and circuit breaker in turn, the send   *)
(* under the first-byte timeout, and what each outcome leads to - another  *)
(* try, another route, a cached upstream error or an error of the          *)
(* gateway's own. The client may go away at every await.                   *)
(*                                                                         *)
(* Whether a rule is full, a channel is cooling or a circuit is open, and  *)
(* which fallbacks the routing table offers, depends on other requests,    *)
(* the clock and configuration syncs, all of which move between any two    *)
(* steps; here they are free choices at the moment the code asks.          *)
(***************************************************************************)
EXTENDS Integers, Sequences

CONSTANTS
  Channels,
  Mode,        \* what each channel does with this request's API: serves it
               \* ("native"), needs a conversion ("chat") or does not ("disabled")
  Policies     \* failover policies the request may clone

Policy == [enabled: BOOLEAN, maxFallback: Nat, retryAttempts: Nat,
           on429: BOOLEAN, on5xx: BOOLEAN, onTimeout: BOOLEAN, onNetwork: BOOLEAN,
           breaker: BOOLEAN]

ASSUME PolicyAssumption == Policies \subseteq Policy
ASSUME ModeAssumption == Mode \in [Channels -> {"native", "chat", "disabled"}]

VARIABLES
  pc,          \* the next await, or the step between two of them
  policy,      \* failover_policy
  convertible, \* whether the request body survives the Responses conversion
  routes,      \* active_routes
  idx,         \* attempt_index + 1
  retry,       \* retry_count
  cached,      \* last_upstream_error is Some
  armed,       \* disconnect_guard
  permit,      \* channel of concurrency_permit
  row,         \* the last RequestLog sent: its channel and retry_attempt
  endings,     \* terminal ResponseLogs sent
  answer,      \* what the client got
  sent         \* history: upstream sends per channel

requestVars == <<policy, convertible>>
routeVars   == <<routes, idx, retry>>
logVars     == <<armed, row, endings>>
history     == <<sent>>
vars == <<pc, requestVars, routeVars, cached, permit, logVars, answer, history>>

NoChannel == "none"
NoRow     == [channel |-> NoChannel, retry |-> 0]

Awaits == {"arrive", "head", "admit", "admitted", "wait", "headers", "building",
           "capturing429", "capturing5xx", "errbody", "connfail"}

Here == routes[idx]

-----------------------------------------------------------------------------
(* failover.rs                                                             *)

ShouldTrigger(o) ==
  CASE o = "429"                     -> policy.on429
    [] o = "5xx"                     -> policy.on5xx
    [] o = "timeout"                 -> policy.onTimeout
    [] o \in {"connect", "network"}  -> policy.onNetwork

\* should_retry_same_route
MayRetrySame(o) == o \notin {"connect", "429"}

FailsOver(o) == policy.enabled /\ ShouldTrigger(o)
RetriesSame(o) == FailsOver(o) /\ MayRetrySame(o) /\ retry < policy.retryAttempts

CooldownOn == policy.enabled /\ policy.on429
BreakerOn  == policy.enabled /\ policy.onNetwork /\ policy.breaker

(* try_add_fallbacks: the routes it may append. Candidates already tried,  *)
(* of another type, cooling or not serving this API are left out, so any   *)
(* shorter list is possible too.                                           *)
Fallbacks ==
  LET remaining == policy.maxFallback - (Len(routes) - 1)
      tried     == {routes[i] : i \in 1..Len(routes)}
      fresh     == {c \in Channels \ tried : Mode[c] # "disabled"}
  IN {s \in UNION {[1..n -> fresh] : n \in 1..remaining} :
        \A i, j \in DOMAIN s : i # j => s[i] # s[j]}

\* Mutant: past the last route, start again from the first.
AdvanceAround ==
  /\ idx' = IF idx < Len(routes) THEN idx + 1 ELSE 1
  /\ routes' = routes

(* advance_to_next_route: true, with the new list and index ...            *)
Advance ==
  /\ idx' = idx + 1
  /\ \/ idx < Len(routes) /\ routes' = routes
     \/ idx = Len(routes) /\ \E s \in Fallbacks : routes' = routes \o s

(* ... or false: nothing left in the list and nothing was added.           *)
Exhausted == idx = Len(routes) /\ UNCHANGED <<routes, idx>>

-----------------------------------------------------------------------------
\* Mutant: the permit outlives the iteration.
LoopHoldingPermit == pc' = "head" /\ UNCHANGED <<permit, endings, answer>>

(* Back to the head of the loop: the iteration's permit is dropped.        *)
Loop == pc' = "head" /\ permit' = NoChannel /\ UNCHANGED <<endings, answer>>

(* The handler returns: with a terminal ResponseLog when logs = 1. The     *)
(* guard is disarmed by proxy_handler.                                     *)
Return(what, logs) ==
  /\ pc' = "done"
  /\ answer' = what
  /\ endings' = endings + logs
  /\ armed' = FALSE
  /\ permit' = NoChannel

SendRequestLog == row' = [channel |-> Here, retry |-> retry]

Init ==
  /\ pc = "arrive"
  /\ policy \in Policies
  /\ convertible \in BOOLEAN
  /\ routes \in {<<c>> : c \in Channels}
  /\ idx = 1
  /\ retry = 0
  /\ cached = FALSE
  /\ armed = FALSE
  /\ permit = NoChannel
  /\ row = NoRow
  /\ endings = 0
  /\ answer = "none"
  /\ sent = [c \in Channels |-> 0]

(* The first configuration has been synced and the routing table read: the *)
(* initial route and the policy are fixed.                                 *)
Resolved ==
  /\ pc = "arrive"
  /\ pc' = "head"
  /\ UNCHANGED <<requestVars, routeVars, cached, permit, logVars, answer, history>>

(* No route, no valid key, or a model the key may not use: nothing logged. *)
Refused ==
  /\ pc = "arrive"
  /\ Return("refused", 0)
  /\ UNCHANGED <<requestVars, routeVars, cached, row, history>>

(* The rule is full and another route can be tried. retry_count is left as *)
(* it is and nothing is logged.                                            *)
SkipFull ==
  /\ pc = "head"
  /\ Advance
  /\ Loop
  /\ UNCHANGED <<requestVars, retry, cached, armed, row, history>>

(* A permit of the rule, of no rule, or past a full rule as a last resort. *)
Acquire ==
  /\ pc = "head"
  /\ pc' = "gates"
  /\ permit' = Here
  /\ UNCHANGED <<requestVars, routeVars, cached, logVars, answer, history>>

(* convert_responses_to_chat_request fails: 400, no terminal log.          *)
RejectBody ==
  /\ pc = "gates"
  /\ Mode[Here] = "chat" /\ ~convertible
  /\ Return("badrequest", 0)
  /\ UNCHANGED <<requestVars, routeVars, cached, row, history>>

SkipUnsupported ==
  /\ pc = "gates"
  /\ Mode[Here] = "disabled"
  /\ Advance
  /\ retry' = 0
  /\ Loop
  /\ SendRequestLog
  /\ armed' = TRUE
  /\ UNCHANGED <<requestVars, cached, history>>

AnswerUnsupported ==
  /\ pc = "gates"
  /\ Mode[Here] = "disabled"
  /\ Exhausted
  /\ Return("unsupported", 1)
  /\ UNCHANGED <<requestVars, retry, cached, row, history>>

Serves == Mode[Here] = "native" \/ (Mode[Here] = "chat" /\ convertible)

SkipCooling ==
  /\ pc = "gates"
  /\ Serves
  /\ CooldownOn
  /\ Advance
  /\ retry' = 0
  /\ Loop
  /\ SendRequestLog
  /\ armed' = TRUE
  /\ UNCHANGED <<requestVars, cached, history>>

(* Not cooling, or cooling with no fallback left.                          *)
PassCooldown ==
  /\ pc = "gates"
  /\ Serves
  /\ pc' = "admit"
  /\ UNCHANGED <<requestVars, routeVars, cached, permit, logVars, answer, history>>

(* The breaker admits the attempt (Allow or HalfOpenProbe).                *)
Admitted ==
  /\ pc = "admit"
  /\ pc' = "admitted"
  /\ UNCHANGED <<requestVars, routeVars, cached, permit, logVars, answer, history>>

\* Mutant: the cached upstream error is forgotten when the circuit is open.
SkipOpenForgetting ==
  /\ pc = "admit"
  /\ BreakerOn
  /\ SendRequestLog
  /\ Exhausted
  /\ Return("open", 1)
  /\ UNCHANGED <<requestVars, retry, cached, history>>

(* SkipOpen: the row is logged first, and the guard is not armed.          *)
SkipOpen ==
  /\ pc = "admit"
  /\ BreakerOn
  /\ SendRequestLog
  /\ \/ /\ Advance
        /\ retry' = 0
        /\ Loop
        /\ UNCHANGED armed
     \/ /\ Exhausted
        /\ Return(IF cached THEN "upstream" ELSE "open", 1)
        /\ UNCHANGED retry
  /\ UNCHANGED <<requestVars, cached, history>>

Send ==
  /\ pc = "admitted"
  /\ pc' = "wait"
  /\ SendRequestLog
  /\ armed' = TRUE
  /\ sent' = [sent EXCEPT ![Here] = @ + 1]
  /\ UNCHANGED <<requestVars, routeVars, cached, permit, endings, answer>>

(* What send() comes back with, or the first-byte timeout.                 *)
HeadersArrive ==
  /\ pc = "wait"
  /\ pc' = "headers"
  /\ UNCHANGED <<requestVars, routeVars, cached, permit, logVars, answer, history>>

ConnectFails ==
  /\ pc = "wait"
  /\ pc' = "connfail"
  /\ UNCHANGED <<requestVars, routeVars, cached, permit, logVars, answer, history>>

(* A failure without a response: the same route again, the next one, the   *)
(* cached error or an error of the gateway's own.                          *)
AfterFailure(o, own) ==
  /\ \/ /\ RetriesSame(o)
        /\ retry' = retry + 1
        /\ Loop
        /\ UNCHANGED <<routes, idx, armed>>
     \/ /\ FailsOver(o) /\ ~RetriesSame(o)
        /\ Advance
        /\ retry' = 0
        /\ Loop
        /\ UNCHANGED armed
     \/ /\ ~RetriesSame(o)
        /\ FailsOver(o) => Exhausted
        /\ Return(IF cached THEN "upstream" ELSE own, 1)
        /\ UNCHANGED routeVars
  /\ UNCHANGED <<requestVars, cached, row, sent>>

(* record_connect_failure has been awaited.                                *)
ConnectFailure == pc = "connfail" /\ AfterFailure("connect", "badgateway")

(* Broken after connecting, or a timeout reqwest reports itself.           *)
NetworkFailure ==
  /\ pc = "wait"
  /\ AfterFailure("network", "badgateway") \/ AfterFailure("timeout", "badgateway")

FirstByteTimeout == pc = "wait" /\ AfterFailure("timeout", "timeout")

(* record_connect_success has been awaited: the status decides. A 429 is   *)
(* recorded with the cooldowns at once.                                    *)
StatusOk ==
  /\ pc = "headers"
  /\ pc' = "building"
  /\ UNCHANGED <<requestVars, routeVars, cached, permit, logVars, answer, history>>

StatusError(o) ==
  /\ pc = "headers"
  /\ pc' = IF ~FailsOver(o) THEN "errbody" ELSE IF o = "429" THEN "capturing429" ELSE "capturing5xx"
  /\ UNCHANGED <<requestVars, routeVars, cached, permit, logVars, answer, sent>>

(* A status no policy retries.                                             *)
StatusFinal ==
  /\ pc = "headers"
  /\ pc' = "errbody"
  /\ UNCHANGED <<requestVars, routeVars, cached, permit, logVars, answer, history>>

(* build_response of a success: the permit moves into the body.            *)
Respond ==
  /\ pc = "building"
  /\ pc' = "streaming"
  /\ answer' = "ok"
  /\ endings' = endings + 1
  /\ armed' = FALSE
  /\ UNCHANGED <<requestVars, routeVars, cached, permit, row, history>>

(* The converted body is not what the conversion expects: 500, no log.     *)
Unconvertible ==
  /\ pc = "building"
  /\ Mode[Here] = "chat"
  /\ Return("unconvertible", 0)
  /\ UNCHANGED <<requestVars, routeVars, cached, row, history>>

BodyBreaks ==
  /\ pc \in {"building", "errbody"}
  /\ Return(IF pc = "building" THEN "lostbody" ELSE "losterror", 1)
  /\ UNCHANGED <<requestVars, routeVars, cached, row, history>>

BodyEnds ==
  /\ pc = "streaming"
  /\ pc' = "done"
  /\ permit' = NoChannel
  /\ UNCHANGED <<requestVars, routeVars, cached, logVars, answer, history>>

(* An error response the failover loop leaves alone.                       *)
PassError ==
  /\ pc = "errbody"
  /\ Return("upstream", 1)
  /\ UNCHANGED <<requestVars, routeVars, cached, row, history>>

(* CachedUpstreamError::capture has read the body (ok) or failed to.       *)
Captured(o, ok) ==
  /\ pc = IF o = "429" THEN "capturing429" ELSE "capturing5xx"
  /\ \/ /\ RetriesSame(o)
        /\ retry' = retry + 1
        /\ Loop
        /\ cached' = (cached \/ ok)
        /\ UNCHANGED <<routes, idx, armed>>
     \/ /\ ~RetriesSame(o)
        /\ Advance
        /\ retry' = 0
        /\ Loop
        /\ cached' = (cached \/ ok)
        /\ UNCHANGED armed
     \/ /\ ~RetriesSame(o)
        /\ Exhausted
        /\ Return(IF ok THEN "upstream" ELSE "losterror", 1)
        /\ UNCHANGED <<retry, cached>>
  /\ UNCHANGED <<requestVars, row, history>>

(* advance_to_next_route consults the routing table.                       *)
ReadsRouting == idx = Len(routes) /\ Len(routes) - 1 < policy.maxFallback

(* try_read of the routing lock fails while a configuration sync writes or *)
(* waits to write, and the expect unwinds the handler: its permit and its  *)
(* guard are dropped where they stand.                                     *)
Panics ==
  /\ \/ /\ pc = "head" /\ ReadsRouting
        /\ UNCHANGED row
     \/ /\ pc = "gates" /\ ReadsRouting
        /\ Mode[Here] = "disabled" \/ (Serves /\ CooldownOn)
        /\ UNCHANGED row
     \/ pc = "admit" /\ BreakerOn /\ ReadsRouting /\ SendRequestLog
     \/ pc = "admitted" /\ UNCHANGED row
     \/ /\ ReadsRouting
        /\ \/ pc = "connfail" /\ FailsOver("connect")
           \/ pc = "wait" /\ \E o \in {"network", "timeout"} : FailsOver(o) /\ ~RetriesSame(o)
           \/ pc = "capturing429" /\ ~RetriesSame("429")
           \/ pc = "capturing5xx" /\ ~RetriesSame("5xx")
        /\ UNCHANGED row
  /\ Return("panicked", IF armed THEN 1 ELSE 0)
  /\ UNCHANGED <<requestVars, routeVars, cached, history>>

\* Mutant: the guard was never armed.
ClientLeavesUnseen ==
  /\ pc \in Awaits
  /\ Return("cancelled", 0)
  /\ UNCHANGED <<requestVars, routeVars, cached, row, history>>

(* The client goes away: axum drops the handler at an await and an armed   *)
(* guard sends the 499.                                                    *)
ClientLeaves ==
  /\ pc \in Awaits
  /\ Return("cancelled", IF armed THEN 1 ELSE 0)
  /\ UNCHANGED <<requestVars, routeVars, cached, row, history>>

Proceed ==
  \/ Resolved \/ Refused \/ SkipFull \/ Acquire
  \/ RejectBody \/ SkipUnsupported \/ AnswerUnsupported
  \/ SkipCooling \/ PassCooldown
  \/ Admitted \/ SkipOpen \/ Send
  \/ HeadersArrive \/ ConnectFails \/ ConnectFailure \/ NetworkFailure \/ FirstByteTimeout
  \/ StatusOk \/ StatusFinal \/ \E o \in {"429", "5xx"} : StatusError(o)
  \/ Respond \/ Unconvertible \/ BodyBreaks \/ BodyEnds \/ PassError
  \/ \E o \in {"429", "5xx"}, ok \in BOOLEAN : Captured(o, ok)
  \/ Panics

Next == Proceed \/ ClientLeaves

Spec == Init /\ [][Next]_vars

(* Every await ends: locks are held briefly, the send is under a timeout,  *)
(* and the upstream ends or breaks every body it starts.                   *)
FairSpec == Spec /\ WF_vars(Proceed)

-----------------------------------------------------------------------------
(* The answer is one the history of the request accounts for: a gateway    *)
(* error for a failed connection, a timeout or an open circuit only when   *)
(* no upstream error was captured before; 501 only when no upstream was    *)
(* asked; and an upstream's error only when one answered.                  *)
AnswerAccounted ==
  /\ answer \in {"badgateway", "timeout", "open"} => ~cached
  /\ answer = "unsupported" => \A c \in Channels : sent[c] = 0
  /\ answer \in {"ok", "upstream", "lostbody", "losterror", "badgateway", "timeout"} =>
       \E c \in Channels : sent[c] > 0

(* A request that has waited for an upstream leaves exactly one terminal   *)
(* log when it ends, be it answered or abandoned by the client at any      *)
(* later await of the loop; the exceptions are a request for, and a        *)
(* success of, a converting channel that cannot be converted               *)
(* (ClientDisconnectLogGuard, and the comment on                           *)
(* emit_terminal_response_log).                                            *)
EndsOnce ==
  /\ endings <= 1
  /\ pc = "done" /\ answer \notin {"badrequest", "unconvertible"} /\
       (\E c \in Channels : sent[c] > 0) => endings = 1

(* The permit a request holds while it waits for or reads from an upstream *)
(* is one taken for that very route, and none survives the request (the    *)
(* drop at every continue and ReleaseConcurrencyBody).                     *)
PermitCoversSend ==
  /\ pc \in {"wait", "headers", "building", "capturing429", "capturing5xx", "errbody",
            "connfail", "streaming"} => permit = Here
  /\ pc \in {"arrive", "head", "done"} => permit = NoChannel

(* Every request is answered: whatever is full, cooling or open, the loop  *)
(* runs out of retries and routes.                                         *)
Answered == <>(pc = "done")
=============================================================================
