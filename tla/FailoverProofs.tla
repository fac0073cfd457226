--------------------------- MODULE FailoverProofs ---------------------------
(***************************************************************************)
(* Proofs about how the Rust proxy goes from one route to the next: the    *)
(* loop over the routes (ProxyFailover) and the cooldown after a 429 that  *)
(* a route may be in (RateLimitCooldown).                                  *)
(*                                                                         *)
(* The loop, for every set of channels, every mode and every set of        *)
(* policies, hence for lists of routes of any length: the permit, the      *)
(* terminal log and the answer of a request. The inductive invariant says, *)
(* for the step the handler is at, whether an upstream was asked, the      *)
(* guard is armed and a permit is held.                                    *)
(*                                                                         *)
(* The cooldown, for every set of channels, models and attempts, every     *)
(* cooldown constant, jitter and Retry-After. CooldownWindow is not        *)
(* inductive: it says nothing of how much longer an entry cools. InStep    *)
(* does: while an entry cools, the time since the last 429 and the time    *)
(* left add up to its cooldown; once it no longer does, that time exceeds  *)
(* the cooldown; and a key without an entry has had no 429 within the      *)
(* longest cooldown. It also says that an entry counts the 429s recorded   *)
(* since the key was last removed, which DocumentedBackoff is about.       *)
(***************************************************************************)
EXTENDS ProxyFailover, RateLimitCooldown, SequenceTheorems, WellFoundedInduction, TLAPS

-----------------------------------------------------------------------------
(* The loop over the routes                                                *)

Asked == \E c \in Channels : sent[c] > 0

\* The steps between taking a permit and dropping it, those behind the gates, and those
\* behind a send.
Sending == {"wait", "headers", "building", "capturing429", "capturing5xx", "errbody", "connfail"}
BehindGates == {"admit", "admitted"} \cup Sending
Holding == {"gates", "streaming"} \cup BehindGates
Steps == {"arrive", "head", "done"} \cup Holding

Answers == {"none", "refused", "badrequest", "unsupported", "open", "upstream", "badgateway",
            "timeout", "ok", "unconvertible", "lostbody", "losterror", "panicked", "cancelled"}

RequestTypeOK ==
  /\ pc \in Steps
  /\ policy \in Policies
  /\ convertible \in BOOLEAN
  /\ routes \in Seq(Channels) /\ idx \in 1..Len(routes)
  /\ retry \in Nat
  /\ cached \in BOOLEAN /\ armed \in BOOLEAN
  /\ endings \in {0, 1}
  /\ answer \in Answers
  /\ sent \in [Channels -> Nat]

\* A permit is that of the route at hand.
PermitOfStep == permit = IF pc \in Holding THEN Here ELSE NoChannel

\* Only the first route may be one that does not serve the API, and it is never sent to.
OnlyServingSent ==
  /\ \A i \in 2..Len(routes) : Mode[routes[i]] # "disabled"
  /\ pc \in BehindGates => Mode[Here] # "disabled"
  /\ Mode[Here] = "disabled" => ~Asked

\* What was sent to, armed and captured, up to the answer.
Underway ==
  /\ pc = "arrive" => ~Asked
  /\ pc \in Sending \cup {"streaming"} => Asked
  /\ pc \notin {"streaming", "done"} => endings = 0 /\ answer = "none" /\ (Asked => armed)
  /\ pc = "streaming" => endings = 1 /\ answer = "ok"
  /\ cached => Asked

IInv ==
  /\ RequestTypeOK
  /\ PermitOfStep
  /\ OnlyServingSent
  /\ Underway
  /\ AnswerAccounted
  /\ EndsOnce

-----------------------------------------------------------------------------
(* What advance_to_next_route does to the list.                            *)
LEMMA AdvanceGoesOn ==
  ASSUME RequestTypeOK, OnlyServingSent, Advance
  PROVE  /\ routes' \in Seq(Channels) /\ idx' \in 1..Len(routes')
         /\ \A i \in 2..Len(routes') : Mode[routes'[i]] # "disabled"
         /\ Mode[routes'[idx']] # "disabled"
<1>1. idx \in 1..Len(routes) /\ Len(routes) \in Nat /\ idx' = idx + 1 /\ routes \in Seq(Channels)
  BY DEF RequestTypeOK, Advance
<1>2. CASE idx < Len(routes) /\ routes' = routes
  BY <1>1, <1>2 DEF OnlyServingSent
<1>3. CASE idx = Len(routes) /\ \E s \in Fallbacks : routes' = routes \o s
  <2>1. PICK s \in Fallbacks : routes' = routes \o s
    BY <1>3
  <2>2. policy.maxFallback \in Nat
    BY PolicyAssumption DEF RequestTypeOK, Policy
  <2>3. PICK n \in 1..(policy.maxFallback - (Len(routes) - 1)) :
          s \in [1..n -> {c \in Channels \ {routes[i] : i \in 1..Len(routes)} :
                            Mode[c] # "disabled"}]
    BY <2>1, Zenon DEF Fallbacks
  <2>4. n \in Nat \ {0}
    BY <1>1, <2>2, <2>3
  <2>5. \A i \in 1..n : s[i] \in Channels /\ Mode[s[i]] # "disabled"
    BY <2>3
  <2>6. s \in Seq(Channels) /\ Len(s) = n
    BY <2>3, <2>4, <2>5
  <2>7. Len(routes') = Len(routes) + n /\ routes' \in Seq(Channels)
    BY <1>1, <2>1, <2>4, <2>6, ConcatProperties
  <2>8. \A i \in 1..Len(routes') :
          routes'[i] = IF i <= Len(routes) THEN routes[i] ELSE s[i - Len(routes)]
    BY <1>1, <2>1, <2>4, <2>6, <2>7, ConcatProperties
  <2>9. \A i \in 2..Len(routes') : Mode[routes'[i]] # "disabled"
    BY <1>1, <2>4, <2>5, <2>7, <2>8 DEF OnlyServingSent
  <2> QED BY <1>1, <1>3, <2>4, <2>7, <2>9
<1> QED BY <1>2, <1>3 DEF Advance

\* Back at the head of the loop, or returned: what of the invariant depends on the step.
LEMMA LoopKeeps ==
  ASSUME IInv, Loop, pc \notin {"arrive", "streaming", "done"},
         UNCHANGED <<requestVars, sent>>, Advance \/ UNCHANGED <<routes, idx>>,
         retry' \in Nat, armed' \in BOOLEAN, armed => armed', cached' \in BOOLEAN,
         cached' => cached \/ Asked
  PROVE  IInv'
<1>1. /\ routes' \in Seq(Channels) /\ idx' \in 1..Len(routes')
      /\ \A i \in 2..Len(routes') : Mode[routes'[i]] # "disabled"
      /\ Mode[routes'[idx']] = "disabled" => ~Asked
  BY AdvanceGoesOn DEF IInv, RequestTypeOK, OnlyServingSent, Here
<1>2. RequestTypeOK'
  BY <1>1 DEF IInv, RequestTypeOK, Loop, requestVars, Steps
<1>3. PermitOfStep'
  BY DEF Loop, PermitOfStep, Holding, BehindGates, Sending
<1>4. OnlyServingSent'
  BY <1>1 DEF OnlyServingSent, Loop, Here, Asked, BehindGates, Sending
<1>5. Underway'
  BY DEF IInv, Underway, Loop, Asked, Sending
<1>6. AnswerAccounted' /\ EndsOnce'
  BY <1>5 DEF AnswerAccounted, EndsOnce, Underway, Loop, Sending
<1> QED BY <1>2, <1>3, <1>4, <1>5, <1>6 DEF IInv

\* The steps that return an answer: what of the invariant depends on the answer.
LEMMA ReturnKeeps ==
  ASSUME IInv, NEW what \in Answers, NEW logs \in {0, 1}, Return(what, logs),
         pc \notin {"streaming", "done"},
         UNCHANGED <<requestVars, routes, idx, sent>>, retry' \in Nat, UNCHANGED cached,
         what \in {"badgateway", "timeout", "open"} => ~cached,
         what = "unsupported" => ~Asked,
         what \in {"ok", "upstream", "lostbody", "losterror", "badgateway", "timeout"} => Asked,
         what \notin {"badrequest", "unconvertible"} /\ Asked => logs = 1
  PROVE  IInv'
<1>0. endings' \in {0, 1}
  BY DEF IInv, Return, Underway
<1>1. RequestTypeOK'
  BY <1>0 DEF IInv, RequestTypeOK, Return, requestVars, Steps
<1>2. PermitOfStep'
  BY DEF Return, PermitOfStep, Holding, BehindGates, Sending
<1>3. OnlyServingSent'
  BY DEF IInv, OnlyServingSent, Return, Here, Asked, BehindGates, Sending
<1>4. Underway'
  BY DEF IInv, Underway, Return, Asked, Sending
<1>5. endings' = logs
  BY DEF IInv, Underway, Return
<1>6. AnswerAccounted' /\ EndsOnce'
  <2>1. Asked' <=> Asked
    BY DEF Asked
  <2>2. sent \in [Channels -> Nat] /\ sent' = sent /\ cached' = cached
    BY DEF IInv, RequestTypeOK
  <2>3. ~Asked => \A c \in Channels : sent[c] = 0
    BY <2>2 DEF Asked
  <2>4. AnswerAccounted'
    BY <2>2, <2>3 DEF AnswerAccounted, Return, Asked
  <2>5. EndsOnce'
    BY <1>5, <2>2 DEF EndsOnce, Return, Asked
  <2> QED BY <2>4, <2>5
<1> QED BY <1>1, <1>2, <1>3, <1>4, <1>6 DEF IInv

\* A step from one await to a later one of the same iteration.
LEMMA GoOnKeeps ==
  ASSUME IInv, NEW next \in BehindGates, pc' = next,
         UNCHANGED <<requestVars, routeVars, permit, cached, endings, answer, sent>>,
         armed' \in BOOLEAN, armed => armed',
         pc \in {"gates"} \cup BehindGates, Mode[Here] # "disabled",
         next \in Sending => pc \in Sending
  PROVE  IInv'
<1>1. RequestTypeOK'
  BY DEF IInv, RequestTypeOK, requestVars, routeVars, Steps, Holding, BehindGates, Sending
<1>2. PermitOfStep'
  BY DEF IInv, PermitOfStep, Holding, BehindGates, Sending, Here, routeVars
<1>3. OnlyServingSent'
  BY DEF IInv, OnlyServingSent, Here, Asked, routeVars
<1>4. Underway'
  BY DEF IInv, Underway, Asked, Sending, BehindGates
<1>5. AnswerAccounted' /\ EndsOnce'
  BY DEF IInv, AnswerAccounted, EndsOnce, Underway, Asked, BehindGates, Sending
<1> QED BY <1>1, <1>2, <1>3, <1>4, <1>5 DEF IInv

-----------------------------------------------------------------------------
\* A request that has not begun satisfies the invariant.
LEMMA InitKeeps == Init => IInv
<1> SUFFICES ASSUME Init PROVE IInv
  OBVIOUS
<1>1. PICK c \in Channels : routes = <<c>>
  BY DEF Init
<1>2. routes \in Seq(Channels) /\ Len(routes) = 1
  BY <1>1
<1>3. RequestTypeOK
  <2>1. pc \in Steps /\ answer \in Answers
    BY DEF Init, Steps, Answers
  <2>2. idx \in 1..Len(routes) /\ retry \in Nat /\ endings \in {0, 1}
    BY <1>2 DEF Init
  <2>3. cached \in BOOLEAN /\ armed \in BOOLEAN
    BY DEF Init
  <2>4. policy \in Policies /\ convertible \in BOOLEAN /\ sent \in [Channels -> Nat]
    BY DEF Init
  <2> QED BY <1>2, <2>1, <2>2, <2>3, <2>4 DEF RequestTypeOK
<1>4. ~Asked
  BY DEF Init, Asked
<1>5. PermitOfStep /\ Underway
  BY <1>4 DEF Init, PermitOfStep, Underway, Holding, BehindGates, Sending
<1>6. OnlyServingSent
  BY <1>2, <1>4 DEF Init, OnlyServingSent, BehindGates, Sending
<1>7. AnswerAccounted /\ EndsOnce
  BY DEF Init, AnswerAccounted, EndsOnce
<1> QED BY <1>3, <1>5, <1>6, <1>7 DEF IInv

\* Another try after a failure without a response, or its answer.
LEMMA FailureKeeps ==
  ASSUME IInv, pc \in Sending, NEW o \in {"connect", "network", "timeout"},
         NEW own \in {"badgateway", "timeout"}, AfterFailure(o, own)
  PROVE  IInv'
<1>1. Asked /\ armed /\ retry \in Nat /\ armed \in BOOLEAN /\ cached \in BOOLEAN
  BY DEF IInv, Underway, RequestTypeOK, Sending
<1>2. pc \notin {"arrive", "streaming", "done"}
  BY DEF Sending
<1>3. UNCHANGED <<requestVars, sent, cached>>
  BY DEF AfterFailure
<1>4. CASE RetriesSame(o) /\ retry' = retry + 1 /\ Loop /\ UNCHANGED <<routes, idx, armed>>
  BY <1>1, <1>2, <1>3, <1>4, LoopKeeps
<1>5. CASE Advance /\ retry' = 0 /\ Loop /\ UNCHANGED armed
  BY <1>1, <1>2, <1>3, <1>5, LoopKeeps
<1>6. CASE Return(IF cached THEN "upstream" ELSE own, 1) /\ UNCHANGED routeVars
  <2>1. (IF cached THEN "upstream" ELSE own) \in Answers
    BY <1>1 DEF Answers
  <2> QED BY <1>1, <1>2, <1>3, <1>6, <2>1, ReturnKeeps DEF routeVars
<1> QED BY <1>4, <1>5, <1>6 DEF AfterFailure

\* An error captured from the upstream, answered or kept for the next route.
LEMMA CapturedKeeps ==
  ASSUME IInv, NEW o \in {"429", "5xx"}, NEW ok \in BOOLEAN, Captured(o, ok)
  PROVE  IInv'
<1>0. pc \in Sending /\ pc \notin {"arrive", "streaming", "done"}
  BY DEF Captured, Sending
<1>1. Asked /\ armed /\ retry \in Nat /\ armed \in BOOLEAN /\ cached \in BOOLEAN
  BY <1>0 DEF IInv, Underway, RequestTypeOK
<1>3. UNCHANGED <<requestVars, sent>>
  BY DEF Captured, history
<1>4. CASE /\ retry' = retry + 1 /\ Loop /\ cached' = (cached \/ ok)
           /\ UNCHANGED <<routes, idx, armed>>
  BY <1>0, <1>1, <1>3, <1>4, LoopKeeps
<1>5. CASE Advance /\ retry' = 0 /\ Loop /\ cached' = (cached \/ ok) /\ UNCHANGED armed
  BY <1>0, <1>1, <1>3, <1>5, LoopKeeps
<1>6. CASE /\ Exhausted /\ Return(IF ok THEN "upstream" ELSE "losterror", 1)
           /\ UNCHANGED <<retry, cached>>
  <2>1. (IF ok THEN "upstream" ELSE "losterror") \in Answers
    BY DEF Answers
  <2> QED BY <1>0, <1>1, <1>3, <1>6, <2>1, ReturnKeeps DEF Exhausted
<1> QED BY <1>4, <1>5, <1>6 DEF Captured

\* Steps that change no more than the step and the permit; nothing was sent by them.
LEMMA TakesPermitKeeps ==
  ASSUME IInv, Resolved \/ Acquire
  PROVE  IInv'
<1>1. RequestTypeOK'
  BY DEF IInv, RequestTypeOK, Resolved, Acquire, requestVars, routeVars, logVars, history, Steps,
         Holding
<1>2. PermitOfStep'
  BY DEF IInv, PermitOfStep, Resolved, Acquire, Holding, BehindGates, Sending, Here, routeVars
<1>3. OnlyServingSent'
  BY DEF IInv, OnlyServingSent, Resolved, Acquire, BehindGates, Sending, Here, Asked, routeVars,
         history
<1>4. Underway'
  BY DEF IInv, Underway, Resolved, Acquire, Sending, Asked, logVars, history
<1>5. AnswerAccounted' /\ EndsOnce'
  BY DEF IInv, AnswerAccounted, EndsOnce, Resolved, Acquire, logVars, history
<1> QED BY <1>1, <1>2, <1>3, <1>4, <1>5 DEF IInv

\* A request sent upstream: the only step that counts a send.
LEMMA SendKeeps ==
  ASSUME IInv, Send
  PROVE  IInv'
<1>0. Here \in Channels /\ sent \in [Channels -> Nat] /\ pc = "admitted"
  BY DEF IInv, RequestTypeOK, Here, Send
<1>1. sent' \in [Channels -> Nat] /\ sent'[Here] > 0
  BY <1>0 DEF Send
<1>2. RequestTypeOK'
  BY <1>1 DEF IInv, RequestTypeOK, Send, requestVars, routeVars, Steps, Holding, BehindGates,
              Sending
<1>3. PermitOfStep'
  BY DEF IInv, PermitOfStep, Send, Holding, BehindGates, Sending, Here, routeVars
<1>4. OnlyServingSent'
  BY <1>0 DEF IInv, OnlyServingSent, Send, BehindGates, Sending, Here, routeVars
<1>5. Asked'
  BY <1>0, <1>1 DEF Asked
<1>6. Underway'
  BY <1>0, <1>5 DEF IInv, Underway, Send, Sending
<1>7. endings' = 0 /\ answer' = "none" /\ pc' = "wait"
  BY <1>0 DEF IInv, Underway, Send, Sending
<1>8. AnswerAccounted' /\ EndsOnce'
  BY <1>7 DEF AnswerAccounted, EndsOnce
<1> QED BY <1>2, <1>3, <1>4, <1>6, <1>8 DEF IInv

\* A success: its log is sent before the body, and the permit stays with the body.
LEMMA StreamKeeps ==
  ASSUME IInv, Respond \/ BodyEnds
  PROVE  IInv'
<1>1. Asked /\ Asked' /\ pc \in {"building", "streaming"} /\ endings' = 1 /\ answer' = "ok"
  BY DEF IInv, Underway, Respond, BodyEnds, Asked, Sending, history, logVars
<1>2. RequestTypeOK'
  <2>1. pc' \in Steps /\ answer' \in Answers /\ endings' \in {0, 1}
    BY <1>1 DEF Respond, BodyEnds, Steps, Holding, Answers
  <2>2. armed' \in BOOLEAN
    BY DEF IInv, RequestTypeOK, Respond, BodyEnds, logVars
  <2> QED BY <2>1, <2>2
          DEF IInv, RequestTypeOK, Respond, BodyEnds, requestVars, routeVars, history
<1>3. PermitOfStep'
  BY DEF IInv, PermitOfStep, Respond, BodyEnds, Holding, BehindGates, Sending, Here, routeVars
<1>4. OnlyServingSent'
  BY DEF IInv, OnlyServingSent, Respond, BodyEnds, BehindGates, Sending, Here, Asked, routeVars,
         history
<1>5. Underway'
  BY <1>1 DEF IInv, Underway, Respond, BodyEnds, Sending, history
<1>6. AnswerAccounted' /\ EndsOnce'
  BY <1>1 DEF AnswerAccounted, EndsOnce, Asked
<1> QED BY <1>2, <1>3, <1>4, <1>5, <1>6 DEF IInv

\* The ways to return that do not depend on what failed.
LEMMA AnswerKeeps ==
  ASSUME IInv,
         Refused \/ RejectBody \/ AnswerUnsupported \/ Unconvertible \/ BodyBreaks \/ PassError
           \/ Panics \/ ClientLeaves
  PROVE  IInv'
<1>0. /\ retry \in Nat /\ armed \in BOOLEAN /\ endings \in {0, 1}
      /\ (pc \notin {"streaming", "done"} /\ Asked) => armed
      /\ pc = "arrive" => ~Asked
      /\ pc \in {"building", "errbody"} => Asked
  BY DEF IInv, RequestTypeOK, Underway, Sending
<1>1. CASE Refused
  BY <1>0, <1>1, ReturnKeeps DEF Refused, requestVars, routeVars, history, Answers
<1>2. CASE RejectBody
  BY <1>0, <1>2, ReturnKeeps DEF RejectBody, requestVars, routeVars, history, Answers
<1>3. CASE AnswerUnsupported
  <2>1. ~Asked
    BY <1>3 DEF AnswerUnsupported, IInv, OnlyServingSent
  <2> QED BY <1>0, <1>3, <2>1, ReturnKeeps
          DEF AnswerUnsupported, Exhausted, requestVars, history, Answers
<1>4. CASE Unconvertible
  BY <1>0, <1>4, ReturnKeeps DEF Unconvertible, requestVars, routeVars, history, Answers
<1>5. CASE BodyBreaks
  <2>1. (IF pc = "building" THEN "lostbody" ELSE "losterror") \in {"lostbody", "losterror"}
    OBVIOUS
  <2>2. {"lostbody", "losterror"} \subseteq Answers
    BY DEF Answers
  <2>3. pc \in {"building", "errbody"} /\ Asked
    BY <1>0, <1>5 DEF BodyBreaks
  <2> QED BY <1>0, <1>5, <2>1, <2>2, <2>3, ReturnKeeps DEF BodyBreaks, requestVars, routeVars, history
<1>6. CASE PassError
  BY <1>0, <1>6, ReturnKeeps DEF PassError, requestVars, routeVars, history, Answers
<1>7. CASE Panics
  <2>1. pc \notin {"streaming", "done"}
    BY <1>7 DEF Panics
  <2>2. Return("panicked", IF armed THEN 1 ELSE 0)
        /\ UNCHANGED <<requestVars, routeVars, cached, history>>
    BY <1>7 DEF Panics
  <2>3. "panicked" \in Answers
    BY DEF Answers
  <2> QED BY <1>0, <2>1, <2>2, <2>3, ReturnKeeps DEF requestVars, routeVars, history
<1>8. CASE ClientLeaves
  <2>1. pc \notin {"streaming", "done"}
    BY <1>8 DEF ClientLeaves, Awaits
  <2>2. "cancelled" \in Answers
    BY DEF Answers
  <2> QED BY <1>0, <1>8, <2>1, <2>2, ReturnKeeps DEF ClientLeaves, requestVars, routeVars, history
<1> QED BY <1>1, <1>2, <1>3, <1>4, <1>5, <1>6, <1>7, <1>8

\* The gates before an attempt send the request on to another route.
LEMMA SkipKeeps ==
  ASSUME IInv, SkipFull \/ SkipUnsupported \/ SkipCooling \/ SkipOpen
  PROVE  IInv'
<1>0. /\ retry \in Nat /\ armed \in BOOLEAN /\ cached \in BOOLEAN
      /\ (pc \notin {"streaming", "done"} /\ Asked) => armed
      /\ cached => Asked
  BY DEF IInv, RequestTypeOK, Underway
<1>1. CASE SkipFull
  BY <1>0, <1>1, LoopKeeps DEF SkipFull, requestVars, history
<1>2. CASE SkipUnsupported
  BY <1>0, <1>2, LoopKeeps DEF SkipUnsupported, requestVars, history
<1>3. CASE SkipCooling
  BY <1>0, <1>3, LoopKeeps DEF SkipCooling, requestVars, history
<1>4. CASE SkipOpen
  <2>0. pc = "admit" /\ UNCHANGED <<requestVars, cached, sent>>
    BY <1>4 DEF SkipOpen, history
  <2>1. CASE Advance /\ retry' = 0 /\ Loop /\ UNCHANGED armed
    BY <1>0, <2>0, <2>1, LoopKeeps
  <2>2. CASE Exhausted /\ Return(IF cached THEN "upstream" ELSE "open", 1) /\ UNCHANGED retry
    <3>1. (IF cached THEN "upstream" ELSE "open") \in Answers
      BY DEF Answers
    <3> QED BY <1>0, <2>0, <2>2, <3>1, ReturnKeeps DEF Exhausted
  <2> QED BY <1>4, <2>1, <2>2 DEF SkipOpen
<1> QED BY <1>1, <1>2, <1>3, <1>4

\* The steps between two awaits of one attempt.
LEMMA AttemptKeeps ==
  ASSUME IInv,
         PassCooldown \/ Admitted \/ HeadersArrive \/ ConnectFails \/ StatusOk \/ StatusFinal
           \/ \E o \in {"429", "5xx"} : StatusError(o)
  PROVE  IInv'
<1>0. armed \in BOOLEAN /\ (pc \in BehindGates => Mode[Here] # "disabled")
  BY DEF IInv, RequestTypeOK, OnlyServingSent
<1>1. /\ UNCHANGED <<requestVars, routeVars, permit, cached, endings, answer, sent, armed>>
      /\ pc \in {"gates"} \cup BehindGates /\ pc' \in BehindGates
      /\ pc' \in Sending => pc \in Sending
      /\ pc = "gates" => Mode[Here] # "disabled"
  <2>1. CASE PassCooldown
    BY <2>1 DEF PassCooldown, Serves, BehindGates, Sending, logVars, history
  <2>2. CASE Admitted \/ HeadersArrive \/ ConnectFails \/ StatusOk \/ StatusFinal
    BY <2>2 DEF Admitted, HeadersArrive, ConnectFails, StatusOk, StatusFinal, BehindGates, Sending,
                logVars, history
  <2>3. CASE \E o \in {"429", "5xx"} : StatusError(o)
    BY <2>3 DEF StatusError, BehindGates, Sending, logVars
  <2> QED BY <2>1, <2>2, <2>3
<1>2. PICK next \in BehindGates : pc' = next
  BY <1>1
<1> QED BY <1>0, <1>1, <1>2, GoOnKeeps

\* The invariant is inductive: every step of the loop keeps it.
LEMMA StepKeeps == IInv /\ [Next]_vars => IInv'
<1> SUFFICES ASSUME IInv, [Next]_vars PROVE IInv'
  OBVIOUS
<1>1. CASE UNCHANGED vars
  BY <1>1 DEF IInv, RequestTypeOK, PermitOfStep, OnlyServingSent, Underway, AnswerAccounted, EndsOnce,
     vars, requestVars, routeVars, logVars, history, Here, Asked
<1>2. CASE Resolved \/ Acquire
  BY <1>2, TakesPermitKeeps
<1>3. CASE Send
  BY <1>3, SendKeeps
<1>4. CASE Respond \/ BodyEnds
  BY <1>4, StreamKeeps
<1>5. CASE Refused \/ RejectBody \/ AnswerUnsupported \/ Unconvertible \/ BodyBreaks \/ PassError
             \/ Panics \/ ClientLeaves
  BY <1>5, AnswerKeeps
<1>6. CASE SkipFull \/ SkipUnsupported \/ SkipCooling \/ SkipOpen
  BY <1>6, SkipKeeps
<1>7. CASE PassCooldown \/ Admitted \/ HeadersArrive \/ ConnectFails \/ StatusOk \/ StatusFinal
             \/ \E o \in {"429", "5xx"} : StatusError(o)
  BY <1>7, AttemptKeeps
<1>8. CASE ConnectFailure \/ NetworkFailure \/ FirstByteTimeout
  BY <1>8, FailureKeeps DEF ConnectFailure, NetworkFailure, FirstByteTimeout, Sending
<1>9. CASE \E o \in {"429", "5xx"}, ok \in BOOLEAN : Captured(o, ok)
  BY <1>9, CapturedKeeps
<1> QED BY <1>1, <1>2, <1>3, <1>4, <1>5, <1>6, <1>7, <1>8, <1>9 DEF Next, Proceed

\* The inductive invariant holds in every state a request can reach.
THEOREM Invariance == Spec => []IInv
<1>1. Init => IInv
  BY InitKeeps
<1>2. IInv /\ [Next]_vars => IInv'
  BY StepKeeps
<1> QED BY <1>1, <1>2, PTL DEF Spec

(* Whatever the policy and the routes, a request that waited for an        *)
(* upstream leaves exactly one terminal log, but for the failed            *)
(* conversions.                                                            *)
THEOREM EndedOnce == Spec => []EndsOnce
<1>1. IInv => EndsOnce
  BY DEF IInv
<1> QED BY <1>1, Invariance, PTL

(* An error of the gateway's own hides no captured error of an upstream,   *)
(* and no answer is given without the sends it speaks of.                  *)
THEOREM AnswersAccounted == Spec => []AnswerAccounted
<1>1. IInv => AnswerAccounted
  BY DEF IInv
<1> QED BY <1>1, Invariance, PTL

(* While a request waits for or reads from an upstream it holds the permit *)
(* of that very route, and none at the head of the loop or at its end.     *)
THEOREM PermitHeld == Spec => []PermitCoversSend
<1>1. IInv => PermitCoversSend
  BY DEF IInv, PermitOfStep, PermitCoversSend, Holding, BehindGates, Sending
<1> QED BY <1>1, Invariance, PTL

-----------------------------------------------------------------------------
(* The cooldown after a 429                                                *)

InStep(k) ==
  LET e == entries[k] IN
    /\ e.n = run429[k]
    /\ e.n = 0 => since429[k] = Long
    /\ e.n > 0 => /\ e.dur \in MinCooldown..MaxCooldown
                  /\ e.left >= 0 => since429[k] + e.left = e.dur
                  /\ e.left = -1 => since429[k] > e.dur

CooldownInv == TypeOK /\ \A k \in Keys : InStep(k)

Entry == [n: 0..CountCap, left: -1..MaxCooldown, dur: 0..MaxCooldown]

(* The constants of the module, as the provers want them.                  *)
LEMMA Constants ==
  /\ MinCooldown \in Nat /\ MinCooldown > 0
  /\ BaseCooldown \in Nat /\ MaxCooldown \in Nat
  /\ MinCooldown <= MaxCooldown
  /\ CountCap \in Nat /\ CountCap > 0
  /\ Long = MaxCooldown + 1
  BY CooldownAssumption, CountCapAssumption DEF Long

(* Shifted is what its definition says: a set of bounds up to which no     *)
(* function is has a least one.                                            *)
Less == OpToRel(<, Nat)

LEMMA Least ==
  ASSUME NEW T, T \subseteq Nat, T # {}
  PROVE  \E n \in T : \A m \in T : n <= m
<1>1. IsWellFoundedOn(Less, Nat)
  BY NatLessThanWellFounded DEF Less
<1>2. PICK n \in T : \A m \in T : ~(<<m, n>> \in Less)
  BY <1>1, WFMin
<1>3. \A i, j \in Nat : <<i, j>> \in Less <=> i < j
  BY DEF Less, OpToRel
<1>4. ASSUME NEW m \in T PROVE n <= m
  <2>1. m \in Nat /\ n \in Nat
    OBVIOUS
  <2>2. ~(m < n)
    BY ONLY <1>2, <1>3, <2>1, m \in T
  <2>. QED
    BY <2>1, <2>2
<1>. QED
  BY <1>4

IsShifted(f, n) == f = [i \in 0..n |-> IF i = 0 THEN 1 ELSE 2 * f[i - 1]]

LEMMA PartExists == \A n \in Nat : \E f : IsShifted(f, n)
<1>. DEFINE Bad == {n \in Nat : ~\E f : IsShifted(f, n)}
<1>1. SUFFICES ASSUME Bad # {} PROVE FALSE
  OBVIOUS
<1>2. PICK n \in Bad : \A m \in Bad : n <= m
  <2>1. Bad \subseteq Nat
    OBVIOUS
  <2>. HIDE DEF Bad
  <2>. QED
    BY <1>1, <2>1, Least
<1>3. n \in Nat /\ ~\E f : IsShifted(f, n)
  OBVIOUS
<1>4. CASE n = 0
  <2>1. IsShifted([i \in 0..n |-> 1], n)
    BY <1>4 DEF IsShifted
  <2>. QED
    BY <1>3, <2>1
<1>5. CASE n # 0
  <2>1. n - 1 \in Nat /\ ~(n <= n - 1)
    BY <1>3, <1>5
  <2>2. PICK f : IsShifted(f, n - 1)
    BY <1>2, <2>1
  <2>. DEFINE g == [i \in 0..n |-> IF i = 0 THEN 1 ELSE 2 * f[i - 1]]
  <2>3. ASSUME NEW i \in 0..n, i # 0 PROVE g[i - 1] = f[i - 1]
    <3>1. i - 1 \in 0..(n - 1) /\ i - 1 \in 0..n
      BY <1>3, <2>3
    <3>. QED
      BY <2>2, <3>1 DEF IsShifted
  <2>4. g = [i \in 0..n |-> IF i = 0 THEN 1 ELSE 2 * g[i - 1]]
    BY <2>3
  <2>. HIDE DEF g
  <2>. QED
    BY <1>3, <2>4 DEF IsShifted
<1>. QED
  BY <1>4, <1>5

(* Parts of different lengths agree where both are defined.                *)
LEMMA PartsAgree ==
  ASSUME NEW f, NEW g, NEW m \in Nat, NEW n \in Nat, IsShifted(f, m), IsShifted(g, n)
  PROVE  \A i \in Nat : i <= m /\ i <= n => f[i] = g[i]
<1>. DEFINE Bad == {i \in Nat : i <= m /\ i <= n /\ f[i] # g[i]}
<1>1. SUFFICES ASSUME Bad # {} PROVE FALSE
  OBVIOUS
<1>2. PICK i \in Bad : \A j \in Bad : i <= j
  <2>1. Bad \subseteq Nat
    OBVIOUS
  <2>. HIDE DEF Bad
  <2>. QED
    BY <1>1, <2>1, Least
<1>3. i \in Nat /\ i <= m /\ i <= n /\ f[i] # g[i]
  OBVIOUS
<1>4. i \in 0..m /\ i \in 0..n
  BY <1>3
<1>5. /\ f[i] = IF i = 0 THEN 1 ELSE 2 * f[i - 1]
      /\ g[i] = IF i = 0 THEN 1 ELSE 2 * g[i - 1]
  BY <1>4 DEF IsShifted
<1>6. i # 0
  BY <1>3, <1>5
<1>7. i - 1 \in Nat /\ i - 1 <= m /\ i - 1 <= n /\ ~(i <= i - 1)
  BY <1>3, <1>6
<1>8. f[i - 1] = g[i - 1]
  BY <1>2, <1>7
<1>. QED
  BY <1>3, <1>5, <1>6, <1>8

LEMMA ShiftedIs == \A n \in Nat : Shifted[n] = IF n = 0 THEN 1 ELSE 2 * Shifted[n - 1]
<1>. DEFINE Part(n) == CHOOSE f : IsShifted(f, n)
            whole == [n \in Nat |-> Part(n)[n]]
<1>1. ASSUME NEW n \in Nat PROVE IsShifted(Part(n), n)
  BY PartExists
<1>2. ASSUME NEW n \in Nat PROVE whole[n] = IF n = 0 THEN 1 ELSE 2 * whole[n - 1]
  <2>1. Part(n)[n] = IF n = 0 THEN 1 ELSE 2 * Part(n)[n - 1]
    <3>1. IsShifted(Part(n), n)
      BY <1>1
    <3>. HIDE DEF Part
    <3>2. n \in 0..n
      OBVIOUS
    <3>. QED
      BY <3>1, <3>2 DEF IsShifted
  <2>2. CASE n # 0
    <3>1. n - 1 \in Nat /\ n - 1 <= n
      BY <2>2
    <3>2. Part(n)[n - 1] = Part(n - 1)[n - 1]
      <4>1. IsShifted(Part(n), n) /\ IsShifted(Part(n - 1), n - 1)
        BY <1>1, <3>1
      <4>. HIDE DEF Part
      <4>. QED
        BY <3>1, <4>1, PartsAgree
    <3>. QED
      BY <2>1, <2>2, <3>1, <3>2
  <2>. QED
    BY <2>1, <2>2
<1>. HIDE DEF Part
<1>3. whole = [n \in Nat |-> IF n = 0 THEN 1 ELSE 2 * whole[n - 1]]
  BY <1>2
<1>. HIDE DEF whole
<1>4. Shifted = [n \in Nat |-> IF n = 0 THEN 1 ELSE 2 * Shifted[n - 1]]
  BY <1>3 DEF Shifted
<1>. QED
  BY <1>4

LEMMA ShiftedPositive == \A n \in Nat : Shifted[n] \in Nat /\ Shifted[n] >= 1
<1>. DEFINE Bad == {n \in Nat : ~(Shifted[n] \in Nat /\ Shifted[n] >= 1)}
<1>1. SUFFICES ASSUME Bad # {} PROVE FALSE
  OBVIOUS
<1>2. PICK n \in Bad : \A m \in Bad : n <= m
  <2>1. Bad \subseteq Nat
    OBVIOUS
  <2>. HIDE DEF Bad
  <2>. QED
    BY <1>1, <2>1, Least
<1>3. n \in Nat /\ ~(Shifted[n] \in Nat /\ Shifted[n] >= 1)
  OBVIOUS
<1>4. n # 0
  BY <1>3, ShiftedIs
<1>5. n - 1 \in Nat /\ ~(n <= n - 1)
  BY <1>3, <1>4
<1>6. Shifted[n - 1] \in Nat /\ Shifted[n - 1] >= 1
  BY <1>2, <1>5
<1>7. Shifted[n] = 2 * Shifted[n - 1]
  BY <1>3, <1>4, ShiftedIs
<1>. QED
  BY <1>3, <1>6, <1>7

(* The backoff starts at the base and stays under the maximum.             *)
LEMMA BackoffInRange ==
  ASSUME NEW n \in Nat, n > 0
  PROVE  Backoff(n) \in BaseCooldown..MaxCooldown
<1>. DEFINE p == Shifted[n - 1]
<1>1. p \in Nat /\ p >= 1
  BY ShiftedPositive
<1>. HIDE DEF p
<1>2. BaseCooldown \in Nat /\ BaseCooldown <= MaxCooldown /\ MaxCooldown \in Nat
  BY Constants, CooldownAssumption
<1>3. BaseCooldown * p \in Nat /\ BaseCooldown * p >= BaseCooldown
  BY <1>1, <1>2
<1>4. Backoff(n) = IF BaseCooldown * p < MaxCooldown THEN BaseCooldown * p ELSE MaxCooldown
  BY DEF Backoff, p
<1>. QED
  BY <1>2, <1>3, <1>4

(* Clamped: whatever it is given, a cooldown lies within its bounds.       *)
LEMMA ClampedInRange ==
  ASSUME NEW d \in Int
  PROVE  Clamped(d) \in MinCooldown..MaxCooldown
  BY Constants DEF Clamped

(* CooldownFor: with a header or without one.                              *)
LEMMA CooldownInRange ==
  ASSUME NEW n \in Nat, n > 0, NEW header \in RetryAfters \cup {NoHeader}, NEW j \in Jitter
  PROVE  CooldownFor(n, header, j) \in MinCooldown..MaxCooldown
<1>1. CASE header # NoHeader
  <2>1. header \in Int
    BY <1>1, CooldownAssumption
  <2>. QED
    BY <1>1, <2>1, ClampedInRange DEF CooldownFor
<1>2. CASE header = NoHeader
  <2>2. Backoff(n) \in Int
    BY BackoffInRange, Constants
  <2>3. j \in Int
    BY CooldownAssumption
  <2>4. (Backoff(n) * j) \div 1000 \in Int
    BY <2>2, <2>3
  <2>. QED
    BY <1>2, <2>4, ClampedInRange DEF CooldownFor
<1>. QED
  BY <1>1, <1>2

LEMMA UpToInRange ==
  ASSUME NEW cap \in Nat, NEW n \in 0..cap
  PROVE  /\ UpTo(n, cap) \in 0..cap
         /\ cap > 0 => UpTo(n, cap) > 0
         /\ n < cap => UpTo(n, cap) = n + 1
         /\ n = cap => UpTo(n, cap) = cap
  BY DEF UpTo

(* Forget: the keys it removes are as they were at the start.              *)
LEMMA ForgetKeeps ==
  ASSUME CooldownInv, NEW ks, Forget(ks), attempt' \in [Attempts -> Flight \cup {Idle}]
  PROVE  CooldownInv'
<1>1. NoEntry \in Entry
  BY Constants DEF NoEntry, Entry
<1>2. TypeOK'
  <2>1. entries' \in [Keys -> Entry]
    BY <1>1 DEF Forget, CooldownInv, TypeOK, Entry
  <2>2. since429' \in [Keys -> 0..Long]
    BY Constants DEF Forget, CooldownInv, TypeOK
  <2>3. run429' \in [Keys -> 0..CountCap]
    BY Constants DEF Forget, CooldownInv, TypeOK
  <2>. QED
    BY <2>1, <2>2, <2>3 DEF TypeOK, Entry
<1>3. ASSUME NEW k \in Keys PROVE InStep(k)'
  <2>1. CASE k \in ks
    <3>1. entries'[k] = NoEntry /\ since429'[k] = Long /\ run429'[k] = 0
      BY <2>1 DEF Forget
    <3>. QED
      BY <3>1 DEF InStep, NoEntry
  <2>2. CASE k \notin ks
    <3>1. entries'[k] = entries[k] /\ since429'[k] = since429[k] /\ run429'[k] = run429[k]
      BY <2>2 DEF Forget
    <3>. QED
      BY <3>1 DEF InStep, CooldownInv
  <2>. QED
    BY <2>1, <2>2
<1>. QED
  BY <1>2, <1>3 DEF CooldownInv

LEMMA Initially == CooldownInit => CooldownInv
<1>. SUFFICES ASSUME CooldownInit PROVE CooldownInv
  OBVIOUS
<1>1. NoEntry \in Entry
  BY Constants DEF NoEntry, Entry
<1>2. TypeOK
  BY <1>1, Constants DEF CooldownInit, TypeOK, Entry
<1>3. ASSUME NEW k \in Keys PROVE InStep(k)
  BY DEF CooldownInit, InStep, NoEntry
<1>. QED
  BY <1>2, <1>3 DEF CooldownInv

(* A 429 rewrites the entry of its key and restarts the clock.             *)
LEMMA Record429Keeps ==
  ASSUME CooldownInv, NEW a \in Attempts, NEW header \in RetryAfters \cup {NoHeader},
         NEW j \in Jitter, Record429(a, header, j)
  PROVE  CooldownInv'
<1>. DEFINE k == attempt[a].key
            n == UpTo(entries[k].n, CountCap)
            d == CooldownFor(n, header, j)
<1>1. attempt[a] \in Flight
  BY DEF Record429, InFlight, CooldownInv, TypeOK, Idle
<1>2. k \in Keys
  BY <1>1 DEF Flight
<1>3. attempt' \in [Attempts -> Flight \cup {Idle}]
  BY DEF Record429, CooldownInv, TypeOK
<1>4. CASE ~attempt[a].enabled
  BY <1>3, <1>4, ForgetKeeps DEF Record429
<1>5. CASE attempt[a].enabled
  <2>. DEFINE e == [n |-> n, left |-> d, dur |-> d]
  <2>1. entries[k].n \in 0..CountCap
    BY <1>2 DEF CooldownInv, TypeOK
  <2>2. n \in 0..CountCap /\ n > 0
    BY <2>1, Constants, UpToInRange
  <2>3. d \in MinCooldown..MaxCooldown
    <3>1. n \in Nat
      BY <2>2, Constants
    <3>. HIDE DEF n
    <3>. QED
      BY <2>2, <3>1, CooldownInRange
  <2>4. e \in Entry
    BY <2>2, <2>3, Constants DEF Entry
  <2>5. /\ entries' = [entries EXCEPT ![k] = e]
        /\ since429' = [since429 EXCEPT ![k] = 0]
        /\ run429' = [run429 EXCEPT ![k] = UpTo(@, CountCap)]
    BY <1>5 DEF Record429
  <2>10. n = UpTo(run429[k], CountCap)
    BY <1>2 DEF CooldownInv, InStep
  <2>. HIDE DEF n, d, e
  <2>6. run429[k] \in 0..CountCap
    BY <1>2 DEF CooldownInv, TypeOK
  <2>7. UpTo(run429[k], CountCap) \in 0..CountCap
    BY <2>6, Constants, UpToInRange
  <2>8. TypeOK'
    <3>1. entries \in [Keys -> Entry] /\ since429 \in [Keys -> 0..Long] /\ run429 \in [Keys -> 0..CountCap]
      BY DEF CooldownInv, TypeOK, Entry
    <3>2. entries' \in [Keys -> Entry]
      BY <3>1, <2>4, <2>5
    <3>3. since429' \in [Keys -> 0..Long]
      <4>1. 0 \in 0..Long
        BY Constants
      <4>. QED
        BY <3>1, <2>5, <4>1
    <3>4. run429' \in [Keys -> 0..CountCap]
      BY <3>1, <2>5, <2>7
    <3>. QED
      BY <1>3, <3>2, <3>3, <3>4 DEF TypeOK, Entry
  <2>9. ASSUME NEW q \in Keys PROVE InStep(q)'
    <3>1. CASE q = k
      <4>1. entries'[q] = e /\ since429'[q] = 0 /\ run429'[q] = UpTo(run429[k], CountCap)
        BY <1>2, <2>5, <3>1 DEF CooldownInv, TypeOK
      <4>2. e.n = n /\ e.left = d /\ e.dur = d
        BY DEF e
      <4>. QED
        BY <4>1, <4>2, <2>2, <2>3, <2>10, Constants DEF InStep
    <3>2. CASE q # k
      <4>1. entries'[q] = entries[q] /\ since429'[q] = since429[q] /\ run429'[q] = run429[q]
        BY <2>5, <3>2 DEF CooldownInv, TypeOK
      <4>. QED
        BY <4>1 DEF InStep, CooldownInv
    <3>. QED
      BY <3>1, <3>2
  <2>. QED
    BY <2>8, <2>9 DEF CooldownInv
<1>. QED
  BY <1>4, <1>5

LEMMA LeftReplaced ==
  ASSUME NEW r \in Entry, NEW v
  PROVE  [r EXCEPT !.left = v] = [n |-> r.n, left |-> v, dur |-> r.dur]
  BY DEF Entry

(* A tick takes one from the time left of a key and adds one to the time   *)
(* since its last 429.                                                     *)
LEMMA TickOneKey ==
  ASSUME CooldownInv, Tick, NEW k \in Keys
  PROVE  entries'[k] \in Entry /\ since429'[k] \in 0..Long /\ InStep(k)'
<1>. DEFINE e == entries[k]
            v == IF e.left >= 0 THEN e.left - 1 ELSE e.left
<1>1. e \in Entry /\ since429[k] \in 0..Long
  BY DEF CooldownInv, TypeOK, Entry
<1>2. entries'[k] = [e EXCEPT !.left = v] /\ since429'[k] = UpTo(since429[k], Long)
  BY DEF Tick
<1>3. InStep(k)
  BY DEF CooldownInv
<1>4. e.n \in 0..CountCap /\ e.left \in -1..MaxCooldown /\ e.dur \in 0..MaxCooldown
  BY <1>1 DEF Entry
<1>5. /\ v \in -1..MaxCooldown
      /\ v >= 0 => v = e.left - 1
      /\ v = -1 => e.left \in {-1, 0}
      /\ e.left = -1 => v = -1
  BY <1>4, Constants
<1>6. /\ since429'[k] \in 0..Long
      /\ since429[k] < Long => since429'[k] = since429[k] + 1
      /\ since429[k] = Long => since429'[k] = Long
  BY <1>1, <1>2, Constants, UpToInRange
<1>. HIDE DEF v
<1>7. entries'[k] = [n |-> e.n, left |-> v, dur |-> e.dur]
  BY <1>1, <1>2, LeftReplaced
<1>8. entries'[k] \in Entry
  BY <1>4, <1>5, <1>7 DEF Entry
<1>9. entries'[k].n = e.n /\ entries'[k].left = v /\ entries'[k].dur = e.dur
  BY <1>7
<1>10. e.n = 0 => since429'[k] = Long
  BY <1>3, <1>6 DEF InStep
<1>11. ASSUME e.n > 0
       PROVE  /\ e.dur \in MinCooldown..MaxCooldown
              /\ v >= 0 => since429'[k] + v = e.dur
              /\ v = -1 => since429'[k] > e.dur
  <2>1. /\ e.dur \in MinCooldown..MaxCooldown
        /\ e.left >= 0 => since429[k] + e.left = e.dur
        /\ e.left = -1 => since429[k] > e.dur
    BY <1>3, <1>11 DEF InStep
  <2>. QED
    BY <1>1, <1>4, <1>5, <1>6, <2>1, Constants
<1>12. InStep(k)'
  <2>1. e.n = run429[k] /\ run429'[k] = run429[k]
    BY <1>3 DEF InStep, Tick
  <2>. QED
    BY <1>9, <1>10, <1>11, <2>1 DEF InStep
<1>. QED
  BY <1>6, <1>8, <1>12

LEMMA TickKeeps ==
  ASSUME CooldownInv, Tick
  PROVE  CooldownInv'
<1>1. entries' \in [Keys -> Entry] /\ since429' \in [Keys -> 0..Long]
  <2>1. entries' = [k \in Keys |-> entries'[k]] /\ since429' = [k \in Keys |-> since429'[k]]
    BY DEF Tick
  <2>. QED
    BY <2>1, TickOneKey
<1>2. TypeOK'
  BY <1>1 DEF Tick, CooldownInv, TypeOK, Entry
<1>. QED
  BY <1>2, TickOneKey DEF CooldownInv

(* A step that touches no entry and no clock.                              *)
LEMMA UntouchedKeeps ==
  ASSUME CooldownInv, UNCHANGED <<entries, since429, run429>>,
         attempt' \in [Attempts -> Flight \cup {Idle}]
  PROVE  CooldownInv'
<1>1. TypeOK'
  BY DEF CooldownInv, TypeOK
<1>2. ASSUME NEW k \in Keys PROVE InStep(k)'
  BY DEF CooldownInv, InStep
<1>. QED
  BY <1>1, <1>2 DEF CooldownInv

LEMMA CooldownStepKeeps ==
  ASSUME CooldownInv, [CooldownNext]_cooldownVars
  PROVE  CooldownInv'
<1>1. ASSUME NEW a \in Attempts, NEW k \in Keys, Bypass(a, k) PROVE CooldownInv'
  <2>1. attempt' \in [Attempts -> Flight \cup {Idle}]
    BY <1>1 DEF Bypass, CooldownInv, TypeOK, Flight
  <2>. QED
    BY <1>1, <2>1, UntouchedKeeps DEF Bypass
<1>2. ASSUME NEW a \in Attempts, NEW k \in Keys, NEW on \in BOOLEAN, SendAttempt(a, k, on) PROVE CooldownInv'
  <2>1. attempt' \in [Attempts -> Flight \cup {Idle}]
    BY <1>2 DEF SendAttempt, CooldownInv, TypeOK, Flight
  <2>. QED
    BY <1>2, <2>1, UntouchedKeeps, ForgetKeeps DEF SendAttempt
<1>3. ASSUME NEW a \in Attempts, Finish(a) PROVE CooldownInv'
  <2>1. ASSUME NEW header \in RetryAfters \cup {NoHeader}, NEW j \in Jitter, Record429(a, header, j)
        PROVE  CooldownInv'
    BY <2>1, Record429Keeps
  <2>2. ASSUME RecordSuccess(a) PROVE CooldownInv'
    <3>1. attempt' \in [Attempts -> Flight \cup {Idle}]
      BY <2>2 DEF RecordSuccess, CooldownInv, TypeOK
    <3>. QED
      BY <2>2, <3>1, ForgetKeeps DEF RecordSuccess
  <2>3. ASSUME OtherOutcome(a) PROVE CooldownInv'
    <3>1. attempt' \in [Attempts -> Flight \cup {Idle}]
      BY <2>3 DEF OtherOutcome, CooldownInv, TypeOK
    <3>. QED
      BY <2>3, <3>1, UntouchedKeeps DEF OtherOutcome
  <2>. QED
    BY <1>3, <2>1, <2>2, <2>3 DEF Finish
<1>4. ASSUME NEW c, NEW m, Clear(c, m) PROVE CooldownInv'
  BY <1>4, ForgetKeeps DEF Clear, CooldownInv, TypeOK
<1>5. ASSUME Tick PROVE CooldownInv'
  BY <1>5, TickKeeps
<1>6. ASSUME UNCHANGED cooldownVars PROVE CooldownInv'
  BY <1>6, UntouchedKeeps DEF cooldownVars, CooldownInv, TypeOK
<1>. QED
  BY <1>1, <1>2, <1>3, <1>4, <1>5, <1>6 DEF CooldownNext

(* The strengthened invariant of the cooldown table and its attempts.      *)
THEOREM CooldownInvariance == CooldownSpec => []CooldownInv
<1>1. CooldownInit => CooldownInv
  BY Initially
<1>2. CooldownInv /\ [CooldownNext]_cooldownVars => CooldownInv'
  BY CooldownStepKeeps
<1>. QED
  BY <1>1, <1>2, PTL DEF CooldownSpec

(* Every variable keeps its type: no Retry-After takes an entry out of the *)
(* documented bounds (record_429_at).                                      *)
THEOREM CooldownTypeCorrect == CooldownSpec => []TypeOK
<1>1. CooldownInv => TypeOK
  BY DEF CooldownInv
<1>. QED
  BY CooldownInvariance, <1>1, PTL

LEMMA InStepGivesWindow ==
  ASSUME CooldownInv, NEW k \in Keys
  PROVE  /\ Cooling(k) => since429[k] <= MaxCooldown
         /\ since429[k] <= MinCooldown => Cooling(k)
<1>1. InStep(k)
  BY DEF CooldownInv
<1>2. /\ entries[k].n \in Nat /\ entries[k].left \in -1..MaxCooldown
      /\ since429[k] \in 0..Long
  BY Constants DEF CooldownInv, TypeOK
<1>. QED
  BY <1>1, <1>2, Constants DEF InStep, Cooling

(* A key is skipped for at least the shortest and at most the longest      *)
(* cooldown after its last 429 (remaining, record_429_at).                 *)
THEOREM WindowHolds == CooldownSpec => []CooldownWindow
<1>1. CooldownInv => CooldownWindow
  BY InStepGivesWindow DEF CooldownWindow
<1>. QED
  BY CooldownInvariance, <1>1, PTL

(* 20% more or less of a nominal cooldown, clamped, is 20% off at most.    *)
LEMMA JitterWithin ==
  ASSUME NEW b \in BaseCooldown..MaxCooldown, NEW j \in Jitter,
         NEW d, d = Clamped((b * j) \div 1000)
  PROVE  (d + 1) * 10 > b * 8 /\ d * 10 <= b * 12
<1>1. /\ b \in Nat /\ b >= MinCooldown /\ b <= MaxCooldown
      /\ j \in Nat /\ j >= 800 /\ j <= 1200
  BY Constants, CooldownAssumption
<1>. DEFINE p == b * j
<1>2. p \in Nat /\ b * 800 <= p /\ p <= b * 1200
  BY <1>1
<1>3. d = Clamped(p \div 1000)
  OBVIOUS
<1>. HIDE DEF p
<1>. DEFINE q == p \div 1000
<1>4. q \in Nat /\ q * 1000 <= p /\ p < q * 1000 + 1000
  BY <1>2
<1>. HIDE DEF q
<1>5. d = IF q < MinCooldown THEN MinCooldown ELSE IF q > MaxCooldown THEN MaxCooldown ELSE q
  BY <1>3 DEF Clamped, q
<1>. QED
  BY <1>1, <1>2, <1>4, <1>5, Constants

(* The cooldown of the n-th 429 in a row without a Retry-After stays       *)
(* within 20% of the documented series, however the answers of several     *)
(* attempts interleave with clears (jittered_exponential_cooldown).        *)
THEOREM BacksOff == CooldownSpec => DocumentedBackoff
<1>. DEFINE doubled(n) == BaseCooldown * Shifted[n - 1]
            nominal(n) == IF doubled(n) < MaxCooldown THEN doubled(n) ELSE MaxCooldown
<1>1. ASSUME CooldownInv, NEW a \in Attempts, NEW k \in Keys, NEW j \in Jitter,
             InFlight(a), attempt[a].key = k, attempt[a].enabled, Record429(a, NoHeader, j)
      PROVE  /\ (entries'[k].dur + 1) * 10 > nominal(run429'[k]) * 8
             /\ entries'[k].dur * 10 <= nominal(run429'[k]) * 12
  <2>1. PICK n : n = UpTo(run429[k], CountCap)
    OBVIOUS
  <2>2. n \in Nat /\ n > 0
    <3>1. run429[k] \in 0..CountCap
      BY <1>1 DEF CooldownInv, TypeOK
    <3>. QED
      BY <2>1, <3>1, Constants, UpToInRange
  <2>3. entries[k].n = run429[k]
    BY <1>1 DEF CooldownInv, InStep
  <2>4. PICK d : d = Clamped((Backoff(n) * j) \div 1000)
    OBVIOUS
  <2>5. entries'[k].dur = d /\ run429'[k] = n
    <3>1. /\ entries' = [entries EXCEPT ![k] = [n |-> n, left |-> d, dur |-> d]]
          /\ run429' = [run429 EXCEPT ![k] = n]
      BY <1>1, <2>1, <2>3, <2>4 DEF Record429, CooldownFor
    <3>2. k \in DOMAIN entries /\ k \in DOMAIN run429
      BY <1>1 DEF CooldownInv, TypeOK
    <3>. QED
      BY <3>1, <3>2
  <2>6. Backoff(n) \in BaseCooldown..MaxCooldown
    BY <2>2, BackoffInRange
  <2>7. (d + 1) * 10 > Backoff(n) * 8 /\ d * 10 <= Backoff(n) * 12
    BY <2>4, <2>6, JitterWithin
  <2>8. nominal(run429'[k]) = Backoff(n)
    BY <2>5 DEF Backoff
  <2>. QED
    BY <2>5, <2>7, <2>8
<1>. DEFINE Documented ==
       \A a \in Attempts, k \in Keys, j \in Jitter :
         InFlight(a) /\ attempt[a].key = k /\ attempt[a].enabled /\ Record429(a, NoHeader, j) =>
           /\ (entries'[k].dur + 1) * 10 > nominal(run429'[k]) * 8
           /\ entries'[k].dur * 10 <= nominal(run429'[k]) * 12
<1>2. CooldownInv => [Documented]_cooldownVars
  BY <1>1
<1>. QED
  BY <1>2, CooldownInvariance, PTL DEF DocumentedBackoff
=============================================================================
