-------------------------- MODULE ConcurrencyLimit --------------------------
(***************************************************************************)
(* The concurrency rules of the Rust proxy                                 *)
(* (rust-proxy/src/concurrency_limit.rs) as proxy_handler_inner uses them: *)
(* a request copies the rule of its route under the routing lock, tries to *)
(* acquire a permit against the copy, and either holds a counted permit,   *)
(* moves on to another route, or goes through uncounted. The permit is     *)
(* dropped when the response body ends or the handler is dropped.          *)
(*                                                                         *)
(* The three hash maps of ActiveCounters are functions; an absent entry    *)
(* and a zero one cannot be told apart by any reader.                      *)
(***************************************************************************)
EXTENDS Integers, FiniteSets

CONSTANTS
  Requests,     \* requests being handled
  Rules,        \* ids of concurrency rules
  Channels, Models,
  Routes,       \* routes a request may try
  Limits,       \* values max_concurrency may be set to
  NoLimit,      \* the rule of that id does not exist
  NoRule,       \* the route names no rule
  NoPermit

ASSUME RequestsAssumption == IsFiniteSet(Requests)

ASSUME LimitsAssumption == Limits \subseteq Nat /\ NoLimit \notin Limits

ASSUME RoutesAssumption ==
  /\ NoRule \notin Rules
  /\ Routes \subseteq [rule: Rules \cup {NoRule}, channel: Channels, model: Models]
  /\ NoPermit \notin [rule: Rules \cup {NoRule}, channel: Channels, model: Models]

VARIABLES
  limit,        \* routing.concurrency_rules, replaced by a configuration sync
  stage,        \* where a request is in the acquisition
  route,        \* the route it is trying
  seen,         \* the max_concurrency it copied
  permit,       \* the ConcurrencyPermit it owns
  rules, channels, models,     \* ActiveCounters
  peak          \* history: the largest limit each rule has ever had

limitVars == <<limit, stage, route, seen, permit, rules, channels, models, peak>>

Permit == [rule: Rules \cup {NoRule}, channel: Channels, model: Models]

-----------------------------------------------------------------------------
(* The counters are moved only together, under the mutex.                  *)

Incremented(count, key) == [count EXCEPT ![key] = @ + 1]

\* Mutant: the entry is removed with its first release.
DecrementedToZero(count, key) == [count EXCEPT ![key] = 0]

\* saturating_sub, and the removal of an entry that reaches zero.
Decremented(count, key) == [count EXCEPT ![key] = IF @ > 0 THEN @ - 1 ELSE 0]

\* Mutant: off by one.
HasRoomForOneMore(id, max) == rules[id] <= max

\* try_acquire: also false when the limit is zero.
HasRoom(id, max) == rules[id] < max

Observed(p) == <<p.channel, p.model>>

Larger(n, m) == IF n # NoLimit /\ n > m THEN n ELSE m

-----------------------------------------------------------------------------
Init ==
  /\ limit    \in [Rules -> Limits \cup {NoLimit}]
  /\ stage    = [r \in Requests |-> "idle"]
  /\ route    \in [Requests -> Routes]
  /\ seen     = [r \in Requests |-> NoLimit]
  /\ permit   = [r \in Requests |-> NoPermit]
  /\ rules    = [id \in Rules |-> 0]
  /\ channels = [c \in Channels |-> 0]
  /\ models   = [cm \in Channels \X Models |-> 0]
  /\ peak     = [id \in Rules |-> Larger(limit[id], 0)]

(* The read of the rule under the routing lock, at the head of the loop.   *)
ReadRule(r, rt) ==
  /\ stage[r] = "idle"
  /\ stage' = [stage EXCEPT ![r] = "ruled"]
  /\ route' = [route EXCEPT ![r] = rt]
  /\ seen' = [seen EXCEPT ![r] = IF rt.rule = NoRule THEN NoLimit ELSE limit[rt.rule]]
  /\ UNCHANGED <<limit, permit, rules, channels, models, peak>>

TryAcquire(r) ==
  /\ stage[r] = "ruled"
  /\ seen[r] # NoLimit
  /\ HasRoom(route[r].rule, seen[r])
  /\ stage' = [stage EXCEPT ![r] = "held"]
  /\ permit' = [permit EXCEPT ![r] = route[r]]
  /\ rules' = Incremented(rules, route[r].rule)
  /\ channels' = Incremented(channels, route[r].channel)
  /\ models' = Incremented(models, Observed(route[r]))
  /\ UNCHANGED <<limit, route, seen, peak>>

Full(r) ==
  /\ stage[r] = "ruled"
  /\ seen[r] # NoLimit
  /\ ~HasRoom(route[r].rule, seen[r])
  /\ stage' = [stage EXCEPT ![r] = "full"]
  /\ UNCHANGED <<limit, route, seen, permit, rules, channels, models, peak>>

\* Mutant: a request that bypasses a full rule counts against it.
TrackUnderRule(r) ==
  /\ stage[r] = "full" \/ (stage[r] = "ruled" /\ seen[r] = NoLimit)
  /\ stage' = [stage EXCEPT ![r] = "held"]
  /\ permit' = [permit EXCEPT ![r] = route[r]]
  /\ rules' = IF route[r].rule = NoRule THEN rules ELSE Incremented(rules, route[r].rule)
  /\ channels' = Incremented(channels, route[r].channel)
  /\ models' = Incremented(models, Observed(route[r]))
  /\ UNCHANGED <<limit, route, seen, peak>>

(* track: no rule, or every candidate was full and the limit is bypassed.  *)
Track(r) ==
  /\ stage[r] = "full" \/ (stage[r] = "ruled" /\ seen[r] = NoLimit)
  /\ stage' = [stage EXCEPT ![r] = "held"]
  /\ permit' = [permit EXCEPT ![r] = [route[r] EXCEPT !.rule = NoRule]]
  /\ channels' = Incremented(channels, route[r].channel)
  /\ models' = Incremented(models, Observed(route[r]))
  /\ UNCHANGED <<limit, route, seen, rules, peak>>

(* advance_to_next_route found a fallback: the loop starts over with it.   *)
Advance(r) ==
  /\ stage[r] = "full"
  /\ stage' = [stage EXCEPT ![r] = "idle"]
  /\ UNCHANGED <<limit, route, seen, permit, rules, channels, models, peak>>

(* Drop for ConcurrencyPermit.                                             *)
Release(r) ==
  /\ stage[r] = "held"
  /\ stage' = [stage EXCEPT ![r] = "idle"]
  /\ permit' = [permit EXCEPT ![r] = NoPermit]
  /\ rules' = IF permit[r].rule = NoRule THEN rules ELSE Decremented(rules, permit[r].rule)
  /\ channels' = Decremented(channels, permit[r].channel)
  /\ models' = Decremented(models, Observed(permit[r]))
  /\ UNCHANGED <<limit, route, seen, peak>>

(* A configuration sync changes, removes or brings back a rule.            *)
SetLimit(id, n) ==
  /\ limit' = [limit EXCEPT ![id] = n]
  /\ peak' = [peak EXCEPT ![id] = Larger(n, @)]
  /\ UNCHANGED <<stage, route, seen, permit, rules, channels, models>>

Next ==
  \/ \E r \in Requests :
       \/ \E rt \in Routes : ReadRule(r, rt)
       \/ TryAcquire(r) \/ Full(r) \/ Track(r) \/ Advance(r) \/ Release(r)
  \/ \E id \in Rules, n \in Limits \cup {NoLimit} : SetLimit(id, n)

Spec == Init /\ [][Next]_limitVars

-----------------------------------------------------------------------------
TypeOK ==
  /\ limit \in [Rules -> Limits \cup {NoLimit}]
  /\ stage \in [Requests -> {"idle", "ruled", "full", "held"}]
  /\ route \in [Requests -> Routes]
  /\ seen \in [Requests -> Limits \cup {NoLimit}]
  /\ permit \in [Requests -> Permit \cup {NoPermit}]
  /\ rules \in [Rules -> Nat]
  /\ channels \in [Channels -> Nat]
  /\ models \in [Channels \X Models -> Nat]
  /\ peak \in [Rules -> Nat]

Holds(r) == permit[r] # NoPermit

RuleHolders(id)      == {r \in Requests : Holds(r) /\ permit[r].rule = id}
ChannelHolders(c)    == {r \in Requests : Holds(r) /\ permit[r].channel = c}
ModelHolders(cm)     == {r \in Requests : Holds(r) /\ Observed(permit[r]) = cm}

(* No permit is leaked or dropped twice: each counter is the number of     *)
(* live permits it stands for, whatever mix of counted, bypassing and      *)
(* rule-less requests comes and goes while rules are reconfigured          *)
(* (try_acquire, track and Drop).                                          *)
CountersMatch ==
  /\ \A id \in Rules : rules[id] = Cardinality(RuleHolders(id))
  /\ \A c \in Channels : channels[c] = Cardinality(ChannelHolders(c))
  /\ \A cm \in Channels \X Models : models[cm] = Cardinality(ModelHolders(cm))

(* Lowering, deleting or restoring a rule while requests hold its permits  *)
(* or a copy of it never lets more in than the rule once allowed: the      *)
(* check and the increment of try_acquire are one critical section.        *)
NeverOverPeak == \A id \in Rules : Cardinality(RuleHolders(id)) <= peak[id]

(* The counters implement sets of holders: a request is let in exactly     *)
(* when fewer hold the rule than the limit it copied.                      *)
Pool == INSTANCE PermitPool WITH
  ticket <- [r \in Requests |->
               IF stage[r] = "ruled" /\ seen[r] # NoLimit
               THEN [rule |-> route[r].rule, max |-> seen[r]]
               ELSE [rule |-> "none"]],
  inside <- [id \in Rules |-> RuleHolders(id)]

ImplementsPool == Pool!Spec
=============================================================================
