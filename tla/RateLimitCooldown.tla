-------------------------- MODULE RateLimitCooldown --------------------------
(***************************************************************************)
(* The per-channel-and-model cooldown after HTTP 429                       *)
(* (rust-proxy/src/rate_limit_cooldown.rs) and the attempts that consult   *)
(* and feed it. Answers of attempts sent before a cooldown began arrive    *)
(* during it, in any order: each 429 rewrites the entry, a success removes *)
(* it, an operator may clear it.                                           *)
(*                                                                         *)
(* The Instant `until` is represented by the time left, -1 once passed;    *)
(* remaining() still answers Some at the instant itself. Jitter is a       *)
(* nondeterministic choice.                                                *)
(***************************************************************************)
EXTENDS Integers

CONSTANTS
  ChannelNames, Models,
  Attempts,                               \* slots for upstream attempts in flight
  BaseCooldown, MinCooldown, MaxCooldown, \* BASE_, MIN_ and MAX_COOLDOWN
  RetryAfters,  \* values of the Retry-After header, in the unit of the cooldowns
  NoHeader,     \* the header is missing or unreadable
  Jitter,       \* per-mille factors, within 800..1200
  CountCap      \* consecutive_429s saturates here

Keys == ChannelNames \X Models
Any == "any"    \* a filter of clear that was not given

ASSUME CooldownAssumption ==
  /\ {BaseCooldown, MinCooldown, MaxCooldown} \subseteq Nat \ {0}
  /\ MinCooldown <= BaseCooldown /\ BaseCooldown <= MaxCooldown
  /\ RetryAfters \subseteq Nat /\ NoHeader \notin RetryAfters
  /\ Jitter \subseteq 800..1200

\* 1 << n
Shifted[n \in Nat] == IF n = 0 THEN 1 ELSE 2 * Shifted[n - 1]

\* Past the cap the backoff no longer grows, so counting on would show nothing.
ASSUME CountCapAssumption ==
  CountCap \in Nat \ {0} /\ BaseCooldown * Shifted[CountCap - 1] >= MaxCooldown

VARIABLES
  entries,    \* CooldownEntry of each key; n = 0 when absent
  attempt,    \* attempts in flight
  since429,   \* history: time since the last 429 recorded for the key, saturating
  run429      \* history: 429s recorded since the key was last removed, saturating

cooldownVars == <<entries, attempt, since429, run429>>

NoEntry == [n |-> 0, left |-> -1, dur |-> 0]
Idle == [kind |-> "idle"]
Flight == [kind: {"sent", "bypass"}, key: Keys, enabled: BOOLEAN]

InFlight(a) == attempt[a].kind # "idle"

Long == MaxCooldown + 1                     \* where the clock of since429 stops
UpTo(n, cap) == IF n < cap THEN n + 1 ELSE cap

-----------------------------------------------------------------------------
\* Mutant: no lower bound, so that Retry-After: 0 cools nothing.
ClampedAbove(d) == IF d > MaxCooldown THEN MaxCooldown ELSE d

Clamped(d) ==
  IF d < MinCooldown THEN MinCooldown ELSE IF d > MaxCooldown THEN MaxCooldown ELSE d

\* Mutant: the first 429 is already doubled.
BackoffAhead(n) ==
  LET doubled == BaseCooldown * Shifted[n]
  IN IF doubled < MaxCooldown THEN doubled ELSE MaxCooldown

Backoff(n) ==
  LET doubled == BaseCooldown * Shifted[n - 1]
  IN IF doubled < MaxCooldown THEN doubled ELSE MaxCooldown

\* parse_retry_after, or else jittered_exponential_cooldown.
CooldownFor(n, header, j) ==
  IF header # NoHeader THEN Clamped(header) ELSE Clamped((Backoff(n) * j) \div 1000)

\* remaining() is Some
Cooling(k) == entries[k].n > 0 /\ entries[k].left >= 0

-----------------------------------------------------------------------------
CooldownInit ==
  /\ entries  = [k \in Keys |-> NoEntry]
  /\ attempt  = [a \in Attempts |-> Idle]
  /\ since429 = [k \in Keys |-> Long]
  /\ run429   = [k \in Keys |-> 0]

Forget(ks) ==
  /\ entries' = [k \in Keys |-> IF k \in ks THEN NoEntry ELSE entries[k]]
  /\ since429' = [k \in Keys |-> IF k \in ks THEN Long ELSE since429[k]]
  /\ run429' = [k \in Keys |-> IF k \in ks THEN 0 ELSE run429[k]]

(* remaining() answers None: disabled, which removes the entry, or over.   *)
SendAttempt(a, k, enabled) ==
  /\ ~InFlight(a)
  /\ enabled => ~Cooling(k)
  /\ attempt' = [attempt EXCEPT ![a] = [kind |-> "sent", key |-> k, enabled |-> enabled]]
  /\ IF enabled THEN UNCHANGED <<entries, since429, run429>> ELSE Forget({k})

(* remaining() answers Some and no other route is usable: the cooldown is  *)
(* ignored as a last resort. With another route the request leaves.        *)
Bypass(a, k) ==
  /\ ~InFlight(a)
  /\ Cooling(k)
  /\ attempt' = [attempt EXCEPT ![a] = [kind |-> "bypass", key |-> k, enabled |-> TRUE]]
  /\ UNCHANGED <<entries, since429, run429>>

Record429(a, header, j) ==
  LET k == attempt[a].key
      n == UpTo(entries[k].n, CountCap)
      d == CooldownFor(n, header, j)
  IN /\ InFlight(a)
     /\ attempt' = [attempt EXCEPT ![a] = Idle]
     /\ IF attempt[a].enabled
          THEN /\ entries' = [entries EXCEPT ![k] = [n |-> n, left |-> d, dur |-> d]]
               /\ since429' = [since429 EXCEPT ![k] = 0]
               /\ run429' = [run429 EXCEPT ![k] = UpTo(@, CountCap)]
          ELSE Forget({k})

RecordSuccess(a) ==
  /\ InFlight(a)
  /\ attempt' = [attempt EXCEPT ![a] = Idle]
  /\ Forget({attempt[a].key})

(* Any other outcome leaves the cooldowns alone.                           *)
OtherOutcome(a) ==
  /\ InFlight(a)
  /\ attempt' = [attempt EXCEPT ![a] = Idle]
  /\ UNCHANGED <<entries, since429, run429>>

(* clear, with the optional channel and model of the console's request.    *)
Clear(channel, model) ==
  /\ Forget({k \in Keys : channel \in {Any, k[1]} /\ model \in {Any, k[2]}})
  /\ UNCHANGED attempt

Tick ==
  /\ entries' = [k \in Keys |-> [entries[k] EXCEPT !.left = IF @ >= 0 THEN @ - 1 ELSE @]]
  /\ since429' = [k \in Keys |-> UpTo(since429[k], Long)]
  /\ UNCHANGED <<attempt, run429>>

Finish(a) ==
  \/ \E header \in RetryAfters \cup {NoHeader}, j \in Jitter : Record429(a, header, j)
  \/ RecordSuccess(a)
  \/ OtherOutcome(a)

CooldownNext ==
  \/ \E a \in Attempts, k \in Keys : Bypass(a, k) \/ \E e \in BOOLEAN : SendAttempt(a, k, e)
  \/ \E a \in Attempts : Finish(a)
  \/ \E c \in ChannelNames \cup {Any}, m \in Models \cup {Any} : Clear(c, m)
  \/ Tick

CooldownSpec == CooldownInit /\ [][CooldownNext]_cooldownVars

-----------------------------------------------------------------------------
TypeOK ==
  /\ entries \in [Keys -> [n: 0..CountCap, left: -1..MaxCooldown, dur: 0..MaxCooldown]]
  /\ attempt \in [Attempts -> Flight \cup {Idle}]
  /\ since429 \in [Keys -> 0..Long]
  /\ run429 \in [Keys -> 0..CountCap]

(* A key is skipped only while its last 429 is at most the longest         *)
(* cooldown old, and is sure to be skipped for the shortest one, whatever  *)
(* Retry-After said and however many late answers were recorded            *)
(* (record_429_at, parse_retry_after).                                     *)
CooldownWindow ==
  \A k \in Keys : /\ Cooling(k) => since429[k] <= MaxCooldown
                  /\ since429[k] <= MinCooldown => Cooling(k)

(* The cooldown of the n-th 429 in a row without a header stays within the *)
(* documented 30, 60, 120, 240, 300 seconds, give or take 20%, and under   *)
(* the maximum (jittered_exponential_cooldown).                            *)
DocumentedBackoff ==
  [][\A a \in Attempts, k \in Keys, j \in Jitter :
       InFlight(a) /\ attempt[a].key = k /\ attempt[a].enabled /\ Record429(a, NoHeader, j) =>
         LET doubled == BaseCooldown * Shifted[run429'[k] - 1]
             nominal == IF doubled < MaxCooldown THEN doubled ELSE MaxCooldown
         IN /\ (entries'[k].dur + 1) * 10 > nominal * 8
            /\ entries'[k].dur * 10 <= nominal * 12]_cooldownVars
=============================================================================
