--------------------------- MODULE CircuitBreaker ---------------------------
(***************************************************************************)
(* The connect-failure circuit breaker of the Rust proxy                   *)
(* (rust-proxy/src/circuit_breaker.rs): one state per key, a key being a   *)
(* channel and the origin of its target, and the attempts of concurrent    *)
(* requests that ask for admission and later report what became of the     *)
(* connection - or never report, because the answer timed out, broke off   *)
(* after connecting, or the client went away.                              *)
(*                                                                         *)
(* An Instant kept in a state (opened_at, probe_started_at) is represented *)
(* by its age, which saturates at Horizon: no comparison the code makes    *)
(* can tell two ages at or beyond the longest cooldown apart.              *)
(***************************************************************************)
EXTENDS Integers

CONSTANTS
  Keys,         \* circuit keys
  Attempts,     \* slots for upstream attempts in flight
  Policies,     \* failover policies a request may have cloned when it arrived
  Horizon,      \* ages saturate here
  StreakCap     \* the history variable streak saturates here

\* The .max(1) of record_connect_failure_at.
Threshold(p) == IF p.threshold > 1 THEN p.threshold ELSE 1

ASSUME PolicyAssumption ==
  Policies \subseteq [enabled: BOOLEAN, threshold: Nat, cooldown: Nat]

ASSUME HorizonAssumption ==
  Horizon \in Nat /\ \A p \in Policies : p.cooldown <= Horizon

ASSUME StreakCapAssumption ==
  StreakCap \in Nat /\ \A p \in Policies : Threshold(p) <= StreakCap

VARIABLES
  circuits,     \* the states map: CircuitState of each key, or absent
  attempt,      \* attempts admitted and not yet reported
  streak,       \* history: connect failures counted since the key was last removed
  sinceProbe    \* history: age of the last half-open probe admitted for the key

breakerVars == <<circuits, attempt, streak, sinceProbe>>

-----------------------------------------------------------------------------
(* States of a circuit and of an attempt.                                  *)

Circuit == [st: {"absent", "closed", "open", "half"}, fails: Nat, age: 0..Horizon]

Absent    == [st |-> "absent", fails |-> 0, age |-> 0]
Closed(n) == [st |-> "closed", fails |-> n, age |-> 0]
OpenNow   == [st |-> "open",   fails |-> 0, age |-> 0]
HalfNow   == [st |-> "half",   fails |-> 0, age |-> 0]

Flight == [kind: {"allow", "probe"}, key: Keys, policy: Policies]
Idle   == [kind |-> "idle"]

Blocked(k)    == circuits[k].st \in {"open", "half"}
InFlight(a)   == attempt[a].kind # "idle"
ProbeOn(a, k) == attempt[a].kind = "probe" /\ attempt[a].key = k

Older(age) == IF age < Horizon THEN age + 1 ELSE age

-----------------------------------------------------------------------------
(* What the code computes from one entry of the map.                       *)

Elapsed(c, p) == c.age >= p.cooldown

\* Mutant: a half-open circuit lets nobody through.
AdmissionWithoutReprobe(c, p) ==
  IF ~p.enabled \/ c.st \in {"absent", "closed"} THEN "Allow"
  ELSE IF c.st = "open" /\ Elapsed(c, p) THEN "HalfOpenProbe" ELSE "SkipOpen"

Admission(c, p) ==
  IF ~p.enabled \/ c.st \in {"absent", "closed"} THEN "Allow"
  ELSE IF Elapsed(c, p) THEN "HalfOpenProbe" ELSE "SkipOpen"

\* Mutant: a probe of a half-open circuit does not restart its clock.
AfterAdmitKeepingClock(c, p) ==
  CASE ~p.enabled                                             -> Absent
    [] Admission(c, p) = "HalfOpenProbe" /\ c.st = "open"     -> HalfNow
    [] OTHER                                                  -> c

AfterAdmit(c, p) ==
  CASE ~p.enabled                       -> Absent
    [] Admission(c, p) = "HalfOpenProbe" -> HalfNow
    [] OTHER                            -> c

NextFailures(c, p) ==
  CASE c.st = "closed"            -> c.fails + 1
    [] c.st \in {"open", "half"}  -> Threshold(p)
    [] OTHER                      -> 1

\* Mutant: the circuit opens one failure late.
AfterConnectFailureLate(c, p) ==
  IF NextFailures(c, p) > Threshold(p) THEN OpenNow ELSE Closed(NextFailures(c, p))

AfterConnectFailure(c, p) ==
  IF NextFailures(c, p) >= Threshold(p) THEN OpenNow ELSE Closed(NextFailures(c, p))

-----------------------------------------------------------------------------
BreakerInit ==
  /\ circuits   = [k \in Keys |-> Absent]
  /\ attempt    = [a \in Attempts |-> Idle]
  /\ streak     = [k \in Keys |-> 0]
  /\ sinceProbe = [k \in Keys |-> Horizon]

(* admit_at, when it lets the attempt through. A request whose policy      *)
(* disables the breaker removes the key for everyone.                      *)
Admit(a, k, p) ==
  LET verdict == Admission(circuits[k], p) IN
    /\ ~InFlight(a)
    /\ verdict # "SkipOpen"
    /\ circuits' = [circuits EXCEPT ![k] = AfterAdmit(@, p)]
    /\ attempt' = [attempt EXCEPT ![a] =
         [kind |-> IF verdict = "Allow" THEN "allow" ELSE "probe", key |-> k, policy |-> p]]
    /\ streak' = [streak EXCEPT ![k] = IF p.enabled THEN @ ELSE 0]
    /\ sinceProbe' = [sinceProbe EXCEPT ![k] = IF verdict = "Allow" THEN @ ELSE 0]

(* admit_at, when it answers SkipOpen: nothing is recorded.                *)
SkipOpen(a, k, p) ==
  /\ ~InFlight(a)
  /\ Admission(circuits[k], p) = "SkipOpen"
  /\ UNCHANGED breakerVars

(* record_connect_failure_at: the attempt never reached the upstream.      *)
ConnectFailed(a) ==
  LET k == attempt[a].key
      p == attempt[a].policy
  IN /\ InFlight(a)
     /\ attempt' = [attempt EXCEPT ![a] = Idle]
     /\ IF p.enabled
          THEN /\ circuits' = [circuits EXCEPT ![k] = AfterConnectFailure(@, p)]
               /\ streak' = [streak EXCEPT ![k] = IF @ < StreakCap THEN @ + 1 ELSE @]
          ELSE UNCHANGED <<circuits, streak>>
     /\ UNCHANGED sinceProbe

(* record_connect_success: response headers arrived, whatever the status   *)
(* and however long ago the attempt was admitted.                          *)
HeadersReceived(a) ==
  /\ InFlight(a)
  /\ attempt' = [attempt EXCEPT ![a] = Idle]
  /\ circuits' = [circuits EXCEPT ![attempt[a].key] = Absent]
  /\ streak' = [streak EXCEPT ![attempt[a].key] = 0]
  /\ UNCHANGED sinceProbe

(* A first-byte timeout, a failure after connecting, or the handler        *)
(* dropped because the client disconnected: the breaker is told nothing.   *)
Abandoned(a) ==
  /\ InFlight(a)
  /\ attempt' = [attempt EXCEPT ![a] = Idle]
  /\ UNCHANGED <<circuits, streak, sinceProbe>>

Tick ==
  /\ circuits' = [k \in Keys |-> [circuits[k] EXCEPT !.age =
                    IF Blocked(k) THEN Older(@) ELSE @]]
  /\ sinceProbe' = [k \in Keys |-> Older(sinceProbe[k])]
  /\ UNCHANGED <<attempt, streak>>

Finish(a) == ConnectFailed(a) \/ HeadersReceived(a) \/ Abandoned(a)

BreakerNext ==
  \/ \E a \in Attempts, k \in Keys, p \in Policies : Admit(a, k, p) \/ SkipOpen(a, k, p)
  \/ \E a \in Attempts : Finish(a)
  \/ Tick

BreakerSpec == BreakerInit /\ [][BreakerNext]_breakerVars

(* Time passes, every attempt ends (the handler wraps the send in a first- *)
(* byte timeout), and requests whose policy uses the breaker keep coming   *)
(* for every key: the breaker has no timer of its own.                     *)
FairBreakerSpec ==
  /\ BreakerSpec
  /\ WF_breakerVars(Tick)
  /\ \A a \in Attempts : WF_breakerVars(Finish(a))
  /\ \A k \in Keys : SF_breakerVars(\E a \in Attempts, p \in Policies : p.enabled /\ Admit(a, k, p))

-----------------------------------------------------------------------------
BreakerTypeOK ==
  /\ circuits \in [Keys -> Circuit]
  /\ attempt \in [Attempts -> Flight \cup {Idle}]
  /\ streak \in [Keys -> 0..StreakCap]
  /\ sinceProbe \in [Keys -> 0..Horizon]

(* A circuit that blocks has seen, since its last success, as many connect *)
(* failures in a row as some policy in use asks for; and one that still    *)
(* lets requests through has seen fewer than the most patient policy asks  *)
(* for. Late answers of attempts admitted long ago are counted when they   *)
(* arrive (record_connect_failure_at and record_connect_success).          *)
StreakDecides ==
  \A k \in Keys :
    /\ Blocked(k) => \E p \in Policies : p.enabled /\ streak[k] >= Threshold(p)
    /\ ~Blocked(k) /\ streak[k] > 0 =>
         \E p \in Policies : p.enabled /\ streak[k] < Threshold(p)

(* However answers of earlier attempts interleave, two half-open probes of *)
(* one circuit are admitted at least the later prober's cooldown apart     *)
(* (the HalfOpen arms of admit_at).                                        *)
ProbeSpacing ==
  [][\A a \in Attempts, k \in Keys :
       ~ProbeOn(a, k) /\ ProbeOn(a, k)' =>
         sinceProbe[k] >= attempt'[a].policy.cooldown]_breakerVars

(* A probe that is never reported does not leave the circuit half-open for *)
(* ever: a blocked circuit is always probed again or unblocked (the        *)
(* comment in admit_at on probes cancelled by the client).                 *)
Recovers ==
  \A k \in Keys : Blocked(k) ~> (~Blocked(k) \/ \E a \in Attempts : ProbeOn(a, k))
=============================================================================
