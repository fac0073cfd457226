--------------------------- MODULE AdmissionProofs ---------------------------
(***************************************************************************)
(* Proofs about what the Rust proxy asks before it sends an attempt: the   *)
(* circuit of the target (CircuitBreaker) and the permits of its rule      *)
(* (ConcurrencyLimit).                                                     *)
(*                                                                         *)
(* The breaker, for every set of keys, attempts and policies: its          *)
(* inductive invariant adds to the types what ties the stored state to the *)
(* two histories. A closed entry counts exactly the failures since the     *)
(* last success, an absent one has seen none, and the age a blocked        *)
(* circuit stores never exceeds that of the last probe, for every event    *)
(* that (re)starts the stored age happens at or after the probe.           *)
(*                                                                         *)
(* The limits, for every finite set of requests and every set of rules,    *)
(* routes and limits: the counters are the cardinalities of the sets of    *)
(* permit holders, a rule never has more holders than its largest limit    *)
(* allowed, and the counters implement the sets of PermitPool. The         *)
(* inductive invariant adds what links a request's stage to its permit,    *)
(* and bounds every copied limit by the peak.                              *)
(***************************************************************************)
EXTENDS CircuitBreaker, ConcurrencyLimit, FiniteSetTheorems, TLAPS

-----------------------------------------------------------------------------
(* The circuit breaker                                                     *)

Evidence(k) ==
  /\ circuits[k].st = "absent" => streak[k] = 0
  /\ circuits[k].st = "closed" =>
       /\ streak[k] = circuits[k].fails
       /\ \E p \in Policies : p.enabled /\ streak[k] < Threshold(p)
  /\ Blocked(k) => \E p \in Policies : p.enabled /\ streak[k] >= Threshold(p)

AgeBelowProbe(k) == Blocked(k) => circuits[k].age <= sinceProbe[k]

BreakerInv ==
  /\ BreakerTypeOK
  /\ \A k \in Keys : Evidence(k) /\ AgeBelowProbe(k)

-----------------------------------------------------------------------------
LEMMA ThresholdType ==
  ASSUME NEW p \in Policies
  PROVE  Threshold(p) \in Nat /\ Threshold(p) >= 1 /\ Threshold(p) <= StreakCap
BY PolicyAssumption, StreakCapAssumption DEF Threshold

LEMMA CooldownType ==
  ASSUME NEW p \in Policies
  PROVE  /\ p.cooldown \in Nat /\ p.cooldown <= Horizon
         /\ p.enabled \in BOOLEAN
BY PolicyAssumption, HorizonAssumption

(* The states the code writes are states of a circuit.                     *)
LEMMA CircuitValues ==
  /\ Absent \in Circuit /\ OpenNow \in Circuit /\ HalfNow \in Circuit
  /\ \A n \in Nat : Closed(n) \in Circuit
BY HorizonAssumption DEF Absent, OpenNow, HalfNow, Closed, Circuit

LEMMA OlderType ==
  ASSUME NEW n \in 0..Horizon
  PROVE  Older(n) \in 0..Horizon /\ Older(n) >= n
BY HorizonAssumption DEF Older

LEMMA OlderMonotone ==
  ASSUME NEW m \in 0..Horizon, NEW n \in 0..Horizon, m <= n
  PROVE  Older(m) <= Older(n)
BY HorizonAssumption DEF Older

-----------------------------------------------------------------------------
LEMMA BreakerStarts == BreakerInit => BreakerInv
<1> SUFFICES ASSUME BreakerInit PROVE BreakerInv
  OBVIOUS
<1>1. BreakerTypeOK
  BY CircuitValues, HorizonAssumption, StreakCapAssumption DEF BreakerInit, BreakerTypeOK
<1>2. \A k \in Keys : Evidence(k) /\ AgeBelowProbe(k)
  BY DEF BreakerInit, Evidence, AgeBelowProbe, Blocked, Absent
<1> QED BY <1>1, <1>2 DEF BreakerInv

LEMMA AdmitIInv ==
  ASSUME BreakerInv, NEW a \in Attempts, NEW k \in Keys, NEW p \in Policies, Admit(a, k, p)
  PROVE  BreakerInv'
<1> DEFINE c == circuits[k]
<1>0. /\ c \in Circuit /\ streak[k] \in 0..StreakCap /\ sinceProbe[k] \in 0..Horizon
      /\ Evidence(k) /\ AgeBelowProbe(k)
  BY DEF BreakerInv, BreakerTypeOK
<1>1. AfterAdmit(c, p) \in Circuit
  BY <1>0, CircuitValues DEF AfterAdmit
<1>2. BreakerTypeOK'
  <2>1. circuits' \in [Keys -> Circuit]
    BY <1>1 DEF Admit, BreakerInv, BreakerTypeOK
  <2>2. attempt' \in [Attempts -> Flight \cup {Idle}]
    BY DEF Admit, BreakerInv, BreakerTypeOK, Flight
  <2>3. streak' \in [Keys -> 0..StreakCap]
    BY StreakCapAssumption DEF Admit, BreakerInv, BreakerTypeOK
  <2>4. sinceProbe' \in [Keys -> 0..Horizon]
    BY HorizonAssumption DEF Admit, BreakerInv, BreakerTypeOK
  <2> QED BY <2>1, <2>2, <2>3, <2>4 DEF BreakerTypeOK
<1>3. circuits'[k] = AfterAdmit(c, p)
  BY DEF Admit, BreakerInv, BreakerTypeOK
<1>4. /\ streak'[k] = IF p.enabled THEN streak[k] ELSE 0
      /\ sinceProbe'[k] = IF Admission(c, p) = "Allow" THEN sinceProbe[k] ELSE 0
  BY DEF Admit, BreakerInv, BreakerTypeOK
<1>5. Evidence(k)' /\ AgeBelowProbe(k)'
  <2>1. CASE ~p.enabled
    <3>1. circuits'[k] = Absent /\ streak'[k] = 0
      BY <2>1, <1>3, <1>4 DEF AfterAdmit, Admission
    <3> QED BY <3>1 DEF Evidence, AgeBelowProbe, Blocked, Absent
  <2>2. CASE p.enabled /\ Admission(c, p) = "HalfOpenProbe"
    <3>1. circuits'[k] = HalfNow /\ streak'[k] = streak[k] /\ sinceProbe'[k] = 0
      BY <2>2, <1>3, <1>4 DEF AfterAdmit
    <3>2. Blocked(k)
      BY <2>2, <1>0 DEF Admission, Blocked, Circuit
    <3> QED BY <3>1, <3>2, <1>0 DEF Evidence, AgeBelowProbe, Blocked, HalfNow
  <2>3. CASE p.enabled /\ Admission(c, p) # "HalfOpenProbe"
    <3>1. Admission(c, p) = "Allow" /\ circuits'[k] = c
      BY <2>3, <1>3 DEF AfterAdmit, Admission, Admit
    <3> QED BY <2>3, <3>1, <1>0, <1>4 DEF Evidence, AgeBelowProbe, Blocked
  <2> QED BY <2>1, <2>2, <2>3
<1>6. ASSUME NEW j \in Keys, j # k PROVE Evidence(j)' /\ AgeBelowProbe(j)'
  <2>1. circuits'[j] = circuits[j] /\ streak'[j] = streak[j] /\ sinceProbe'[j] = sinceProbe[j]
    BY <1>6 DEF Admit, BreakerInv, BreakerTypeOK
  <2> QED BY <2>1 DEF BreakerInv, Evidence, AgeBelowProbe, Blocked
<1> QED BY <1>2, <1>5, <1>6 DEF BreakerInv

LEMMA ConnectFailedIInv ==
  ASSUME BreakerInv, NEW a \in Attempts, ConnectFailed(a)
  PROVE  BreakerInv'
<1>0. attempt[a] \in Flight
  BY DEF BreakerInv, BreakerTypeOK, ConnectFailed, InFlight, Idle
<1>1. PICK k \in Keys, p \in Policies : k = attempt[a].key /\ p = attempt[a].policy
  BY <1>0 DEF Flight
<1> DEFINE c == circuits[k]
<1>2. /\ c \in Circuit /\ streak[k] \in 0..StreakCap /\ sinceProbe[k] \in 0..Horizon
      /\ Evidence(k) /\ AgeBelowProbe(k)
  BY <1>1 DEF BreakerInv, BreakerTypeOK
<1>3. attempt' \in [Attempts -> Flight \cup {Idle}] /\ sinceProbe' = sinceProbe
  BY DEF ConnectFailed, BreakerInv, BreakerTypeOK
<1>4. CASE ~p.enabled
  <2>1. circuits' = circuits /\ streak' = streak
    BY <1>1, <1>4 DEF ConnectFailed
  <2> QED BY <2>1, <1>3 DEF BreakerInv, BreakerTypeOK, Evidence, AgeBelowProbe, Blocked
<1>5. CASE p.enabled
  <2>1. /\ circuits' = [circuits EXCEPT ![k] = AfterConnectFailure(@, p)]
        /\ streak' = [streak EXCEPT ![k] = IF @ < StreakCap THEN @ + 1 ELSE @]
    BY <1>1, <1>5 DEF ConnectFailed
  <2>2. Threshold(p) \in Nat /\ Threshold(p) >= 1 /\ Threshold(p) <= StreakCap
    BY <1>1, ThresholdType
  <2>3. NextFailures(c, p) \in Nat
    BY <1>2, <2>2 DEF NextFailures, Circuit
  <2>4. AfterConnectFailure(c, p) \in Circuit
    BY <2>3, CircuitValues DEF AfterConnectFailure
  <2>5. BreakerTypeOK'
    BY <1>3, <2>1, <2>4, <1>1, StreakCapAssumption DEF BreakerInv, BreakerTypeOK
  <2>6. /\ circuits'[k] = AfterConnectFailure(c, p)
        /\ streak'[k] = IF streak[k] < StreakCap THEN streak[k] + 1 ELSE streak[k]
    BY <1>1, <2>1 DEF BreakerInv, BreakerTypeOK
  <2>7. AgeBelowProbe(k)'
    BY <1>2, <1>3, <2>6, HorizonAssumption
       DEF AgeBelowProbe, Blocked, AfterConnectFailure, OpenNow, Closed
  <2>8. Evidence(k)'
    <3>1. CASE Blocked(k)
      <4>1. circuits'[k] = OpenNow
        BY <3>1, <2>2, <2>6 DEF Blocked, AfterConnectFailure, NextFailures
      <4>2. PICK q \in Policies : q.enabled /\ streak[k] >= Threshold(q)
        BY <3>1, <1>2 DEF Evidence
      <4>3. streak'[k] >= Threshold(q)
        BY <4>2, <2>6, <1>2, ThresholdType, StreakCapAssumption
      <4> QED BY <4>1, <4>2, <4>3 DEF Evidence, Blocked, OpenNow
    <3>2. CASE ~Blocked(k)
      <4>1. c.st \in {"absent", "closed"}
        BY <3>2, <1>2 DEF Blocked, Circuit
      <4>2. streak[k] < StreakCap
        <5>1. CASE c.st = "absent"
          BY <5>1, <1>2, <2>2, StreakCapAssumption DEF Evidence
        <5>2. CASE c.st = "closed"
          BY <5>2, <1>2, ThresholdType, StreakCapAssumption DEF Evidence
        <5> QED BY <4>1, <5>1, <5>2
      <4>3. NextFailures(c, p) = streak[k] + 1
        BY <4>1, <1>2 DEF Evidence, NextFailures
      <4>4. streak'[k] = NextFailures(c, p)
        BY <4>2, <4>3, <2>6
      <4>5. CASE NextFailures(c, p) >= Threshold(p)
        BY <4>4, <4>5, <2>6, <1>1, <1>5
           DEF Evidence, Blocked, AfterConnectFailure, OpenNow
      <4>6. CASE ~(NextFailures(c, p) >= Threshold(p))
        <5>1. streak'[k] < Threshold(p)
          BY <4>4, <4>6, <2>2, <2>3
        <5>2. circuits'[k] = Closed(NextFailures(c, p))
          BY <4>6, <2>6 DEF AfterConnectFailure
        <5> QED BY <5>1, <5>2, <4>4, <1>1, <1>5 DEF Evidence, Blocked, Closed
      <4> QED BY <4>5, <4>6
    <3> QED BY <3>1, <3>2
  <2>9. ASSUME NEW j \in Keys, j # k PROVE Evidence(j)' /\ AgeBelowProbe(j)'
    <3>1. circuits'[j] = circuits[j] /\ streak'[j] = streak[j] /\ sinceProbe'[j] = sinceProbe[j]
      BY <2>9, <2>1, <1>3 DEF BreakerInv, BreakerTypeOK
    <3> QED BY <3>1 DEF BreakerInv, Evidence, AgeBelowProbe, Blocked
  <2> QED BY <2>5, <2>7, <2>8, <2>9 DEF BreakerInv
<1> QED BY <1>1, <1>4, <1>5, CooldownType

LEMMA HeadersReceivedIInv ==
  ASSUME BreakerInv, NEW a \in Attempts, HeadersReceived(a)
  PROVE  BreakerInv'
<1> DEFINE k == attempt[a].key
<1>0. k \in Keys
  BY DEF BreakerInv, BreakerTypeOK, HeadersReceived, InFlight, Idle, Flight
<1>1. BreakerTypeOK'
  BY <1>0, CircuitValues, StreakCapAssumption DEF HeadersReceived, BreakerInv, BreakerTypeOK
<1>2. ASSUME NEW j \in Keys PROVE Evidence(j)' /\ AgeBelowProbe(j)'
  <2>1. CASE j = k
    <3>1. circuits'[j] = Absent /\ streak'[j] = 0
      BY <2>1, <1>0 DEF HeadersReceived, BreakerInv, BreakerTypeOK
    <3> QED BY <3>1 DEF Evidence, AgeBelowProbe, Blocked, Absent
  <2>2. CASE j # k
    <3>1. circuits'[j] = circuits[j] /\ streak'[j] = streak[j] /\ sinceProbe' = sinceProbe
      BY <2>2 DEF HeadersReceived, BreakerInv, BreakerTypeOK
    <3> QED BY <3>1 DEF BreakerInv, Evidence, AgeBelowProbe, Blocked
  <2> QED BY <2>1, <2>2
<1> QED BY <1>1, <1>2 DEF BreakerInv

LEMMA TickIInv ==
  ASSUME BreakerInv, Tick
  PROVE  BreakerInv'
<1>1. ASSUME NEW k \in Keys
      PROVE  /\ circuits'[k] = [circuits[k] EXCEPT !.age = IF Blocked(k) THEN Older(@) ELSE @]
             /\ sinceProbe'[k] = Older(sinceProbe[k])
             /\ streak'[k] = streak[k]
  BY DEF Tick
<1>2. ASSUME NEW k \in Keys
      PROVE  /\ circuits[k] \in Circuit /\ circuits[k].age \in 0..Horizon
             /\ sinceProbe[k] \in 0..Horizon
  BY DEF BreakerInv, BreakerTypeOK, Circuit
<1>3. ASSUME NEW k \in Keys
      PROVE  /\ circuits'[k].st = circuits[k].st
             /\ circuits'[k].fails = circuits[k].fails
             /\ circuits'[k].age = IF Blocked(k) THEN Older(circuits[k].age) ELSE circuits[k].age
             /\ circuits'[k] \in Circuit
  <2>1. /\ circuits[k].age \in 0..Horizon /\ Older(circuits[k].age) \in 0..Horizon
        /\ circuits[k] \in Circuit
    BY <1>2, <1>3, OlderType
  <2> QED BY <1>1, <1>3, <2>1 DEF Circuit
<1>4. BreakerTypeOK'
  <2>1. circuits' \in [Keys -> Circuit]
    BY <1>3 DEF Tick
  <2>2. sinceProbe' \in [Keys -> 0..Horizon]
    BY <1>1, <1>2, OlderType DEF Tick
  <2> QED BY <2>1, <2>2 DEF Tick, BreakerInv, BreakerTypeOK
<1>5. ASSUME NEW k \in Keys PROVE Evidence(k)' /\ AgeBelowProbe(k)'
  <2>1. Evidence(k)'
    BY <1>1, <1>3 DEF BreakerInv, Evidence, Blocked
  <2>2. AgeBelowProbe(k)'
    <3> SUFFICES ASSUME Blocked(k)' PROVE circuits'[k].age <= sinceProbe'[k]
      BY DEF AgeBelowProbe
    <3>1. Blocked(k)
      BY <1>3 DEF Blocked
    <3>2. circuits[k].age <= sinceProbe[k]
      BY <3>1 DEF BreakerInv, AgeBelowProbe
    <3>3. circuits'[k].age = Older(circuits[k].age) /\ sinceProbe'[k] = Older(sinceProbe[k])
      BY <3>1, <1>1, <1>3, <1>5
    <3> QED BY <3>2, <3>3, <1>2, <1>5, OlderMonotone
  <2> QED BY <2>1, <2>2
<1> QED BY <1>4, <1>5 DEF BreakerInv

LEMMA BreakerStep == BreakerInv /\ [BreakerNext]_breakerVars => BreakerInv'
<1> SUFFICES ASSUME BreakerInv, [BreakerNext]_breakerVars PROVE BreakerInv'
  OBVIOUS
<1>1. ASSUME NEW a \in Attempts, NEW k \in Keys, NEW p \in Policies, Admit(a, k, p)
      PROVE  BreakerInv'
  BY <1>1, AdmitIInv
<1>2. ASSUME NEW a \in Attempts, NEW k \in Keys, NEW p \in Policies, SkipOpen(a, k, p)
      PROVE  BreakerInv'
  BY <1>2 DEF SkipOpen, breakerVars, BreakerInv, BreakerTypeOK, Evidence, AgeBelowProbe, Blocked
<1>3. ASSUME NEW a \in Attempts, ConnectFailed(a) PROVE BreakerInv'
  BY <1>3, ConnectFailedIInv
<1>4. ASSUME NEW a \in Attempts, HeadersReceived(a) PROVE BreakerInv'
  BY <1>4, HeadersReceivedIInv
<1>5. ASSUME NEW a \in Attempts, Abandoned(a) PROVE BreakerInv'
  BY <1>5 DEF Abandoned, BreakerInv, BreakerTypeOK, Evidence, AgeBelowProbe, Blocked
<1>6. CASE Tick
  BY <1>6, TickIInv
<1>7. CASE UNCHANGED breakerVars
  BY <1>7 DEF breakerVars, BreakerInv, BreakerTypeOK, Evidence, AgeBelowProbe, Blocked
<1> QED BY <1>1, <1>2, <1>3, <1>4, <1>5, <1>6, <1>7 DEF BreakerNext, Finish

(* The inductive invariant holds in every state of the breaker.            *)
THEOREM BreakerInductive == BreakerSpec => []BreakerInv
BY BreakerStarts, BreakerStep, PTL DEF BreakerSpec

-----------------------------------------------------------------------------
(* Every circuit, attempt and history stays within its type.               *)
THEOREM BreakerTypeCorrect == BreakerSpec => []BreakerTypeOK
<1>1. BreakerInv => BreakerTypeOK
  BY DEF BreakerInv
<1> QED BY <1>1, BreakerInductive, PTL

(* The failures in a row since the last success decide whether a circuit   *)
(* blocks, in whatever order concurrent attempts report (admit_at,         *)
(* record_connect_failure_at, record_connect_success).                     *)
THEOREM Decided == BreakerSpec => []StreakDecides
<1>1. BreakerInv => StreakDecides
  <2> SUFFICES ASSUME BreakerInv, NEW k \in Keys
               PROVE /\ Blocked(k) => \E p \in Policies : p.enabled /\ streak[k] >= Threshold(p)
                     /\ ~Blocked(k) /\ streak[k] > 0 =>
                          \E p \in Policies : p.enabled /\ streak[k] < Threshold(p)
    BY DEF StreakDecides
  <2>1. Evidence(k) /\ circuits[k].st \in {"absent", "closed", "open", "half"}
    BY DEF BreakerInv, BreakerTypeOK, Circuit
  <2>2. ~Blocked(k) => circuits[k].st \in {"absent", "closed"}
    BY <2>1 DEF Blocked
  <2> QED BY <2>1, <2>2 DEF Evidence
<1> QED BY <1>1, BreakerInductive, PTL

(* A step that turns an idle attempt into a probe comes at least the       *)
(* prober's cooldown after the previous probe of that key.                 *)
LEMMA ProbeStep ==
  ASSUME BreakerInv, [BreakerNext]_breakerVars,
         NEW a \in Attempts, NEW k \in Keys, ~ProbeOn(a, k), ProbeOn(a, k)'
  PROVE  sinceProbe[k] >= attempt'[a].policy.cooldown
<1>0. attempt'[a].kind = "probe" /\ attempt'[a].key = k
  BY DEF ProbeOn
<1>1. attempt'[a] # attempt[a]
  BY DEF ProbeOn
<1>2. ASSUME NEW b \in Attempts, NEW j \in Keys, NEW p \in Policies, Admit(b, j, p)
      PROVE  sinceProbe[k] >= attempt'[a].policy.cooldown
  <2>1. b = a
    BY <1>1, <1>2 DEF Admit, BreakerInv, BreakerTypeOK
  <2>2. attempt'[a] = [kind |-> IF Admission(circuits[j], p) = "Allow" THEN "allow" ELSE "probe",
                       key |-> j, policy |-> p]
    BY <1>2, <2>1 DEF Admit, BreakerInv, BreakerTypeOK
  <2>3. j = k /\ attempt'[a].policy = p /\ Admission(circuits[k], p) # "Allow"
    BY <1>0, <2>2
  <2>4. Admission(circuits[k], p) = "HalfOpenProbe"
    BY <1>2, <2>3 DEF Admit, Admission
  <2>5. Elapsed(circuits[k], p) /\ Blocked(k)
    BY <2>4 DEF Admission, Blocked, BreakerInv, BreakerTypeOK, Circuit
  <2>6. circuits[k].age \in Nat /\ sinceProbe[k] \in Nat /\ circuits[k].age <= sinceProbe[k]
    BY <2>5 DEF BreakerInv, BreakerTypeOK, Circuit, AgeBelowProbe
  <2> QED BY <2>3, <2>5, <2>6, CooldownType DEF Elapsed
<1>3. ASSUME NEW b \in Attempts, Finish(b) PROVE FALSE
  <2>1. attempt' = [attempt EXCEPT ![b] = Idle]
    BY <1>3 DEF Finish, ConnectFailed, HeadersReceived, Abandoned
  <2> QED BY <2>1, <1>0, <1>1 DEF BreakerInv, BreakerTypeOK, Idle
<1>4. CASE Tick
  BY <1>4, <1>1 DEF Tick
<1>5. ASSUME NEW b \in Attempts, NEW j \in Keys, NEW p \in Policies, SkipOpen(b, j, p)
      PROVE FALSE
  BY <1>5, <1>1 DEF SkipOpen, breakerVars
<1>6. CASE UNCHANGED breakerVars
  BY <1>6, <1>1 DEF breakerVars
<1> QED BY <1>2, <1>3, <1>4, <1>5, <1>6 DEF BreakerNext

(* Probes of one circuit are spaced by the prober's cooldown, for any      *)
(* number of attempts in flight and any mix of policies.                   *)
THEOREM Spaced == BreakerSpec => ProbeSpacing
<1>1. BreakerInv /\ [BreakerNext]_breakerVars =>
        [\A a \in Attempts, k \in Keys :
           ~ProbeOn(a, k) /\ ProbeOn(a, k)' =>
             sinceProbe[k] >= attempt'[a].policy.cooldown]_breakerVars
  BY ProbeStep
<1> QED BY <1>1, BreakerInductive, PTL DEF BreakerSpec, ProbeSpacing

-----------------------------------------------------------------------------
(* The concurrency limits                                                  *)

StageMatchesPermit == \A r \in Requests : Holds(r) <=> stage[r] = "held"

CopiesBounded ==
  \A r \in Requests : stage[r] = "ruled" /\ seen[r] # NoLimit =>
    /\ route[r].rule \in Rules
    /\ seen[r] <= peak[route[r].rule]

LimitsBounded == \A id \in Rules : limit[id] # NoLimit => limit[id] <= peak[id]

IInv ==
  /\ TypeOK
  /\ StageMatchesPermit
  /\ CopiesBounded
  /\ LimitsBounded
  /\ CountersMatch
  /\ NeverOverPeak

-----------------------------------------------------------------------------
(* Cardinalities of sets of requests.                                      *)

LEMMA CountType ==
  ASSUME NEW S \in SUBSET Requests
  PROVE  IsFiniteSet(S) /\ Cardinality(S) \in Nat
BY RequestsAssumption, FS_Subset, FS_CardinalityType

LEMMA CountGain ==
  ASSUME NEW S \in SUBSET Requests, NEW r \in Requests, r \notin S
  PROVE  Cardinality(S \cup {r}) = Cardinality(S) + 1
BY CountType, FS_AddElement

LEMMA CountLoss ==
  ASSUME NEW S \in SUBSET Requests, NEW r \in S
  PROVE  Cardinality(S \ {r}) = Cardinality(S) - 1 /\ Cardinality(S) > 0
<1>1. IsFiniteSet(S) /\ Cardinality(S) \in Nat
  BY CountType
<1>2. Cardinality(S \ {r}) = Cardinality(S) - 1
  BY <1>1, FS_RemoveElement
<1>3. Cardinality(S \ {r}) \in Nat
  BY CountType
<1> QED BY <1>1, <1>2, <1>3

LEMMA HoldersType ==
  /\ \A id \in Rules : RuleHolders(id) \in SUBSET Requests
  /\ \A c \in Channels : ChannelHolders(c) \in SUBSET Requests
  /\ \A cm \in Channels \X Models : ModelHolders(cm) \in SUBSET Requests
BY DEF RuleHolders, ChannelHolders, ModelHolders

LEMMA LargerType ==
  ASSUME NEW n \in Limits \cup {NoLimit}, NEW m \in Nat
  PROVE  /\ Larger(n, m) \in Nat /\ Larger(n, m) >= m
         /\ n # NoLimit => n <= Larger(n, m)
BY LimitsAssumption DEF Larger

(* What a route and a permit are made of.                                  *)
LEMMA RouteParts ==
  ASSUME NEW rt \in Routes
  PROVE  /\ rt \in Permit /\ rt # NoPermit
         /\ rt.rule \in Rules \cup {NoRule} /\ rt.channel \in Channels
         /\ Observed(rt) \in Channels \X Models
         /\ [rt EXCEPT !.rule = NoRule] \in Permit
         /\ [rt EXCEPT !.rule = NoRule].rule = NoRule
         /\ [rt EXCEPT !.rule = NoRule].channel = rt.channel
         /\ Observed([rt EXCEPT !.rule = NoRule]) = Observed(rt)
BY RoutesAssumption DEF Permit, Observed

-----------------------------------------------------------------------------
(* A request that takes a permit joins exactly the holders of the keys on  *)
(* it.                                                                     *)
LEMMA Joins ==
  ASSUME TypeOK, NEW r \in Requests, ~Holds(r), NEW p \in Permit,
         permit' = [permit EXCEPT ![r] = p]
  PROVE  /\ \A id \in Rules : /\ r \notin RuleHolders(id)
                              /\ RuleHolders(id)' = IF id = p.rule THEN RuleHolders(id) \cup {r}
                                                    ELSE RuleHolders(id)
         /\ \A c \in Channels : /\ r \notin ChannelHolders(c)
                                /\ ChannelHolders(c)' = IF c = p.channel THEN ChannelHolders(c) \cup {r}
                                                        ELSE ChannelHolders(c)
         /\ \A cm \in Channels \X Models :
              /\ r \notin ModelHolders(cm)
              /\ ModelHolders(cm)' = IF cm = Observed(p) THEN ModelHolders(cm) \cup {r}
                                     ELSE ModelHolders(cm)
         /\ \A q \in Requests : Holds(q)' <=> Holds(q) \/ q = r
<1>1. p # NoPermit
  BY RoutesAssumption DEF Permit
<1>2. \A q \in Requests : permit'[q] = IF q = r THEN p ELSE permit[q]
  BY DEF TypeOK
<1>3. \A q \in Requests : Holds(q)' <=> Holds(q) \/ q = r
  BY <1>1, <1>2 DEF Holds
<1>4. ASSUME NEW id \in Rules
      PROVE  /\ r \notin RuleHolders(id)
             /\ RuleHolders(id)' = IF id = p.rule THEN RuleHolders(id) \cup {r} ELSE RuleHolders(id)
  BY <1>2, <1>3 DEF RuleHolders
<1>5. ASSUME NEW c \in Channels
      PROVE  /\ r \notin ChannelHolders(c)
             /\ ChannelHolders(c)' = IF c = p.channel THEN ChannelHolders(c) \cup {r}
                                     ELSE ChannelHolders(c)
  BY <1>2, <1>3 DEF ChannelHolders
<1>6. ASSUME NEW cm \in Channels \X Models
      PROVE  /\ r \notin ModelHolders(cm)
             /\ ModelHolders(cm)' = IF cm = Observed(p) THEN ModelHolders(cm) \cup {r}
                                    ELSE ModelHolders(cm)
  BY <1>2, <1>3 DEF ModelHolders, Observed
<1> QED BY <1>3, <1>4, <1>5, <1>6

(* A request that drops its permit leaves exactly those sets.              *)
LEMMA Leaves ==
  ASSUME TypeOK, NEW r \in Requests, Holds(r),
         permit' = [permit EXCEPT ![r] = NoPermit]
  PROVE  /\ \A id \in Rules : /\ r \in RuleHolders(id) <=> id = permit[r].rule
                              /\ RuleHolders(id)' = RuleHolders(id) \ {r}
         /\ \A c \in Channels : /\ r \in ChannelHolders(c) <=> c = permit[r].channel
                                /\ ChannelHolders(c)' = ChannelHolders(c) \ {r}
         /\ \A cm \in Channels \X Models :
              /\ r \in ModelHolders(cm) <=> cm = Observed(permit[r])
              /\ ModelHolders(cm)' = ModelHolders(cm) \ {r}
         /\ \A q \in Requests : Holds(q)' <=> Holds(q) /\ q # r
<1>2. \A q \in Requests : permit'[q] = IF q = r THEN NoPermit ELSE permit[q]
  BY DEF TypeOK
<1>3. \A q \in Requests : Holds(q)' <=> Holds(q) /\ q # r
  BY <1>2 DEF Holds
<1>4. ASSUME NEW id \in Rules
      PROVE  /\ r \in RuleHolders(id) <=> id = permit[r].rule
             /\ RuleHolders(id)' = RuleHolders(id) \ {r}
  BY <1>2, <1>3 DEF RuleHolders
<1>5. ASSUME NEW c \in Channels
      PROVE  /\ r \in ChannelHolders(c) <=> c = permit[r].channel
             /\ ChannelHolders(c)' = ChannelHolders(c) \ {r}
  BY <1>2, <1>3 DEF ChannelHolders
<1>6. ASSUME NEW cm \in Channels \X Models
      PROVE  /\ r \in ModelHolders(cm) <=> cm = Observed(permit[r])
             /\ ModelHolders(cm)' = ModelHolders(cm) \ {r}
  BY <1>2, <1>3 DEF ModelHolders, Observed
<1> QED BY <1>3, <1>4, <1>5, <1>6
-----------------------------------------------------------------------------
LEMMA InitIInv == Init => IInv
<1> SUFFICES ASSUME Init PROVE IInv
  OBVIOUS
<1>1. TypeOK
  <2>1. peak \in [Rules -> Nat]
    BY LargerType DEF Init
  <2> QED BY <2>1 DEF Init, TypeOK
<1>2. StageMatchesPermit /\ CopiesBounded
  BY DEF Init, StageMatchesPermit, CopiesBounded, Holds
<1>3. LimitsBounded
  BY LargerType DEF Init, LimitsBounded
<1>4. /\ \A id \in Rules : RuleHolders(id) = {}
      /\ \A c \in Channels : ChannelHolders(c) = {}
      /\ \A cm \in Channels \X Models : ModelHolders(cm) = {}
  BY DEF Init, Holds, RuleHolders, ChannelHolders, ModelHolders
<1>5. CountersMatch
  <2>1. Cardinality({}) = 0
    BY FS_EmptySet
  <2>2. /\ \A id \in Rules : rules[id] = 0
        /\ \A c \in Channels : channels[c] = 0
        /\ \A cm \in Channels \X Models : models[cm] = 0
    BY DEF Init
  <2> QED BY <1>4, <2>1, <2>2 DEF CountersMatch
<1>6. NeverOverPeak
  <2> SUFFICES ASSUME NEW id \in Rules PROVE Cardinality(RuleHolders(id)) <= peak[id]
    BY DEF NeverOverPeak
  <2>1. Cardinality({}) = 0 /\ peak[id] \in Nat
    BY <1>1, FS_EmptySet DEF TypeOK
  <2> QED BY <1>4, <2>1
<1> QED BY <1>1, <1>2, <1>3, <1>5, <1>6 DEF IInv

(* A step that moves no permit and no counter keeps the counts.            *)
LEMMA SamePermits ==
  ASSUME IInv, permit' = permit, rules' = rules, channels' = channels, models' = models
  PROVE  /\ CountersMatch'
         /\ \A id \in Rules : RuleHolders(id)' = RuleHolders(id)
         /\ \A r \in Requests : Holds(r)' <=> Holds(r)
<1>1. /\ \A id \in Rules : RuleHolders(id)' = RuleHolders(id)
      /\ \A c \in Channels : ChannelHolders(c)' = ChannelHolders(c)
      /\ \A cm \in Channels \X Models : ModelHolders(cm)' = ModelHolders(cm)
      /\ \A r \in Requests : Holds(r)' <=> Holds(r)
  BY DEF RuleHolders, ChannelHolders, ModelHolders, Holds
<1> QED BY <1>1 DEF IInv, CountersMatch

LEMMA ReadRuleIInv ==
  ASSUME IInv, NEW r \in Requests, NEW rt \in Routes, ReadRule(r, rt)
  PROVE  IInv'
<1>1. TypeOK'
  BY RouteParts DEF ReadRule, IInv, TypeOK
<1>2. CountersMatch' /\ (\A id \in Rules : RuleHolders(id)' = RuleHolders(id))
                    /\ (\A q \in Requests : Holds(q)' <=> Holds(q))
  BY SamePermits DEF ReadRule
<1>3. StageMatchesPermit'
  BY <1>2 DEF ReadRule, IInv, TypeOK, StageMatchesPermit
<1>4. CopiesBounded'
  <2> SUFFICES ASSUME NEW q \in Requests, stage'[q] = "ruled", seen'[q] # NoLimit
               PROVE  route'[q].rule \in Rules /\ seen'[q] <= peak'[route'[q].rule]
    BY DEF CopiesBounded
  <2>1. CASE q = r
    <3>1. route'[q] = rt /\ seen'[q] = IF rt.rule = NoRule THEN NoLimit ELSE limit[rt.rule]
      BY <2>1 DEF ReadRule, IInv, TypeOK
    <3> QED BY <3>1, RouteParts DEF ReadRule, IInv, LimitsBounded
  <2>2. CASE q # r
    BY <2>2 DEF ReadRule, IInv, TypeOK, CopiesBounded
  <2> QED BY <2>1, <2>2
<1> QED BY <1>1, <1>2, <1>3, <1>4 DEF ReadRule, IInv, LimitsBounded, NeverOverPeak

(* Full and Advance only move a request between stages without a permit.   *)
LEMMA StageOnlyIInv ==
  ASSUME IInv, NEW r \in Requests, Full(r) \/ Advance(r)
  PROVE  IInv'
<1>1. PICK s \in {"full", "idle"} : stage' = [stage EXCEPT ![r] = s]
  BY DEF Full, Advance
<1>2. UNCHANGED <<limit, route, seen, permit, rules, channels, models, peak>> /\ stage[r] # "held"
  BY DEF Full, Advance
<1>3. TypeOK'
  BY <1>1, <1>2 DEF IInv, TypeOK
<1>4. CountersMatch' /\ (\A id \in Rules : RuleHolders(id)' = RuleHolders(id))
                    /\ (\A q \in Requests : Holds(q)' <=> Holds(q))
  BY <1>2, SamePermits
<1>5. StageMatchesPermit'
  BY <1>1, <1>2, <1>4 DEF IInv, TypeOK, StageMatchesPermit
<1>6. CopiesBounded'
  BY <1>1, <1>2 DEF IInv, TypeOK, CopiesBounded
<1> QED BY <1>2, <1>3, <1>4, <1>5, <1>6 DEF IInv, LimitsBounded, NeverOverPeak

LEMMA TryAcquireIInv ==
  ASSUME IInv, NEW r \in Requests, TryAcquire(r)
  PROVE  IInv'
<1> DEFINE p == route[r]
<1>1. p \in Routes /\ p \in Permit /\ p.rule \in Rules /\ p.channel \in Channels
      /\ Observed(p) \in Channels \X Models
  BY RouteParts DEF TryAcquire, IInv, TypeOK, CopiesBounded
<1>2. ~Holds(r)
  BY DEF TryAcquire, IInv, StageMatchesPermit
<1>3. TypeOK'
  BY <1>1 DEF TryAcquire, Incremented, IInv, TypeOK
<1>4. permit' = [permit EXCEPT ![r] = p]
  BY DEF TryAcquire
<1>5. StageMatchesPermit'
  BY <1>1, <1>2, <1>4, Joins DEF TryAcquire, IInv, TypeOK, StageMatchesPermit
<1>6. CopiesBounded' /\ LimitsBounded'
  BY DEF TryAcquire, IInv, TypeOK, CopiesBounded, LimitsBounded
<1>7. CountersMatch'
  <2>1. ASSUME NEW id \in Rules PROVE rules'[id] = Cardinality(RuleHolders(id)')
    <3>1. rules[id] = Cardinality(RuleHolders(id))
      BY DEF IInv, CountersMatch
    <3>2. /\ RuleHolders(id)' = IF id = p.rule THEN RuleHolders(id) \cup {r} ELSE RuleHolders(id)
          /\ r \notin RuleHolders(id)
      BY <1>1, <1>2, <1>4, Joins DEF IInv
    <3>3. rules'[id] = IF id = p.rule THEN rules[id] + 1 ELSE rules[id]
      BY <1>1 DEF TryAcquire, Incremented, IInv, TypeOK
    <3>4. Cardinality(RuleHolders(id) \cup {r}) = Cardinality(RuleHolders(id)) + 1
      BY <3>2, HoldersType, CountGain
    <3> QED BY <3>1, <3>2, <3>3, <3>4
  <2>2. ASSUME NEW c \in Channels PROVE channels'[c] = Cardinality(ChannelHolders(c)')
    <3>1. channels[c] = Cardinality(ChannelHolders(c))
      BY DEF IInv, CountersMatch
    <3>2. /\ ChannelHolders(c)' = IF c = p.channel THEN ChannelHolders(c) \cup {r} ELSE ChannelHolders(c)
          /\ r \notin ChannelHolders(c)
      BY <1>1, <1>2, <1>4, Joins DEF IInv
    <3>3. channels'[c] = IF c = p.channel THEN channels[c] + 1 ELSE channels[c]
      BY <1>1 DEF TryAcquire, Incremented, IInv, TypeOK
    <3>4. Cardinality(ChannelHolders(c) \cup {r}) = Cardinality(ChannelHolders(c)) + 1
      BY <3>2, HoldersType, CountGain
    <3> QED BY <3>1, <3>2, <3>3, <3>4
  <2>3. ASSUME NEW cm \in Channels \X Models PROVE models'[cm] = Cardinality(ModelHolders(cm)')
    <3>1. models[cm] = Cardinality(ModelHolders(cm))
      BY DEF IInv, CountersMatch
    <3>2. /\ ModelHolders(cm)' = IF cm = Observed(p) THEN ModelHolders(cm) \cup {r} ELSE ModelHolders(cm)
          /\ r \notin ModelHolders(cm)
      BY <1>1, <1>2, <1>4, Joins DEF IInv
    <3>3. models'[cm] = IF cm = Observed(p) THEN models[cm] + 1 ELSE models[cm]
      BY <1>1 DEF TryAcquire, Incremented, IInv, TypeOK
    <3>4. Cardinality(ModelHolders(cm) \cup {r}) = Cardinality(ModelHolders(cm)) + 1
      BY <3>2, HoldersType, CountGain
    <3> QED BY <3>1, <3>2, <3>3, <3>4
  <2> QED BY <2>1, <2>2, <2>3 DEF CountersMatch
<1>8. NeverOverPeak'
  <2> SUFFICES ASSUME NEW id \in Rules PROVE Cardinality(RuleHolders(id)') <= peak'[id]
    BY DEF NeverOverPeak
  <2>1. peak' = peak /\ peak[id] \in Nat /\ rules[id] \in Nat
    BY DEF TryAcquire, IInv, TypeOK
  <2>2. CASE id = p.rule
    <3>1. rules[id] < seen[r] /\ seen[r] <= peak[id] /\ seen[r] \in Nat
      BY <2>2, LimitsAssumption DEF TryAcquire, HasRoom, IInv, TypeOK, CopiesBounded
    <3>2. Cardinality(RuleHolders(id)') = rules[id] + 1
      BY <2>2, <1>7 DEF TryAcquire, Incremented, IInv, TypeOK, CountersMatch
    <3> QED BY <2>1, <3>1, <3>2
  <2>3. CASE id # p.rule
    BY <2>1, <2>3, <1>1, <1>2, <1>4, Joins DEF IInv, NeverOverPeak
  <2> QED BY <2>2, <2>3
<1> QED BY <1>3, <1>5, <1>6, <1>7, <1>8 DEF IInv

LEMMA TrackIInv ==
  ASSUME IInv, NEW r \in Requests, Track(r)
  PROVE  IInv'
<1> DEFINE p == [route[r] EXCEPT !.rule = NoRule]
<1>1. p \in Permit /\ p.rule = NoRule /\ p.channel = route[r].channel
      /\ Observed(p) = Observed(route[r])
  BY RouteParts DEF IInv, TypeOK
<1>2. ~Holds(r)
  BY DEF Track, IInv, StageMatchesPermit
<1>3. TypeOK'
  BY <1>1, RouteParts DEF Track, Incremented, IInv, TypeOK
<1>4. permit' = [permit EXCEPT ![r] = p]
  BY DEF Track
<1> HIDE DEF p
<1>5. StageMatchesPermit'
  BY <1>1, <1>2, <1>4, Joins DEF Track, IInv, TypeOK, StageMatchesPermit
<1>6. CopiesBounded' /\ LimitsBounded'
  BY DEF Track, IInv, TypeOK, CopiesBounded, LimitsBounded
<1>7. ASSUME NEW id \in Rules PROVE RuleHolders(id)' = RuleHolders(id)
  BY <1>1, <1>2, <1>4, Joins, RoutesAssumption DEF IInv
<1>8. CountersMatch'
  <2>1. ASSUME NEW id \in Rules PROVE rules'[id] = Cardinality(RuleHolders(id)')
    BY <1>7 DEF Track, IInv, CountersMatch
  <2>2. ASSUME NEW c \in Channels PROVE channels'[c] = Cardinality(ChannelHolders(c)')
    <3>1. channels[c] = Cardinality(ChannelHolders(c))
      BY DEF IInv, CountersMatch
    <3>2. /\ ChannelHolders(c)' = IF c = p.channel THEN ChannelHolders(c) \cup {r} ELSE ChannelHolders(c)
          /\ r \notin ChannelHolders(c)
      BY <1>1, <1>2, <1>4, Joins DEF IInv
    <3>3. channels'[c] = IF c = p.channel THEN channels[c] + 1 ELSE channels[c]
      BY <1>1 DEF Track, Incremented, IInv, TypeOK
    <3>4. Cardinality(ChannelHolders(c) \cup {r}) = Cardinality(ChannelHolders(c)) + 1
      BY <3>2, HoldersType, CountGain
    <3> QED BY <3>1, <3>2, <3>3, <3>4
  <2>3. ASSUME NEW cm \in Channels \X Models PROVE models'[cm] = Cardinality(ModelHolders(cm)')
    <3>1. models[cm] = Cardinality(ModelHolders(cm))
      BY DEF IInv, CountersMatch
    <3>2. /\ ModelHolders(cm)' = IF cm = Observed(p) THEN ModelHolders(cm) \cup {r} ELSE ModelHolders(cm)
          /\ r \notin ModelHolders(cm)
      BY <1>1, <1>2, <1>4, Joins DEF IInv
    <3>3. models'[cm] = IF cm = Observed(p) THEN models[cm] + 1 ELSE models[cm]
      BY <1>1 DEF Track, Incremented, IInv, TypeOK
    <3>4. Cardinality(ModelHolders(cm) \cup {r}) = Cardinality(ModelHolders(cm)) + 1
      BY <3>2, HoldersType, CountGain
    <3> QED BY <3>1, <3>2, <3>3, <3>4
  <2> QED BY <2>1, <2>2, <2>3 DEF CountersMatch
<1>9. NeverOverPeak'
  BY <1>7 DEF Track, IInv, NeverOverPeak
<1> QED BY <1>3, <1>5, <1>6, <1>8, <1>9 DEF IInv

LEMMA ReleaseIInv ==
  ASSUME IInv, NEW r \in Requests, Release(r)
  PROVE  IInv'
<1> DEFINE p == permit[r]
<1>1. Holds(r)
  BY DEF Release, IInv, StageMatchesPermit
<1>2. p \in Permit /\ p.rule \in Rules \cup {NoRule} /\ p.channel \in Channels
      /\ Observed(p) \in Channels \X Models
  BY <1>1 DEF IInv, TypeOK, Holds, Permit, Observed
<1>3. TypeOK'
  <2>1. \A n \in Nat : (IF n > 0 THEN n - 1 ELSE 0) \in Nat
    OBVIOUS
  <2> QED BY <1>2, <2>1 DEF Release, Decremented, IInv, TypeOK
<1>4. permit' = [permit EXCEPT ![r] = NoPermit]
  BY DEF Release
<1>5. StageMatchesPermit'
  BY <1>1, <1>4, Leaves DEF Release, IInv, TypeOK, StageMatchesPermit
<1>6. CopiesBounded' /\ LimitsBounded'
  BY DEF Release, IInv, TypeOK, CopiesBounded, LimitsBounded
<1>7. CountersMatch'
  <2>1. ASSUME NEW id \in Rules PROVE rules'[id] = Cardinality(RuleHolders(id)')
    <3>1. rules[id] = Cardinality(RuleHolders(id)) /\ rules[id] \in Nat
      BY DEF IInv, TypeOK, CountersMatch
    <3>2. RuleHolders(id)' = RuleHolders(id) \ {r} /\ (r \in RuleHolders(id) <=> id = p.rule)
      BY <1>1, <1>4, Leaves DEF IInv
    <3>3. CASE id = p.rule
      <4>1. rules'[id] = IF rules[id] > 0 THEN rules[id] - 1 ELSE 0
        BY <3>3, RoutesAssumption DEF Release, Decremented, IInv, TypeOK
      <4> QED BY <3>1, <3>2, <3>3, <4>1, HoldersType, CountLoss
    <3>4. CASE id # p.rule
      <4>1. rules'[id] = rules[id] /\ RuleHolders(id) \ {r} = RuleHolders(id)
        BY <3>2, <3>4 DEF Release, Decremented, IInv, TypeOK
      <4> QED BY <3>1, <3>2, <4>1
    <3> QED BY <3>3, <3>4
  <2>2. ASSUME NEW c \in Channels PROVE channels'[c] = Cardinality(ChannelHolders(c)')
    <3>1. channels[c] = Cardinality(ChannelHolders(c)) /\ channels[c] \in Nat
      BY DEF IInv, TypeOK, CountersMatch
    <3>2. /\ ChannelHolders(c)' = ChannelHolders(c) \ {r}
          /\ r \in ChannelHolders(c) <=> c = p.channel
      BY <1>1, <1>4, Leaves DEF IInv
    <3>3. channels'[c] = IF c # p.channel THEN channels[c]
                         ELSE IF channels[c] > 0 THEN channels[c] - 1 ELSE 0
      BY DEF Release, Decremented, IInv, TypeOK
    <3>4. CASE c = p.channel
      BY <3>1, <3>2, <3>3, <3>4, HoldersType, CountLoss
    <3>5. CASE c # p.channel
      <4>1. ChannelHolders(c) \ {r} = ChannelHolders(c)
        BY <3>2, <3>5
      <4> QED BY <3>1, <3>2, <3>3, <3>5, <4>1
    <3> QED BY <3>4, <3>5
  <2>3. ASSUME NEW cm \in Channels \X Models PROVE models'[cm] = Cardinality(ModelHolders(cm)')
    <3>1. models[cm] = Cardinality(ModelHolders(cm)) /\ models[cm] \in Nat
      BY DEF IInv, TypeOK, CountersMatch
    <3>2. /\ ModelHolders(cm)' = ModelHolders(cm) \ {r}
          /\ r \in ModelHolders(cm) <=> cm = Observed(p)
      BY <1>1, <1>4, Leaves DEF IInv
    <3>3. models'[cm] = IF cm # Observed(p) THEN models[cm]
                        ELSE IF models[cm] > 0 THEN models[cm] - 1 ELSE 0
      BY DEF Release, Decremented, IInv, TypeOK
    <3>4. CASE cm = Observed(p)
      BY <3>1, <3>2, <3>3, <3>4, HoldersType, CountLoss
    <3>5. CASE cm # Observed(p)
      <4>1. ModelHolders(cm) \ {r} = ModelHolders(cm)
        BY <3>2, <3>5
      <4> QED BY <3>1, <3>2, <3>3, <3>5, <4>1
    <3> QED BY <3>4, <3>5
  <2> QED BY <2>1, <2>2, <2>3 DEF CountersMatch
<1>8. NeverOverPeak'
  <2> SUFFICES ASSUME NEW id \in Rules PROVE Cardinality(RuleHolders(id)') <= peak'[id]
    BY DEF NeverOverPeak
  <2>1. RuleHolders(id)' = RuleHolders(id) \ {r}
    BY <1>1, <1>4, Leaves DEF IInv
  <2>2. Cardinality(RuleHolders(id)) <= peak[id] /\ peak[id] \in Nat /\ peak' = peak
    BY DEF Release, IInv, TypeOK, NeverOverPeak
  <2>3. CASE r \in RuleHolders(id)
    BY <2>1, <2>2, <2>3, HoldersType, CountType, CountLoss
  <2>4. CASE r \notin RuleHolders(id)
    <3>1. RuleHolders(id) \ {r} = RuleHolders(id)
      BY <2>4
    <3> QED BY <2>1, <2>2, <3>1
  <2> QED BY <2>3, <2>4
<1> QED BY <1>3, <1>5, <1>6, <1>7, <1>8 DEF IInv

LEMMA SetLimitIInv ==
  ASSUME IInv, NEW id \in Rules, NEW n \in Limits \cup {NoLimit}, SetLimit(id, n)
  PROVE  IInv'
<1>1. /\ TypeOK'
      /\ \A j \in Rules : peak[j] <= peak'[j] /\ peak[j] \in Nat /\ peak'[j] \in Nat
  BY LimitsAssumption DEF SetLimit, Larger, IInv, TypeOK
<1>2. CountersMatch' /\ (\A j \in Rules : RuleHolders(j)' = RuleHolders(j))
                    /\ (\A q \in Requests : Holds(q)' <=> Holds(q))
  BY SamePermits DEF SetLimit
<1>3. StageMatchesPermit'
  BY <1>2 DEF SetLimit, IInv, StageMatchesPermit
<1>4. CopiesBounded'
  <2> SUFFICES ASSUME NEW r \in Requests, stage'[r] = "ruled", seen'[r] # NoLimit
               PROVE  route'[r].rule \in Rules /\ seen'[r] <= peak'[route'[r].rule]
    BY DEF CopiesBounded
  <2>1. stage[r] = "ruled" /\ seen'[r] = seen[r] /\ route'[r] = route[r]
    BY DEF SetLimit
  <2>2. route[r].rule \in Rules /\ seen[r] <= peak[route[r].rule]
    BY <2>1 DEF IInv, CopiesBounded
  <2>3. seen[r] \in Nat
    BY <2>1, LimitsAssumption DEF IInv, TypeOK
  <2> QED BY <1>1, <2>1, <2>2, <2>3
<1>5. LimitsBounded'
  BY <1>1, LimitsAssumption DEF SetLimit, Larger, IInv, TypeOK, LimitsBounded
<1>6. NeverOverPeak'
  <2> SUFFICES ASSUME NEW j \in Rules PROVE Cardinality(RuleHolders(j)') <= peak'[j]
    BY DEF NeverOverPeak
  <2>1. Cardinality(RuleHolders(j)) \in Nat
    BY HoldersType, CountType
  <2> QED BY <2>1, <1>1, <1>2 DEF IInv, NeverOverPeak
<1> QED BY <1>1, <1>2, <1>3, <1>4, <1>5, <1>6 DEF IInv

LEMMA StutterIInv == IInv /\ UNCHANGED limitVars => IInv'
<1> SUFFICES ASSUME IInv, UNCHANGED limitVars PROVE IInv'
  OBVIOUS
<1>1. CountersMatch' /\ (\A id \in Rules : RuleHolders(id)' = RuleHolders(id))
                    /\ (\A q \in Requests : Holds(q)' <=> Holds(q))
  BY SamePermits DEF limitVars
<1> QED BY <1>1 DEF limitVars, IInv, TypeOK, StageMatchesPermit, CopiesBounded,
                    LimitsBounded, NeverOverPeak

LEMMA StepIInv == IInv /\ [Next]_limitVars => IInv'
<1> SUFFICES ASSUME IInv, [Next]_limitVars PROVE IInv'
  OBVIOUS
<1>1. ASSUME NEW r \in Requests, NEW rt \in Routes, ReadRule(r, rt) PROVE IInv'
  BY <1>1, ReadRuleIInv
<1>2. ASSUME NEW r \in Requests, TryAcquire(r) PROVE IInv'
  BY <1>2, TryAcquireIInv
<1>3. ASSUME NEW r \in Requests, Full(r) \/ Advance(r) PROVE IInv'
  BY <1>3, StageOnlyIInv
<1>4. ASSUME NEW r \in Requests, Track(r) PROVE IInv'
  BY <1>4, TrackIInv
<1>5. ASSUME NEW r \in Requests, Release(r) PROVE IInv'
  BY <1>5, ReleaseIInv
<1>6. ASSUME NEW id \in Rules, NEW n \in Limits \cup {NoLimit}, SetLimit(id, n) PROVE IInv'
  BY <1>6, SetLimitIInv
<1>7. CASE UNCHANGED limitVars
  BY <1>7, StutterIInv
<1> QED BY <1>1, <1>2, <1>3, <1>4, <1>5, <1>6, <1>7 DEF Next

(* The inductive invariant holds in every state.                           *)
THEOREM Invariance == Spec => []IInv
BY InitIInv, StepIInv, PTL DEF Spec

(* Every variable of the limits stays within its type.                     *)
THEOREM TypeCorrect == Spec => []TypeOK
<1>1. IInv => TypeOK
  BY DEF IInv
<1> QED BY <1>1, Invariance, PTL

(* Each counter of ActiveCounters is the number of live permits it stands  *)
(* for, for any number of requests, rules and reconfigurations.            *)
THEOREM CountersCorrect == Spec => []CountersMatch
<1>1. IInv => CountersMatch
  BY DEF IInv
<1> QED BY <1>1, Invariance, PTL

(* A rule never has more holders than the largest limit it ever had.       *)
THEOREM PeakRespected == Spec => []NeverOverPeak
<1>1. IInv => NeverOverPeak
  BY DEF IInv
<1> QED BY <1>1, Invariance, PTL

-----------------------------------------------------------------------------
(* The refinement: ticket and inside are state functions of the counters'  *)
(* specification, and every step of it is a step of the pool or leaves     *)
(* them alone.                                                             *)

TicketOf(r) ==
  IF stage[r] = "ruled" /\ seen[r] # NoLimit
  THEN [rule |-> route[r].rule, max |-> seen[r]]
  ELSE [rule |-> "none"]

Tickets == [r \in Requests |-> TicketOf(r)]
Insides == [id \in Rules |-> RuleHolders(id)]

(* The pool's actions and state, over Tickets and Insides.                 *)
LEMMA PoolState ==
  /\ Pool!poolVars = <<limit, Tickets, Insides>>
  /\ (Pool!poolVars)' = <<limit', Tickets', Insides'>>
  /\ \A r \in Requests : Tickets[r] = TicketOf(r)
  /\ \A id \in Rules : Insides[id] = RuleHolders(id)
BY DEF Pool!poolVars, Tickets, Insides, TicketOf

LEMMA InitPool == Init => Pool!Init
<1> SUFFICES ASSUME Init PROVE Pool!Init
  OBVIOUS
<1>1. Tickets = [r \in Requests |-> Pool!NoTicket]
  BY DEF Init, Tickets, TicketOf, Pool!NoTicket
<1>2. Insides = [id \in Rules |-> {}]
  BY DEF Init, Insides, RuleHolders, Holds
<1> QED BY <1>1, <1>2 DEF Init, Pool!Init, Tickets, Insides, TicketOf

(* A step about one request changes at most that request's ticket.         *)
LEMMA TicketStep ==
  ASSUME NEW r \in Requests, TypeOK, NEW s,
         stage' = [stage EXCEPT ![r] = s],
         \A q \in Requests : q # r => seen'[q] = seen[q] /\ route'[q] = route[q]
  PROVE  Tickets' = [Tickets EXCEPT ![r] = TicketOf(r)']
BY DEF TypeOK, Tickets, TicketOf

LEMMA ReadRulePool ==
  ASSUME IInv, NEW r \in Requests, NEW rt \in Routes, ReadRule(r, rt)
  PROVE  [Pool!Next]_(Pool!poolVars)
<1>1. Insides' = Insides /\ limit' = limit /\ permit' = permit
  BY DEF ReadRule, Insides, RuleHolders, Holds
<1>2. Tickets' = [Tickets EXCEPT ![r] = TicketOf(r)']
  BY TicketStep DEF ReadRule, IInv, TypeOK
<1>3. TicketOf(r) = Pool!NoTicket
  BY DEF ReadRule, TicketOf, Pool!NoTicket
<1>4. TicketOf(r)' = IF seen'[r] # NoLimit THEN [rule |-> rt.rule, max |-> seen'[r]]
                     ELSE Pool!NoTicket
  BY DEF ReadRule, IInv, TypeOK, TicketOf, Pool!NoTicket
<1>5. CASE seen'[r] = NoLimit
  <2>1. Tickets' = Tickets
    BY <1>2, <1>3, <1>4, <1>5 DEF Tickets
  <2> QED BY <1>1, <2>1, PoolState
<1>6. CASE seen'[r] # NoLimit
  <2>1. rt.rule \in Rules /\ seen'[r] = limit[rt.rule]
    BY <1>6, RouteParts DEF ReadRule, IInv, TypeOK
  <2>2. \A j \in Rules : r \notin Insides[j]
    BY DEF ReadRule, IInv, StageMatchesPermit, Insides, RuleHolders
  <2>3. Pool!Ask(r, rt.rule)
    BY <1>1, <1>2, <1>3, <1>4, <1>6, <2>1, <2>2, PoolState
       DEF Pool!Ask, Tickets, Insides, TicketOf
  <2> QED BY <2>1, <2>3 DEF Pool!Next
<1> QED BY <1>5, <1>6

LEMMA TryAcquirePool ==
  ASSUME IInv, NEW r \in Requests, TryAcquire(r)
  PROVE  \E id \in Rules : Pool!Enter(r, id)
<1>0. PICK id \in Rules : id = route[r].rule
  BY RouteParts DEF TryAcquire, IInv, TypeOK, CopiesBounded
<1>1. route[r] \in Permit
  BY RouteParts DEF IInv, TypeOK
<1>2. TicketOf(r) = [rule |-> id, max |-> seen[r]] /\ TicketOf(r)' = Pool!NoTicket
  BY <1>0 DEF TryAcquire, IInv, TypeOK, TicketOf, Pool!NoTicket
<1>3. Tickets' = [Tickets EXCEPT ![r] = Pool!NoTicket]
  <2>1. Tickets' = [Tickets EXCEPT ![r] = TicketOf(r)']
    BY TicketStep DEF TryAcquire, IInv
  <2> QED BY <1>2, <2>1
<1>4. Insides' = [Insides EXCEPT ![id] = @ \cup {r}]
  <2>1. ~Holds(r) /\ permit' = [permit EXCEPT ![r] = route[r]]
    BY DEF TryAcquire, IInv, StageMatchesPermit
  <2>2. \A j \in Rules : RuleHolders(j)' = IF j = id THEN RuleHolders(j) \cup {r} ELSE RuleHolders(j)
    BY <1>0, <1>1, <2>1, Joins DEF IInv
  <2> QED BY <2>2 DEF Insides
<1>5. Cardinality(Insides[id]) < seen[r]
  BY <1>0 DEF TryAcquire, HasRoom, IInv, CountersMatch, Insides
<1>6. TicketOf(r) # Pool!NoTicket
  BY <1>2 DEF Pool!NoTicket
<1>7. Pool!Cardinality(Insides[id]) = Cardinality(Insides[id])
  BY DEF Pool!Cardinality, Cardinality
<1>8. limit' = limit
  BY DEF TryAcquire
<1>9. Pool!Enter(r, id)
  BY <1>0, <1>2, <1>3, <1>4, <1>5, <1>6, <1>7, <1>8, PoolState
     DEF Pool!Enter, Tickets, Insides, TicketOf
<1> QED BY <1>9

LEMMA FullPool ==
  ASSUME IInv, NEW r \in Requests, Full(r)
  PROVE  \E id \in Rules : Pool!Refuse(r, id)
<1>0. PICK id \in Rules : id = route[r].rule
  BY RouteParts DEF Full, IInv, TypeOK, CopiesBounded
<1>2. TicketOf(r) = [rule |-> id, max |-> seen[r]] /\ TicketOf(r)' = Pool!NoTicket
  BY <1>0 DEF Full, IInv, TypeOK, TicketOf, Pool!NoTicket
<1>3. Tickets' = [Tickets EXCEPT ![r] = Pool!NoTicket]
  <2>1. Tickets' = [Tickets EXCEPT ![r] = TicketOf(r)']
    BY TicketStep DEF Full, IInv
  <2> QED BY <1>2, <2>1
<1>4. Insides' = Insides
  BY DEF Full, Insides, RuleHolders, Holds
<1>5. Cardinality(Insides[id]) >= seen[r]
  <2>1. rules[id] = Cardinality(Insides[id]) /\ rules[id] \in Nat /\ seen[r] \in Nat
    BY <1>0, LimitsAssumption DEF Full, IInv, TypeOK, CountersMatch, Insides
  <2> QED BY <1>0, <2>1 DEF Full, HasRoom
<1>6. TicketOf(r) # Pool!NoTicket
  BY <1>2 DEF Pool!NoTicket
<1>7. Pool!Cardinality(Insides[id]) = Cardinality(Insides[id])
  BY DEF Pool!Cardinality, Cardinality
<1>8. limit' = limit
  BY DEF Full
<1>9. Pool!Refuse(r, id)
  BY <1>0, <1>2, <1>3, <1>4, <1>5, <1>6, <1>7, <1>8, PoolState
     DEF Pool!Refuse, Tickets, Insides, TicketOf
<1> QED BY <1>9

LEMMA UncountedPool ==
  ASSUME IInv, NEW r \in Requests, Track(r) \/ Advance(r)
  PROVE  UNCHANGED Pool!poolVars
<1>1. limit' = limit
  BY DEF Track, Advance
<1>2. Tickets' = Tickets
  <2>1. PICK s \in {"held", "idle"} : stage' = [stage EXCEPT ![r] = s]
    BY DEF Track, Advance
  <2>2. Tickets' = [Tickets EXCEPT ![r] = TicketOf(r)']
    BY <2>1, TicketStep DEF Track, Advance, IInv
  <2>3. TicketOf(r)' = TicketOf(r)
    BY <2>1 DEF Track, Advance, IInv, TypeOK, TicketOf
  <2> QED BY <2>2, <2>3 DEF Tickets
<1>3. Insides' = Insides
  <2>1. CASE Track(r)
    <3> DEFINE p == [route[r] EXCEPT !.rule = NoRule]
    <3>1. p \in Permit /\ p.rule = NoRule
      BY RouteParts DEF IInv, TypeOK
    <3>2. ~Holds(r) /\ permit' = [permit EXCEPT ![r] = p]
      BY <2>1 DEF Track, IInv, StageMatchesPermit
    <3> HIDE DEF p
    <3>3. \A id \in Rules : RuleHolders(id)' = RuleHolders(id)
      BY <3>1, <3>2, Joins, RoutesAssumption DEF IInv
    <3> QED BY <3>3 DEF Insides
  <2>2. CASE Advance(r)
    BY <2>2 DEF Advance, Insides, RuleHolders, Holds
  <2> QED BY <2>1, <2>2
<1> QED BY <1>1, <1>2, <1>3, PoolState

LEMMA ReleasePool ==
  ASSUME IInv, NEW r \in Requests, Release(r)
  PROVE  [Pool!Next]_(Pool!poolVars)
<1>1. limit' = limit /\ permit' = [permit EXCEPT ![r] = NoPermit]
  BY DEF Release
<1>2. Holds(r) /\ permit[r].rule \in Rules \cup {NoRule}
  BY DEF Release, IInv, TypeOK, StageMatchesPermit, Holds, Permit
<1>3. Tickets' = Tickets
  <2>1. Tickets' = [Tickets EXCEPT ![r] = TicketOf(r)']
    BY TicketStep DEF Release, IInv
  <2>2. TicketOf(r)' = TicketOf(r)
    BY DEF Release, IInv, TypeOK, TicketOf
  <2> QED BY <2>1, <2>2 DEF Tickets
<1>4. \A id \in Rules : /\ r \in RuleHolders(id) <=> id = permit[r].rule
                        /\ RuleHolders(id)' = RuleHolders(id) \ {r}
  BY <1>1, <1>2, Leaves DEF IInv
<1>5. CASE permit[r].rule \in Rules
  <2>0. PICK id \in Rules : id = permit[r].rule
    BY <1>5
  <2>1. Insides' = [Insides EXCEPT ![id] = @ \ {r}]
    <3>1. \A j \in Rules : RuleHolders(j)' = IF j = id THEN RuleHolders(j) \ {r} ELSE RuleHolders(j)
      BY <1>4, <2>0
    <3> QED BY <3>1 DEF Insides
  <2>2. r \in Insides[id]
    BY <1>4, <2>0 DEF Insides
  <2>3. Pool!Leave(r, id)
    BY <1>1, <1>3, <2>1, <2>2 DEF Pool!Leave, Tickets, Insides, TicketOf
  <2> QED BY <2>3 DEF Pool!Next
<1>6. CASE permit[r].rule = NoRule
  <2>1. Insides' = Insides
    BY <1>4, <1>6, RoutesAssumption DEF Insides
  <2> QED BY <1>1, <1>3, <2>1, PoolState
<1> QED BY <1>2, <1>5, <1>6

LEMMA SetLimitPool ==
  ASSUME NEW id \in Rules, NEW n \in Limits \cup {NoLimit}, SetLimit(id, n)
  PROVE  Pool!Configure(id, n)
<1>1. Tickets' = Tickets /\ Insides' = Insides
  BY DEF SetLimit, Tickets, TicketOf, Insides, RuleHolders, Holds
<1> QED BY <1>1 DEF SetLimit, Pool!Configure, Tickets, TicketOf, Insides

LEMMA StepPool == IInv /\ [Next]_limitVars => [Pool!Next]_(Pool!poolVars)
<1> SUFFICES ASSUME IInv, [Next]_limitVars PROVE [Pool!Next]_(Pool!poolVars)
  OBVIOUS
<1>1. ASSUME NEW r \in Requests, NEW rt \in Routes, ReadRule(r, rt)
      PROVE  [Pool!Next]_(Pool!poolVars)
  BY <1>1, ReadRulePool
<1>2. ASSUME NEW r \in Requests, TryAcquire(r) PROVE [Pool!Next]_(Pool!poolVars)
  BY <1>2, TryAcquirePool DEF Pool!Next
<1>3. ASSUME NEW r \in Requests, Full(r) PROVE [Pool!Next]_(Pool!poolVars)
  BY <1>3, FullPool DEF Pool!Next
<1>4. ASSUME NEW r \in Requests, Track(r) \/ Advance(r) PROVE [Pool!Next]_(Pool!poolVars)
  BY <1>4, UncountedPool
<1>5. ASSUME NEW r \in Requests, Release(r) PROVE [Pool!Next]_(Pool!poolVars)
  BY <1>5, ReleasePool
<1>6. ASSUME NEW id \in Rules, NEW n \in Limits \cup {NoLimit}, SetLimit(id, n)
      PROVE  [Pool!Next]_(Pool!poolVars)
  BY <1>6, SetLimitPool DEF Pool!Next
<1>7. CASE UNCHANGED limitVars
  <2>1. limit' = limit /\ Tickets' = Tickets /\ Insides' = Insides
    BY <1>7 DEF limitVars, Tickets, TicketOf, Insides, RuleHolders, Holds
  <2> QED BY <2>1, PoolState
<1> QED BY <1>1, <1>2, <1>3, <1>4, <1>5, <1>6, <1>7 DEF Next

(* The counters implement the pool of permits: a request is let in exactly *)
(* when fewer requests hold the rule than the limit it copied.             *)
THEOREM Refinement == Spec => ImplementsPool
BY InitPool, StepPool, Invariance, PTL DEF Spec, Pool!Spec, ImplementsPool
=============================================================================
