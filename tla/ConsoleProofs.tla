---------------------------- MODULE ConsoleProofs ----------------------------
(***************************************************************************)
(* Proofs about what runs in the console's process: the supervision of the *)
(* Rust proxy and the bridge to it (RustProcess, RustBridge), and the      *)
(* TypeScript gateway's handler with its response observer (TsGateway,     *)
(* ResponseObserver). The two share nothing but the process.               *)
(*                                                                         *)
(* For any number of processes the operating system keeps, any             *)
(* MAX_RESTARTS and any number of races and reconnect timers: no order of  *)
(* crashes, callbacks, timers and requests leaves a second proxy running,  *)
(* the bridge asks for a restart only after a long outage and never stops  *)
(* polling, and the two composed only take the supervisor's steps.         *)
(*                                                                         *)
(* For any routes, policies and fallbacks, any number of chunks and any    *)
(* number of changes that other requests make to the cooldowns: the        *)
(* handler runs off its queue only because of such a change, the row ends  *)
(* with the last attempt, the first 429 and a response, and what is        *)
(* recorded as complete is.                                                *)
(***************************************************************************)
EXTENDS RustBridge, TsGateway, FiniteSetTheorems, SequenceTheorems, NaturalsInduction,
        WellFoundedInduction, TLAPS

ProcState == {"none", "live", "signalled", "exiting", "killing", "exited", "killed"}

SupervisorTypeOK ==
  /\ proc \in [Slots -> ProcState]
  /\ current \in Slots
  /\ newest \in {current, NoProcess}
  /\ restarts \in Nat /\ timers \in Nat /\ raced \in Nat
  /\ replacing \in Slots \cup {NoProcess}
  /\ stopped \in BOOLEAN /\ gaveUp \in BOOLEAN

\* The process _proc names is over or runs; without a doRestart in flight it is the newest,
\* and only the end of everything sends that one a signal.
CurrentKept ==
  /\ proc[current] # "none"
  /\ ~stopped /\ replacing = NoProcess => newest = current
  /\ ~stopped /\ newest # NoProcess => proc[newest] # "signalled"

\* A start is due: the newest process is over, and no timer stands for it.
Orphaned ==
  /\ newest # NoProcess
  /\ \/ proc[newest] \in {"exiting", "killing"}
     \/ proc[newest] \in {"exited", "killed"} /\ timers = 0
Due == IF Orphaned THEN 1 ELSE 0

\* A doRestart in flight will start one.
Pledged == IF replacing # NoProcess THEN 1 ELSE 0

\* Processes that run and starts that are still to come, whoever asks for them.
Accounted == ~stopped => Cardinality(Running) + timers + Pledged + Due <= 1 + raced

SupervisorInv == SupervisorTypeOK /\ CurrentKept /\ Accounted /\ OneUnlessRaced

-----------------------------------------------------------------------------
BridgeTypeOK ==
  /\ listener \in Slots \cup {NoProcess}
  /\ link \in {"idle", "opening", "open"}
  /\ peer \in Slots \cup {NoProcess}
  /\ since \in {"never", "short", "long"}
  /\ alarms \in Nat
  /\ armed \in BOOLEAN /\ waiting \in BOOLEAN /\ restartingRust \in BOOLEAN
  /\ outage \in {"none", "short", "long"}
  /\ autos \in Nat

\* The age the bridge reads is that of the outage, as long as there is one.
AgeTold == link # "open" => outage = IF since = "never" THEN "none" ELSE since

\* A bridge without a socket has a timer that will open one, and so has one that takes a
\* timer for armed and sets none.
KeepsPolling == (link = "idle" => alarms > 0) /\ (armed => alarms > 0)

BridgeInv == BridgeTypeOK /\ AgeTold /\ KeepsPolling

-----------------------------------------------------------------------------
(* Processes that run                                                      *)

LEMMA RunningFinite == IsFiniteSet(Running) /\ Cardinality(Running) \in Nat
<1>1. IsFiniteSet(Slots) /\ Running \in SUBSET Slots
  BY SlotsAssumption DEF Running
<1> QED BY <1>1, FS_Subset, FS_CardinalityType

LEMMA RunningMore ==
  ASSUME NEW p \in Slots, Running' = Running \cup {p}, p \notin Running
  PROVE  Cardinality(Running)' = Cardinality(Running) + 1
BY RunningFinite, FS_AddElement

LEMMA RunningLess ==
  ASSUME NEW p \in Slots, Running' = Running \ {p}, p \in Running
  PROVE  Cardinality(Running)' = Cardinality(Running) - 1
BY RunningFinite, FS_RemoveElement

\* doStart adds one process, which is the newest and runs, whatever it leaves behind.
LEMMA Starts ==
  ASSUME SupervisorTypeOK, NEW p \in Slots, DoStart(p, proc)
  PROVE  /\ proc' \in [Slots -> ProcState] /\ proc'[p] = "live"
         /\ current' = p /\ newest' = p /\ gaveUp' = FALSE
         /\ Cardinality(Running)' = Cardinality(Running) + 1
         /\ CurrentKept' /\ Due' = 0
<1>1. p \in Spare
  BY DEF DoStart, Free
<1>2. /\ current' = p /\ newest' = p /\ gaveUp' = FALSE
      /\ proc' = [q \in Slots |-> IF q = p THEN "live"
                                  ELSE IF proc[q] \in {"exited", "killed"} THEN "none" ELSE proc[q]]
  BY DEF DoStart
<1>3. proc' \in [Slots -> ProcState] /\ proc'[p] = "live"
  BY <1>2 DEF SupervisorTypeOK, ProcState
<1>4. Running' = Running \cup {p} /\ p \notin Running
  BY <1>1, <1>2 DEF Running, Spare
<1>5. Cardinality(Running)' = Cardinality(Running) + 1
  BY <1>4, RunningMore
<1>6. CurrentKept' /\ Due' = 0
  BY <1>2, <1>3 DEF CurrentKept, Due, Orphaned
<1> QED BY <1>2, <1>3, <1>5, <1>6

-----------------------------------------------------------------------------
(* The supervisor                                                          *)

LEMMA SupervisorInit == Init => SupervisorInv
<1> SUFFICES ASSUME Init PROVE SupervisorInv
  OBVIOUS
<1>1. current \in Slots /\ proc = [q \in Slots |-> IF q = current THEN "live" ELSE "none"]
  BY SlotsAssumption DEF Init
<1>2. SupervisorTypeOK /\ CurrentKept
  BY <1>1 DEF Init, SupervisorTypeOK, CurrentKept, ProcState
<1>3. Running = {current}
  BY <1>1 DEF Running
<1>4. Cardinality(Running) = 1
  BY <1>3, FS_Singleton
<1>5. Pledged = 0 /\ Due = 0
  BY <1>1 DEF Init, Pledged, Due, Orphaned
<1> QED BY <1>2, <1>4, <1>5 DEF Init, SupervisorInv, Accounted, OneUnlessRaced

\* While the console runs, that everything is accounted for is all there is to show.
LEMMA AccountedSuffices ==
  ASSUME SupervisorTypeOK', ~stopped', Accounted'
  PROVE  OneUnlessRaced'
<1>1. Cardinality(Running)' \in Nat
  <2>1. IsFiniteSet(Slots) /\ Running' \in SUBSET Slots
    BY SlotsAssumption DEF Running
  <2> QED BY <2>1, FS_Subset, FS_CardinalityType
<1>2. Pledged' \in {0, 1} /\ Due' \in {0, 1} /\ timers' \in Nat /\ raced' \in Nat
  BY DEF Pledged, Due, SupervisorTypeOK
<1> QED BY <1>1, <1>2 DEF Accounted, OneUnlessRaced

LEMMA SupervisorStep == SupervisorInv /\ [Next]_supervisorVars => SupervisorInv'
<1> SUFFICES ASSUME SupervisorInv, [Next]_supervisorVars PROVE SupervisorInv'
  OBVIOUS
<1>t. SupervisorTypeOK /\ CurrentKept /\ Accounted /\ OneUnlessRaced
  BY DEF SupervisorInv
<1>n. /\ Cardinality(Running) \in Nat /\ timers \in Nat /\ raced \in Nat /\ restarts \in Nat
      /\ Pledged \in {0, 1} /\ Due \in {0, 1} /\ NoProcess \notin Slots
      /\ proc \in [Slots -> ProcState] /\ current \in Slots /\ newest \in {current, NoProcess}
  BY <1>t, RunningFinite, SlotsAssumption DEF SupervisorTypeOK, Pledged, Due
<1>1. ASSUME NEW p \in Slots, NEW coded \in BOOLEAN, Dies(p, coded)
      PROVE  SupervisorInv'
  <2>1. /\ proc[p] \in {"live", "signalled"} /\ proc'[p] \in {"exiting", "killing"}
        /\ \A q \in Slots : q # p => proc'[q] = proc[q]
        /\ proc' \in [Slots -> ProcState]
        /\ UNCHANGED <<current, newest, restarts, timers, replacing, stopped, raced, gaveUp>>
    BY <1>1, <1>n DEF Dies, ProcState
  <2>2. SupervisorTypeOK' /\ CurrentKept'
    BY <1>t, <1>n, <2>1 DEF SupervisorTypeOK, CurrentKept
  <2>3. CASE proc[p] = "live"
    <3>1. Running' = Running \ {p} /\ p \in Running
      BY <2>1, <2>3 DEF Running
    <3>2. Cardinality(Running)' = Cardinality(Running) - 1
      BY <3>1, RunningLess
    <3>3. Due' <= Due + 1 /\ Due' \in {0, 1} /\ Pledged' = Pledged
      BY <1>n, <2>1 DEF Due, Pledged
    <3> QED BY <1>t, <1>n, <2>1, <2>2, <3>2, <3>3 DEF SupervisorInv, Accounted, OneUnlessRaced
  <2>4. CASE proc[p] = "signalled"
    <3>1. Running' = Running
      BY <2>1, <2>4 DEF Running
    <3>2. ~stopped => Due' = Due
      <4>1. ~stopped => newest # p
        BY <1>t, <1>n, <2>4 DEF CurrentKept
      <4>2. ~stopped => (Orphaned' <=> Orphaned)
        BY <1>n, <2>1, <4>1 DEF Orphaned
      <4> QED BY <4>2 DEF Due
    <3>3. Pledged' = Pledged
      BY <2>1 DEF Pledged
    <3> QED BY <1>t, <1>n, <2>1, <2>2, <3>1, <3>2, <3>3 DEF SupervisorInv, Accounted, OneUnlessRaced
  <2> QED BY <2>1, <2>3, <2>4
<1>2. ASSUME NEW p \in Slots, Exited(p)
      PROVE  SupervisorInv'
  <2>1. /\ ~stopped /\ proc[p] \in {"exiting", "killing"}
        /\ proc'[p] \in {"none", "exited", "killed"}
        /\ p = current => proc'[p] \in {"exited", "killed"}
        /\ \A q \in Slots : q # p => proc'[q] = proc[q]
        /\ proc' \in [Slots -> ProcState]
        /\ UNCHANGED <<current, newest, replacing, stopped, raced>>
    BY <1>2, <1>n DEF Exited, Reaped, ProcState
  <2>2. restarts' \in Nat /\ timers' \in Nat /\ gaveUp' \in BOOLEAN
    <3>1. gaveUp' = TRUE \/ gaveUp' = gaveUp
      BY <1>2 DEF Exited
    <3>2. gaveUp' \in BOOLEAN
      BY <1>t, <3>1 DEF SupervisorTypeOK
    <3>3. (restarts' = restarts + 1 \/ restarts' = restarts) /\ (timers' = timers + 1 \/ timers' = timers)
      BY <1>2 DEF Exited
    <3> QED BY <1>n, <3>2, <3>3
  <2>3. SupervisorTypeOK' /\ CurrentKept'
    BY <1>t, <1>n, <2>1, <2>2 DEF SupervisorTypeOK, CurrentKept
  <2>4. Running' = Running
    BY <2>1 DEF Running
  <2>5. Pledged' = Pledged
    BY <2>1 DEF Pledged
  <2>6. CASE newest = p
    <3>1. Due = 1
      BY <1>n, <2>1, <2>6 DEF Due, Orphaned
    <3>2. \/ timers' = timers + 1
          \/ timers' = timers
      BY <1>2, <2>6 DEF Exited
    <3>3. timers' = timers + 1 => Due' = 0
      BY <1>n, <2>1, <2>6 DEF Due, Orphaned
    <3>4. Due' \in {0, 1}
      BY DEF Due
    <3>5. Accounted'
      BY <1>t, <1>n, <2>1, <2>4, <2>5, <3>1, <3>2, <3>3, <3>4 DEF Accounted
    <3> QED BY <2>1, <2>3, <3>5, AccountedSuffices DEF SupervisorInv
  <2>7. CASE newest # p
    <3>1. timers' = timers
      BY <1>2, <2>7 DEF Exited
    <3>2. Orphaned' <=> Orphaned
      BY <1>n, <2>1, <2>7, <3>1 DEF Orphaned
    <3>3. Accounted'
      BY <1>t, <1>n, <2>1, <2>4, <2>5, <3>1, <3>2 DEF Accounted, Due
    <3> QED BY <2>1, <2>3, <3>3, AccountedSuffices DEF SupervisorInv
  <2> QED BY <2>6, <2>7
<1>3. ASSUME NEW p \in Slots, TimerFires(p)
      PROVE  SupervisorInv'
  <2>1. /\ ~stopped /\ timers > 0 /\ timers' = timers - 1 /\ DoStart(p, proc)
        /\ UNCHANGED <<restarts, replacing, stopped, raced>>
    BY <1>3 DEF TimerFires
  <2>2. /\ proc' \in [Slots -> ProcState] /\ current' = p /\ newest' = p /\ gaveUp' = FALSE
        /\ Cardinality(Running)' = Cardinality(Running) + 1
        /\ CurrentKept' /\ Due' = 0
    BY <1>t, <2>1, Starts
  <2>3. SupervisorTypeOK' /\ Pledged' = Pledged
    <3>1. timers' \in Nat /\ Pledged' = Pledged
      BY <1>n, <2>1 DEF Pledged
    <3> QED BY <1>t, <2>1, <2>2, <3>1 DEF SupervisorTypeOK
  <2>4. Accounted'
    BY <1>t, <1>n, <2>1, <2>2, <2>3 DEF Accounted
  <2> QED BY <2>1, <2>2, <2>3, <2>4, AccountedSuffices DEF SupervisorInv
<1>4. ASSUME NEW p \in Slots, ReplaceDead(p)
      PROVE  SupervisorInv'
  <2>1. /\ ~stopped /\ replacing = NoProcess /\ ~NoExitCode(current)
        /\ IF timers > 0 THEN raced' = raced + 1 ELSE raced' = raced
        /\ restarts' = 0 /\ DoStart(p, proc)
        /\ UNCHANGED <<timers, replacing, stopped>>
    BY <1>4 DEF ReplaceDead, Count, Reset
  <2>2. /\ proc' \in [Slots -> ProcState] /\ current' = p /\ newest' = p /\ gaveUp' = FALSE
        /\ Cardinality(Running)' = Cardinality(Running) + 1
        /\ CurrentKept' /\ Due' = 0
    BY <1>t, <2>1, Starts
  <2>3. raced' \in Nat /\ SupervisorTypeOK' /\ Pledged' = 0
    <3>1. raced' \in Nat /\ Pledged' = 0
      BY <1>n, <2>1 DEF Pledged
    <3> QED BY <1>t, <2>1, <2>2, <3>1 DEF SupervisorTypeOK
  <2>4. timers = 0 => Due = 1
    <3>1. newest = current /\ proc[current] \in {"exiting", "exited"}
      BY <1>t, <1>n, <2>1 DEF CurrentKept, NoExitCode, ProcState
    <3> QED BY <1>n, <3>1 DEF Due, Orphaned
  <2>5. Accounted'
    BY <1>t, <1>n, <2>1, <2>2, <2>3, <2>4 DEF Accounted
  <2> QED BY <2>1, <2>2, <2>3, <2>5, AccountedSuffices DEF SupervisorInv
<1>5. CASE BeginReplace
  <2>1. /\ ~stopped /\ replacing = NoProcess /\ NoExitCode(current)
        /\ IF timers > 0 THEN raced' = raced + 1 ELSE raced' = raced
        /\ newest' = NoProcess /\ replacing' = current
        /\ proc' = Signalled(current)
        /\ UNCHANGED <<current, restarts, timers, stopped, gaveUp>>
    BY <1>5 DEF BeginReplace, Count
  <2>2. /\ proc' \in [Slots -> ProcState]
        /\ \A q \in Slots : q # current => proc'[q] = proc[q]
        /\ proc'[current] = IF proc[current] = "live" THEN "signalled" ELSE proc[current]
    BY <1>n, <2>1 DEF Signalled, ProcState
  <2>3. raced' \in Nat /\ SupervisorTypeOK' /\ CurrentKept'
    BY <1>t, <1>n, <2>1, <2>2 DEF SupervisorTypeOK, CurrentKept
  <2>4. newest = current /\ proc[current] \in {"live", "killing", "killed"} /\ Pledged = 0
    BY <1>t, <1>n, <2>1 DEF CurrentKept, NoExitCode, Pledged
  <2>5. Pledged' = 1 /\ Due' = 0
    BY <1>n, <2>1 DEF Pledged, Due, Orphaned
  <2>6. CASE proc[current] = "live"
    <3>1. Running' = Running \ {current} /\ current \in Running
      BY <1>n, <2>2, <2>6 DEF Running
    <3>2. Cardinality(Running)' = Cardinality(Running) - 1
      BY <1>n, <3>1, RunningLess
    <3>3. Accounted'
      BY <1>t, <1>n, <2>1, <2>4, <2>5, <3>2 DEF Accounted
    <3> QED BY <2>1, <2>3, <3>3, AccountedSuffices DEF SupervisorInv
  <2>7. CASE proc[current] # "live"
    <3>1. Running' = Running
      BY <1>n, <2>2, <2>7 DEF Running
    <3>2. timers = 0 => Due = 1
      BY <1>n, <2>4, <2>7 DEF Due, Orphaned
    <3>3. Accounted'
      BY <1>t, <1>n, <2>1, <2>4, <2>5, <3>1, <3>2 DEF Accounted
    <3> QED BY <2>1, <2>3, <3>3, AccountedSuffices DEF SupervisorInv
  <2> QED BY <2>6, <2>7
<1>6. ASSUME NEW p \in Slots, EndReplace(p)
      PROVE  SupervisorInv'
  <2>1. /\ ~stopped /\ replacing # NoProcess /\ replacing' = NoProcess
        /\ restarts' = 0 /\ DoStart(p, proc)
        /\ UNCHANGED <<timers, stopped, raced>>
    BY <1>6 DEF EndReplace, Reset
  <2>2. /\ proc' \in [Slots -> ProcState] /\ current' = p /\ newest' = p /\ gaveUp' = FALSE
        /\ Cardinality(Running)' = Cardinality(Running) + 1
        /\ CurrentKept' /\ Due' = 0
    BY <1>t, <2>1, Starts
  <2>3. SupervisorTypeOK' /\ Pledged = 1 /\ Pledged' = 0
    BY <1>t, <1>n, <2>1, <2>2 DEF SupervisorTypeOK, Pledged
  <2>4. Accounted'
    BY <1>t, <1>n, <2>1, <2>2, <2>3 DEF Accounted
  <2> QED BY <2>1, <2>2, <2>3, <2>4, AccountedSuffices DEF SupervisorInv
<1>7. CASE Stop
  <2>1. /\ stopped' = TRUE
        /\ proc' = IF NoExitCode(current) THEN Signalled(current) ELSE proc
        /\ UNCHANGED <<current, newest, restarts, timers, replacing, raced, gaveUp>>
    BY <1>7 DEF Stop
  <2>2. /\ proc' \in [Slots -> ProcState]
        /\ \A q \in Slots : q # current => proc'[q] = proc[q]
        /\ proc'[current] = proc[current] \/ (proc[current] = "live" /\ proc'[current] = "signalled")
    BY <1>n, <2>1 DEF Signalled, ProcState
  <2>3. SupervisorTypeOK' /\ CurrentKept'
    BY <1>t, <1>n, <2>1, <2>2 DEF SupervisorTypeOK, CurrentKept
  <2>4. Cardinality(Running)' <= Cardinality(Running) /\ Cardinality(Running)' \in Nat
    <3>1. CASE proc'[current] = proc[current]
      <4>1. Running' = Running
        BY <1>n, <2>2, <3>1 DEF Running
      <4> QED BY <1>n, <4>1
    <3>2. CASE proc[current] = "live" /\ proc'[current] = "signalled"
      <4>1. Running' = Running \ {current} /\ current \in Running
        BY <1>n, <2>2, <3>2 DEF Running
      <4>2. Running # {} /\ Cardinality(Running) # 0
        BY <4>1, RunningFinite, FS_EmptySet
      <4> QED BY <1>n, <4>1, <4>2, RunningLess
    <3> QED BY <2>2, <3>1, <3>2
  <2> QED BY <1>t, <1>n, <2>1, <2>3, <2>4 DEF SupervisorInv, Accounted, OneUnlessRaced
<1>8. CASE UNCHANGED supervisorVars
  BY <1>t, <1>8 DEF supervisorVars, SupervisorInv, SupervisorTypeOK, CurrentKept, Accounted,
                    OneUnlessRaced, Running, Due, Orphaned, Pledged
<1> QED BY <1>1, <1>2, <1>3, <1>4, <1>5, <1>6, <1>7, <1>8 DEF Next

-----------------------------------------------------------------------------
(* The bridge                                                              *)

LEMMA BridgeInits == BridgeInit => BridgeInv
<1> SUFFICES ASSUME BridgeInit PROVE BridgeInv
  OBVIOUS
<1>1. BridgeTypeOK
  BY DEF BridgeInit, BridgeTypeOK
<1>2. AgeTold /\ KeepsPolling
  BY DEF BridgeInit, AgeTold, KeepsPolling
<1> QED BY <1>1, <1>2 DEF BridgeInv

LEMMA BridgeStep == BridgeInv /\ SupervisorTypeOK /\ [BridgeNext]_vars => BridgeInv'
<1> SUFFICES ASSUME BridgeInv, SupervisorTypeOK, [BridgeNext]_vars PROVE BridgeInv'
  OBVIOUS
<1>t. BridgeTypeOK /\ AgeTold /\ KeepsPolling /\ alarms \in Nat /\ autos \in Nat
  BY DEF BridgeInv, BridgeTypeOK
<1>a. ASSUME Arm
      PROVE  alarms' \in Nat /\ alarms' > 0 /\ armed' = TRUE
  BY <1>t, <1>a DEF Arm
<1>1. ASSUME NEW p \in Slots, Bind(p) PROVE BridgeInv'
  BY <1>t, <1>1 DEF Bind, bridgeVars, BridgeInv, BridgeTypeOK, AgeTold, KeepsPolling
<1>2. CASE Connects
  BY <1>t, <1>2 DEF Connects, BridgeInv, BridgeTypeOK, AgeTold, KeepsPolling
<1>3. CASE Dropped
  <2>1. /\ link' = "idle" /\ peer' = NoProcess /\ since' = "short" /\ outage' = "short"
        /\ IF armed THEN UNCHANGED <<alarms, armed>> ELSE Arm
        /\ UNCHANGED <<listener, waiting, restartingRust, autos>>
    BY <1>3 DEF Dropped
  <2>2. alarms' \in Nat /\ alarms' > 0 /\ armed' \in BOOLEAN
    BY <1>t, <1>a, <2>1 DEF BridgeTypeOK, KeepsPolling
  <2> QED BY <1>t, <2>1, <2>2 DEF BridgeInv, BridgeTypeOK, AgeTold, KeepsPolling
<1>4. CASE Elapse
  BY <1>t, <1>4 DEF Elapse, BridgeInv, BridgeTypeOK, AgeTold, KeepsPolling
<1>5. CASE Refused
  <2>1. /\ link = "opening" /\ link' = "idle"
        /\ IF armed THEN UNCHANGED <<alarms, armed>> ELSE Arm
        /\ UNCHANGED <<listener, peer, since, waiting, restartingRust, outage, autos>>
    BY <1>5 DEF Refused, Failed, supervisorVars
  <2>2. alarms' \in Nat /\ alarms' > 0 /\ armed' \in BOOLEAN
    BY <1>t, <1>a, <2>1 DEF BridgeTypeOK, KeepsPolling
  <2> QED BY <1>t, <2>1, <2>2 DEF BridgeInv, BridgeTypeOK, AgeTold, KeepsPolling
<1>6. CASE RefusedAsks
  <2>1. /\ link = "opening" /\ link' = "idle" /\ Arm
        /\ restartingRust' = TRUE /\ autos' = autos + 1 /\ waiting' = TRUE
        /\ UNCHANGED <<listener, peer, since, outage>>
    BY <1>6 DEF RefusedAsks, Asks, Failed
  <2> QED BY <1>t, <1>a, <2>1 DEF BridgeInv, BridgeTypeOK, AgeTold, KeepsPolling
<1>7. ASSUME NEW p \in Slots, RefusedReplaces(p) PROVE BridgeInv'
  <2>1. /\ link = "opening" /\ link' = "idle"
        /\ restartingRust' = TRUE /\ autos' = autos + 1
        /\ listener' = NoProcess /\ armed' = TRUE
        /\ UNCHANGED <<peer, since, waiting, outage>>
    BY <1>7 DEF RefusedReplaces, Asks, Failed, Unlinks
  <2>2. alarms' \in Nat /\ alarms' > 0
    BY <1>7, <1>t DEF RefusedReplaces
  <2> QED BY <1>t, <2>1, <2>2 DEF BridgeInv, BridgeTypeOK, AgeTold, KeepsPolling
<1>8. ASSUME NEW p \in Slots, Ends(p) PROVE BridgeInv'
  <2>1. /\ listener' = NoProcess /\ waiting' = FALSE
        /\ IF waiting THEN Arm ELSE UNCHANGED <<alarms, armed>>
        /\ UNCHANGED <<link, peer, since, restartingRust, outage, autos>>
    BY <1>8 DEF Ends, Unlinks
  <2>2. alarms' \in Nat /\ armed' \in BOOLEAN /\ KeepsPolling'
    BY <1>t, <1>a, <2>1 DEF BridgeTypeOK, KeepsPolling
  <2> QED BY <1>t, <2>1, <2>2 DEF BridgeInv, BridgeTypeOK, AgeTold
<1>9. CASE Ring
  <2>1. /\ alarms > 0 /\ alarms' = alarms - 1 /\ armed' = FALSE
        /\ link' = IF link = "idle" THEN "opening" ELSE link
        /\ UNCHANGED <<listener, peer, since, waiting, restartingRust, outage, autos>>
    BY <1>9 DEF Ring
  <2>2. alarms' \in Nat /\ link' # "idle" /\ (link' # "open" => link # "open")
    BY <1>t, <2>1
  <2> QED BY <1>t, <2>1, <2>2 DEF BridgeInv, BridgeTypeOK, AgeTold, KeepsPolling
<1>10. ASSUME NEW p \in Slots, ButtonReplaces(p) \/ CrashRestart(p) PROVE BridgeInv'
  BY <1>t, <1>10 DEF ButtonReplaces, CrashRestart, Unlinks, bridgeVars, BridgeInv, BridgeTypeOK,
                     AgeTold, KeepsPolling
<1>11. ASSUME UNCHANGED <<listener, bridgeVars>> PROVE BridgeInv'
  BY <1>t, <1>11 DEF bridgeVars, BridgeInv, BridgeTypeOK, AgeTold, KeepsPolling
<1>12. CASE ButtonBegins \/ ShutDown \/ UNCHANGED vars
  BY <1>11, <1>12 DEF ButtonBegins, ShutDown, vars
<1>13. ASSUME NEW p \in Slots, Gone(p) \/ Reap(p) PROVE BridgeInv'
  BY <1>11, <1>13 DEF Gone, Reap
<1> QED BY <1>1, <1>2, <1>3, <1>4, <1>5, <1>6, <1>7, <1>8, <1>9, <1>10, <1>12, <1>13 DEF BridgeNext

\* Every step of the two together is one of the supervisor's, or leaves it alone.
LEMMA SupervisorSteps == [BridgeNext]_vars => [Next]_supervisorVars
<1> SUFFICES ASSUME [BridgeNext]_vars PROVE [Next]_supervisorVars
  OBVIOUS
<1>1. ASSUME NEW p \in Slots, Bind(p) PROVE UNCHANGED supervisorVars
  BY <1>1 DEF Bind
<1>2. CASE Connects \/ Dropped \/ Elapse \/ Refused \/ Ring
  BY <1>2 DEF Connects, Dropped, Elapse, Refused, Ring
<1>3. ASSUME RefusedAsks PROVE BeginReplace \/ UNCHANGED supervisorVars
  BY <1>3 DEF RefusedAsks
<1>4. ASSUME NEW p \in Slots, RefusedReplaces(p) \/ ButtonReplaces(p) PROVE ReplaceDead(p)
  BY <1>4 DEF RefusedReplaces, ButtonReplaces
<1>5. ASSUME NEW p \in Slots, Ends(p) PROVE EndReplace(p)
  BY <1>5 DEF Ends
<1>6. ASSUME NEW p \in Slots, CrashRestart(p) PROVE TimerFires(p)
  BY <1>6 DEF CrashRestart
<1>7. ASSUME NEW p \in Slots, Gone(p) PROVE \E coded \in BOOLEAN : Dies(p, coded)
  BY <1>7 DEF Gone
<1>8. ASSUME NEW p \in Slots, Reap(p) PROVE Exited(p)
  BY <1>8 DEF Reap
<1>9. ButtonBegins => BeginReplace
  BY DEF ButtonBegins
<1>10. ShutDown => Stop
  BY DEF ShutDown
<1>11. UNCHANGED vars => UNCHANGED supervisorVars
  BY DEF vars
<1> QED BY <1>1, <1>2, <1>3, <1>4, <1>5, <1>6, <1>7, <1>8, <1>9, <1>10, <1>11 DEF BridgeNext, Next

-----------------------------------------------------------------------------
(* The bridge drives the supervision only through restartRustProxy: the    *)
(* two composed refine the supervisor alone, with any button, exit or      *)
(* timer.                                                                  *)
THEOREM Supervises == BridgeSpec => Spec
<1>1. BridgeInit => Init
  BY DEF BridgeInit
<1> QED BY <1>1, SupervisorSteps, PTL DEF BridgeSpec, Spec

(* The supervisor's and the bridge's variables stay in their types.        *)
THEOREM TypeCorrect == BridgeSpec => [](SupervisorTypeOK /\ BridgeTypeOK)
<1>1. SupervisorInv => SupervisorTypeOK
  BY DEF SupervisorInv
<1>2. BridgeInv => BridgeTypeOK
  BY DEF BridgeInv
<1>3. BridgeInit => SupervisorInv
  BY SupervisorInit DEF BridgeInit
<1> QED BY <1>1, <1>2, <1>3, SupervisorStep, SupervisorSteps, BridgeInits, BridgeStep, PTL
        DEF BridgeSpec

(* _generation and _restartInFlight: whatever order crashes, callbacks,    *)
(* crash timers and the requests of the console and of the bridge take, a  *)
(* second process runs only for a replacement begun with a timer pending.  *)
THEOREM OneProcess == BridgeSpec => []OneUnlessRaced
<1>1. SupervisorInv => OneUnlessRaced
  BY DEF SupervisorInv
<1>2. Spec => []SupervisorInv
  BY SupervisorInit, SupervisorStep, PTL DEF Spec
<1> QED BY <1>1, <1>2, Supervises, PTL

(* scheduleReconnect compares the age of the last falling edge, not that   *)
(* of the outage; the two agree whenever it asks.                          *)
THEOREM RestartsAfterOutage == BridgeSpec => RestartOnlyAfterOutage
<1>1. BridgeInv /\ [BridgeNext]_vars => [autos' > autos => outage = "long"]_vars
  <2> SUFFICES ASSUME BridgeInv, BridgeNext, autos' > autos
               PROVE  outage = "long"
    OBVIOUS
  <2>1. autos \in Nat /\ AgeTold
    BY DEF BridgeInv, BridgeTypeOK
  <2>2. autos' # autos /\ autos' # 0
    BY <2>1
  <2>3. Asks
    BY <2>2 DEF BridgeNext, Bind, Connects, Dropped, Elapse, Refused, RefusedAsks, RefusedReplaces,
                Ends, Ring, ButtonReplaces, ButtonBegins, CrashRestart, Gone, Reap, ShutDown,
                bridgeVars
  <2> QED BY <2>1, <2>3 DEF Asks, Failed, AsksForRestart, AgeTold
<1>2. SupervisorInv => SupervisorTypeOK
  BY DEF SupervisorInv
<1>3. BridgeInit => SupervisorInv
  BY SupervisorInit DEF BridgeInit
<1> QED BY <1>1, <1>2, <1>3, SupervisorStep, SupervisorSteps, BridgeInits, BridgeStep, PTL
        DEF BridgeSpec, RestartOnlyAfterOutage

(* The handle in reconnectTimer is overwritten while its timer lives, and  *)
(* cleared by whichever fires: still a bridge without a socket always has  *)
(* a timer to open one, the ground of Reconnects.                          *)
THEOREM AlwaysPolls == BridgeSpec => []KeepsPolling
<1>1. BridgeInv => KeepsPolling
  BY DEF BridgeInv
<1>2. SupervisorInv => SupervisorTypeOK
  BY DEF SupervisorInv
<1>3. BridgeInit => SupervisorInv
  BY SupervisorInit DEF BridgeInit
<1> QED BY <1>1, <1>2, <1>3, SupervisorStep, SupervisorSteps, BridgeInits, BridgeStep, PTL
        DEF BridgeSpec

-----------------------------------------------------------------------------
(* The handler and its observer                                           *)

\* What the observer's variables hold.
ObserverTypeOK ==
  /\ kind \in {"none", "empty", "quiet", "plain", "sse"}
  /\ relay \in BOOLEAN /\ pending \in BOOLEAN
  /\ truncated \in BOOLEAN /\ completed \in BOOLEAN
  /\ source \in {"open", "ended", "broken", "cancelled"}
  /\ got \in Nat /\ seen \in Nat
  /\ client \in {"none", "reading", "served", "failed", "gone"}
  /\ obs \in {"off", "running", "stopping", "failing", "resolved", "rejected"}

\* As long as the collector runs it has every chunk; what it calls complete is the whole of
\* a body that has ended, and a body that has ended is read no further.
CollectsAll ==
  /\ kind = "none" => client = "none" /\ ~pending /\ got = seen
  /\ kind \in {"none", "quiet"} => obs = "off" /\ ~completed
  /\ obs = "running" => seen = got /\ ~completed
  /\ completed => source = "ended" /\ seen = got
  /\ client = "reading" => source = "open"

Statement == [kind : {"request", "snapshot"}, save : Nat]
Row == [save : Nat, snapshot : Nat, response : Records]

LoopTypeOK ==
  /\ pc \in {"start", "loop", "sent", "snapshot", "cancel", "done"}
  /\ posted \in BOOLEAN /\ policy \in Policies /\ offered \in Candidates
  /\ active \in Seq(Routes) /\ active # <<>>
  /\ at \in Nat \ {0} /\ retry \in Nat /\ spent \in Nat
  /\ tried \in SUBSET Routes /\ cooling \in SUBSET Routes
  /\ trigger \in {"none", "timeout", "network", "429", "5xx", "4xx", "ok"}
  /\ held \in {"none", "429", "5xx", "4xx", "ok"}
  /\ elsewhere \in Nat
  /\ answer \in {"none", "refused", "local", "cooling", "exhausted", "timeout", "network", "upstream"}

LogTypeOK ==
  /\ writes \in Seq(Statement) /\ row \in Row
  /\ first429 \in Nat /\ saves \in Nat

GatewayTypeOK == LoopTypeOK /\ LogTypeOK /\ ObserverTypeOK

\* There is a first route, and what is sent has one. While no other request changes a cooldown, there is a route to
\* try, and a failure that was judged survivable still is when its body is cancelled.
QueueHolds ==
  /\ pc \in {"start", "sent"} => at <= Len(active)
  /\ elsewhere = 0 =>
       /\ answer # "exhausted"
       /\ pc \in {"loop", "sent", "snapshot", "cancel"} => at <= Len(active)
       /\ pc \in {"snapshot", "cancel"} => Continues(held, cooling, tried)

\* The queue is the first route and the fallbacks the policy's budget paid for.
BudgetKept ==
  /\ spent <= policy.maxFallback /\ retry <= policy.retryAttempts
  /\ Len(active) = 1 + spent

\* The handler is where its answer and the response say.
HandlerStage ==
  /\ pc = "done" <=> kind # "none"
  /\ pc = "snapshot" => saves > 0
  /\ pc = "start" => saves = 0

\* The row has been saved so often, the statements that wait save it on, in order, and with
\* the last of them it has the last attempt.
SavesInOrder ==
  /\ row.save <= saves
  /\ \A i \in 1..Len(writes) : writes[i].kind = "request" =>
        /\ row.save < writes[i].save /\ writes[i].save <= saves
        /\ \A j \in 1..(i - 1) : writes[j].kind = "request" => writes[j].save < writes[i].save
  /\ \/ row.save = saves
     \/ \E i \in 1..Len(writes) : writes[i].kind = "request" /\ writes[i].save = saves

\* The first 429 is in the row, or its snapshot is the first that waits, behind a save.
FirstSnapshotWaits ==
  \E i \in 1..Len(writes) :
     /\ writes[i] = [kind |-> "snapshot", save |-> first429]
     /\ \A j \in 1..(i - 1) : writes[j].kind # "snapshot"
     /\ row.save > 0 \/ \E j \in 1..(i - 1) : writes[j].kind = "request"

SnapshotTold ==
  IF first429 = 0
    THEN row.snapshot = 0 /\ \A i \in 1..Len(writes) : writes[i].kind # "snapshot"
    ELSE row.snapshot = first429 \/ (row.snapshot = 0 /\ FirstSnapshotWaits)

\* The end of a request is logged.
LogsEnd == posted /\ saves > 0 /\ answer # "exhausted"

\* The response of a request whose end is logged is observed, and then recorded; that of no other.
ResponseTold ==
  /\ row.response # "none" => obs = "off" /\ kind # "none"
  /\ row.response = "full" => completed
  /\ kind # "none" => (obs # "off" \/ row.response # "none" <=> LogsEnd)

-----------------------------------------------------------------------------
(* The filter                                                              *)

Before == OpToRel(<, Nat)

LEMMA BeforeIs == \A m, n \in Nat : <<m, n>> \in Before <=> m < n
BY DEF Before, OpToRel

LEMMA BeforeFounded == IsWellFoundedOn(Before, Nat)
BY NatLessThanWellFounded DEF Before

\* Induction up to n, with a set for the hypothesis.
LEMMA UpTo ==
  ASSUME NEW n \in Nat, NEW Good, 0 \in Good,
         \A m \in 1..n : m - 1 \in Good => m \in Good
  PROVE  \A m \in 0..n : m \in Good
<1> DEFINE Bad == {m \in 0..n : m \notin Good}
<1> SUFFICES ASSUME Bad # {} PROVE FALSE
  OBVIOUS
<1>1. \E m \in Bad : \A k \in Bad : ~(<<k, m>> \in Before)
  <2>1. Bad \subseteq Nat
    OBVIOUS
  <2> HIDE DEF Bad
  <2> QED BY <2>1, BeforeFounded, WFMin
<1>2. PICK m \in Bad : \A k \in Bad : ~(<<k, m>> \in Before)
  BY <1>1
<1>3. m \in 1..n /\ m - 1 \in 0..n /\ m \notin Good
  OBVIOUS
<1>4. m - 1 \in Bad
  BY <1>3
<1>5. <<m - 1, m>> \in Before
  <2>1. m - 1 \in Nat /\ m \in Nat /\ m - 1 < m
    BY <1>3
  <2> QED BY ONLY <2>1, BeforeIs
<1> QED BY <1>2, <1>4, <1>5

\* What has been kept of the first i routes, as Filtered computes it.
IsKept(first, routes, keep, n) ==
  first = [i \in 0..n |-> IF i = 0 THEN <<>>
                          ELSE IF routes[i] \in keep THEN Append(first[i - 1], routes[i])
                          ELSE first[i - 1]]

LEMMA KeptExists ==
  ASSUME NEW R, NEW routes \in Seq(R), NEW keep
  PROVE  \E first : IsKept(first, routes, keep, Len(routes))
<1> DEFINE Good == {n \in 0..Len(routes) : \E first : IsKept(first, routes, keep, n)}
<1>1. 0 \in Good
  <2>1. IsKept([i \in 0..0 |-> <<>>], routes, keep, 0)
    BY DEF IsKept
  <2> QED BY <2>1
<1>2. ASSUME NEW m \in 1..Len(routes), m - 1 \in Good PROVE m \in Good
  <2>1. PICK first : IsKept(first, routes, keep, m - 1)
    BY <1>2
  <2> DEFINE last == IF routes[m] \in keep THEN Append(first[m - 1], routes[m]) ELSE first[m - 1]
             longer == [i \in 0..m |-> IF i = m THEN last ELSE first[i]]
  <2>2. \A i \in 0..(m - 1) :
           first[i] = IF i = 0 THEN <<>>
                      ELSE IF routes[i] \in keep THEN Append(first[i - 1], routes[i])
                      ELSE first[i - 1]
    BY <2>1 DEF IsKept
  <2>3. \A i \in 0..m :
           longer[i] = IF i = 0 THEN <<>>
                       ELSE IF routes[i] \in keep THEN Append(longer[i - 1], routes[i])
                       ELSE longer[i - 1]
    <3> SUFFICES ASSUME NEW i \in 0..m
                 PROVE  longer[i] = IF i = 0 THEN <<>>
                                    ELSE IF routes[i] \in keep THEN Append(longer[i - 1], routes[i])
                                    ELSE longer[i - 1]
      OBVIOUS
    <3>1. CASE i = m
      <4>1. m # 0 /\ m - 1 \in 0..m /\ m - 1 # m
        OBVIOUS
      <4>2. longer[m] = last /\ longer[m - 1] = first[m - 1]
        BY <4>1
      <4> HIDE DEF longer
      <4> QED BY <3>1, <4>1, <4>2
    <3>2. CASE i # m
      <4>1. i \in 0..(m - 1) /\ longer[i] = first[i]
        BY <3>2
      <4>2. i # 0 => longer[i - 1] = first[i - 1]
        BY <4>1
      <4> HIDE DEF longer
      <4> QED BY <2>2, <4>1, <4>2
    <3> QED BY <3>1, <3>2
  <2>4. IsKept(longer, routes, keep, m)
    <3>1. longer = [i \in 0..m |-> longer[i]]
      OBVIOUS
    <3> HIDE DEF longer
    <3> QED BY <2>3, <3>1 DEF IsKept
  <2>5. \E f : IsKept(f, routes, keep, m)
    BY <2>4
  <2> QED BY <2>5
<1>3. Len(routes) \in Nat
  OBVIOUS
<1>4. \A m \in 0..Len(routes) : m \in Good
  <2> HIDE DEF Good
  <2> QED BY <1>1, <1>2, <1>3, UpTo
<1> QED BY <1>3, <1>4

\* A filter keeps routes of those it is given, and only those it is to keep.
LEMMA FilteredType ==
  ASSUME NEW R, NEW routes \in Seq(R), NEW keep
  PROVE  Filtered(routes, keep) \in Seq(R \cap keep)
<1> DEFINE K == CHOOSE first : IsKept(first, routes, keep, Len(routes))
           Good == {n \in 0..Len(routes) : K[n] \in Seq(R \cap keep)}
<1>1. Filtered(routes, keep) = K[Len(routes)]
  BY DEF Filtered, IsKept
<1>2. IsKept(K, routes, keep, Len(routes))
  BY KeptExists
<1>3. Len(routes) \in Nat /\ \A i \in 1..Len(routes) : routes[i] \in R
  OBVIOUS
<1> HIDE DEF K
<1>4. 0 \in Good
  <2>1. K[0] = <<>>
    BY <1>2, <1>3 DEF IsKept
  <2>2. K[0] \in Seq(R \cap keep) /\ 0 \in 0..Len(routes)
    BY <1>3, <2>1, EmptySeq
  <2> QED BY <2>2
<1>5. ASSUME NEW m \in 1..Len(routes), m - 1 \in Good PROVE m \in Good
  <2>1. K[m] = IF routes[m] \in keep THEN Append(K[m - 1], routes[m]) ELSE K[m - 1]
    <3>1. m \in 0..Len(routes) /\ m # 0
      BY <1>3
    <3>2. \A i \in 0..Len(routes) :
             K[i] = IF i = 0 THEN <<>>
                    ELSE IF routes[i] \in keep THEN Append(K[i - 1], routes[i])
                    ELSE K[i - 1]
      BY <1>2 DEF IsKept
    <3> QED BY <3>1, <3>2
  <2>0. m \in 0..Len(routes)
    BY <1>3
  <2>2. K[m - 1] \in Seq(R \cap keep)
    BY <1>5
  <2>3. CASE routes[m] \in keep
    <3>1. routes[m] \in R \cap keep
      BY <1>3, <2>3
    <3>2. Append(K[m - 1], routes[m]) \in Seq(R \cap keep)
      BY <2>2, <3>1, AppendProperties
    <3> QED BY <2>0, <2>1, <2>3, <3>2
  <2>4. CASE routes[m] \notin keep
    BY <2>0, <2>1, <2>2, <2>4
  <2> QED BY <2>3, <2>4
<1>6. \A m \in 0..Len(routes) : m \in Good
  <2> HIDE DEF Good
  <2> QED BY <1>3, <1>4, <1>5, UpTo
<1> QED BY <1>1, <1>3, <1>6
-----------------------------------------------------------------------------
(* The queue of fallbacks                                                  *)

LEMMA PolicyType ==
  ASSUME policy \in Policies
  PROVE  /\ policy.maxFallback \in Nat /\ policy.retryAttempts \in Nat
         /\ CooldownEnabled \in BOOLEAN
BY GatewayAssumption DEF CooldownEnabled

LEMMA FallbackType ==
  ASSUME offered \in Candidates, NEW now, NEW done
  PROVE  FallbackRoutes(now, done) \in Seq(Routes)
<1> DEFINE keep == {r \in Routes : /\ ~(CooldownEnabled /\ r \in now)
                                   /\ r \notin done /\ r \notin ToSet(active)}
<1>1. offered \in Seq(Routes) /\ Routes \cap keep = keep /\ keep \subseteq Routes
  BY GatewayAssumption
<1>2. FallbackRoutes(now, done) = IF policy.maxFallback = 0 THEN <<>> ELSE Filtered(offered, keep)
  BY DEF FallbackRoutes
<1> HIDE DEF keep
<1>3. Filtered(offered, keep) \in Seq(keep)
  <2>1. Filtered(offered, keep) \in Seq(Routes \cap keep)
    BY <1>1, FilteredType
  <2> QED BY <1>1, <2>1
<1>4. Filtered(offered, keep) \in Seq(Routes) /\ <<>> \in Seq(Routes)
  BY <1>1, <1>3, SeqMonotonic, EmptySeq
<1> QED BY <1>2, <1>4

\* What is appended fits the budget, and is something if there is a fallback and a budget.
LEMMA AppendedType ==
  ASSUME policy \in Policies, offered \in Candidates, spent \in Nat, spent <= policy.maxFallback,
         NEW now, NEW done
  PROVE  /\ Appended(now, done) \in Seq(Routes)
         /\ Len(Appended(now, done)) \in Nat
         /\ spent + Len(Appended(now, done)) <= policy.maxFallback
         /\ spent < policy.maxFallback /\ FallbackRoutes(now, done) # <<>> =>
              Len(Appended(now, done)) > 0
         /\ Appended(now, done) # <<>> => Len(Appended(now, done)) > 0
<1> DEFINE routes == FallbackRoutes(now, done)
           room == policy.maxFallback - spent
           n == IF Len(routes) < room THEN Len(routes) ELSE room
<1>1. routes \in Seq(Routes)
  BY FallbackType
<1>2. policy.maxFallback \in Nat /\ room \in Nat
  BY PolicyType
<1>3. Appended(now, done) = SubSeq(routes, 1, n)
  BY DEF Appended
<1>0. routes = FallbackRoutes(now, done)
  OBVIOUS
<1> HIDE DEF routes
<1>4. Len(routes) \in Nat /\ \A i \in 1..Len(routes) : routes[i] \in Routes
  BY <1>1
<1>5. routes # <<>> => Len(routes) > 0
  BY <1>1, EmptySeq
<1>6. n \in Nat /\ n <= Len(routes) /\ n <= room
  BY <1>2, <1>4
<1>7. SubSeq(routes, 1, n) \in Seq(Routes) /\ Len(SubSeq(routes, 1, n)) = n
  <2> HIDE DEF n
  <2>1. \A i \in 1..n : routes[i] \in Routes
    BY <1>4, <1>6
  <2>2. 1 \in Int /\ n \in Int
    BY <1>6
  <2>3. /\ SubSeq(routes, 1, n) \in Seq(Routes)
        /\ Len(SubSeq(routes, 1, n)) = IF 1 <= n THEN n - 1 + 1 ELSE 0
    BY <2>1, <2>2, SubSeqProperties
  <2> QED BY <1>6, <2>3
<1>8. Appended(now, done) # <<>> => Len(Appended(now, done)) > 0
  BY <1>3, <1>7, EmptySeq
<1>9. spent < policy.maxFallback /\ routes # <<>> => n > 0
  BY <1>2, <1>4, <1>5
<1>10. spent + n <= policy.maxFallback
  <2> HIDE DEF n
  <2> QED BY <1>2, <1>6
<1>11. Len(Appended(now, done)) = n
  BY <1>3, <1>7
<1> HIDE DEF n, room
<1> QED BY <1>0, <1>3, <1>6, <1>7, <1>8, <1>9, <1>10, <1>11

LEMMA QueueGrows ==
  ASSUME active \in Seq(Routes), at \in Nat \ {0}, spent \in Nat, policy \in Policies,
         spent <= policy.maxFallback, Len(active) = 1 + spent,
         NEW new \in Seq(Routes), spent + Len(new) <= policy.maxFallback, Advance(new),
         UNCHANGED policy
  PROVE  /\ active' \in Seq(Routes) /\ active' # <<>>
         /\ at' = at + 1 /\ at' \in Nat \ {0} /\ spent' \in Nat /\ retry' = 0
         /\ spent' <= policy'.maxFallback /\ Len(active') = 1 + spent'
         /\ at <= Len(active) /\ Len(new) > 0 => at' <= Len(active')
<1>1. active' = active \o new /\ spent' = spent + Len(new) /\ at' = at + 1 /\ retry' = 0
  BY DEF Advance
<1>2. active \o new \in Seq(Routes) /\ Len(active \o new) = Len(active) + Len(new)
  BY ConcatProperties
<1>3. Len(new) \in Nat /\ Len(active) \in Nat
  OBVIOUS
<1>4. active' # <<>>
  BY <1>1, <1>2, <1>3, EmptySeq
<1> QED BY <1>1, <1>2, <1>3, <1>4
-----------------------------------------------------------------------------
(* The observer                                                            *)

ObserverInv == ObserverTypeOK /\ CollectsAll

LEMMA ObserverStarts == ObserverInit => ObserverInv
<1> SUFFICES ASSUME ObserverInit PROVE ObserverTypeOK /\ CollectsAll
  BY DEF ObserverInv
<1>1. ObserverTypeOK
  BY DEF ObserverInit, ObserverTypeOK
<1>2. CollectsAll
  BY DEF ObserverInit, CollectsAll
<1> QED BY <1>1, <1>2

LEMMA ObserverStill == ObserverInv /\ UNCHANGED observerVars => ObserverInv'
BY DEF observerVars, bodyVars, collectorVars, ObserverInv, ObserverTypeOK, CollectsAll

LEMMA ObserverBegins ==
  ASSUME ObserverInv, NEW k \in {"empty", "quiet", "plain", "sse"}, NEW u \in BOOLEAN, NEW l \in BOOLEAN,
         Begin(k, u, l), l => k # "quiet"
  PROVE  ObserverInv'
<1>1. /\ kind = "none" /\ kind' = (IF l \/ k = "empty" THEN k ELSE "quiet") /\ relay' = u
      /\ client' = (IF k = "empty" THEN "served" ELSE "reading")
      /\ source' = (IF k = "empty" THEN "ended" ELSE "open")
      /\ completed' = (k = "empty" /\ l)
      /\ pending' = pending /\ got' = got /\ seen' = seen /\ truncated' = truncated
  BY DEF Begin
<1>2. obs' = IF ~l THEN "off" ELSE IF k = "empty" THEN "resolved" ELSE "running"
  BY DEF Begin
<1>3. ObserverTypeOK
  BY DEF ObserverInv
<1>4. ObserverTypeOK'
  BY <1>1, <1>2, <1>3 DEF ObserverTypeOK
<1>5. got = seen
  BY <1>1 DEF ObserverInv, CollectsAll
<1>6. CollectsAll'
  BY <1>1, <1>2, <1>5 DEF CollectsAll
<1> QED BY <1>4, <1>6 DEF ObserverInv

LEMMA ObserverSteps == ObserverInv /\ ObserverNext => ObserverInv' /\ kind' = kind
<1> SUFFICES ASSUME ObserverInv, ObserverNext PROVE ObserverInv' /\ kind' = kind
  OBVIOUS
<1>t. ObserverTypeOK /\ CollectsAll
  BY DEF ObserverInv
<1>1. CASE Pull
  BY <1>t, <1>1 DEF Pull, collectorVars, ObserverInv, ObserverTypeOK, CollectsAll
<1>2. CASE Chunk
  <2>1. /\ source = "open" /\ got' = got + 1 /\ pending' = FALSE
        /\ UNCHANGED <<kind, relay, source, client>>
    BY <1>2 DEF Chunk
  <2>2. pending /\ got' \in Nat /\ got' # got
    BY <1>t, <1>2, <2>1 DEF Chunk, ObserverTypeOK
  <2>3. CASE obs # "running"
    <3>1. UNCHANGED collectorVars
      BY <1>2, <2>3 DEF Chunk, ObserveChunk
    <3> QED BY <1>t, <2>1, <2>2, <2>3, <3>1
            DEF collectorVars, ObserverInv, ObserverTypeOK, CollectsAll
  <2>4. CASE obs = "running" /\ kind = "sse" /\ seen = MaxLogged
    <3>1. /\ obs' = "stopping" /\ completed' = FALSE /\ truncated' \in BOOLEAN
          /\ seen' = seen
      BY <1>t, <1>2, <2>4 DEF Chunk, ObserveChunk, StopObservation, ObserverTypeOK
    <3> QED BY <1>t, <2>1, <2>2, <2>4, <3>1 DEF ObserverInv, ObserverTypeOK, CollectsAll
  <2>5. CASE obs = "running" /\ ~(kind = "sse" /\ seen = MaxLogged)
    <3>1. seen' = seen + 1 /\ UNCHANGED <<obs, truncated, completed>>
      BY <1>2, <2>5 DEF Chunk, ObserveChunk
    <3>2. seen' = got' /\ seen' \in Nat
      BY <1>t, <2>1, <2>5, <3>1 DEF ObserverTypeOK, CollectsAll
    <3> QED BY <1>t, <2>1, <2>2, <2>5, <3>1, <3>2 DEF ObserverInv, ObserverTypeOK, CollectsAll
  <2> QED BY <2>1, <2>3, <2>4, <2>5
<1>3. CASE BodyEnds
  BY <1>t, <1>3
     DEF BodyEnds, ClientSees, StopObservation, ObserverInv, ObserverTypeOK, CollectsAll
<1>4. CASE BodyBreaks
  BY <1>t, <1>4
     DEF BodyBreaks, ClientSees, FailObservation, ObserverInv, ObserverTypeOK, CollectsAll
<1>5. CASE ClientCancels
  BY <1>t, <1>5 DEF ClientCancels, StopObservation, ObserverInv, ObserverTypeOK, CollectsAll
<1>6. CASE ObservationTimesOut
  BY <1>t, <1>6
     DEF ObservationTimesOut, StopObservation, bodyVars, ObserverInv, ObserverTypeOK, CollectsAll
<1>7. CASE Settle
  BY <1>t, <1>7 DEF Settle, bodyVars, ObserverInv, ObserverTypeOK, CollectsAll
<1> QED BY <1>1, <1>2, <1>3, <1>4, <1>5, <1>6, <1>7 DEF ObserverNext

\* No step of the observer turns a collector off that was not.
LEMMA ObserverOff ==
  ObserverInv /\ ObserverNext => (obs' = "off" <=> obs = "off") /\ (completed => completed')
<1> SUFFICES ASSUME ObserverInv, ObserverNext
             PROVE  (obs' = "off" <=> obs = "off") /\ (completed => completed')
  OBVIOUS
<1>t. ObserverTypeOK /\ CollectsAll
  BY DEF ObserverInv
<1>1. CASE Pull \/ Settle
  BY <1>1 DEF Pull, Settle, collectorVars
<1>2. CASE Chunk
  BY <1>t, <1>2 DEF Chunk, ObserveChunk, StopObservation, collectorVars, CollectsAll
<1>3. CASE BodyEnds
  BY <1>t, <1>3 DEF BodyEnds, StopObservation
<1>4. CASE BodyBreaks
  BY <1>4 DEF BodyBreaks, FailObservation
<1>5. CASE ClientCancels
  BY <1>t, <1>5 DEF ClientCancels, StopObservation, CollectsAll
<1>6. CASE ObservationTimesOut
  BY <1>t, <1>6 DEF ObservationTimesOut, StopObservation, CollectsAll
<1> QED BY <1>1, <1>2, <1>3, <1>4, <1>5, <1>6 DEF ObserverNext
-----------------------------------------------------------------------------
(* The handler                                                             *)

Loop == LoopTypeOK /\ BudgetKept /\ QueueHolds

LEMMA Returned ==
  ASSUME LoopTypeOK, NEW a \in {"refused", "local", "cooling", "timeout", "network", "upstream"},
         NEW k, NEW u, NEW l, Returns(a, k, u, l), cooling' \in SUBSET Routes, UNCHANGED elsewhere
  PROVE  Loop' /\ pc' = "done"
<1>1. /\ pc' = "done" /\ answer' = a /\ held' = "none"
      /\ active' = <<Initial>> /\ at' = 1 /\ retry' = 0 /\ spent' = 0
      /\ tried' = {} /\ trigger' = "none" /\ UNCHANGED <<posted, policy, offered>>
  BY DEF Returns
<1>2. <<Initial>> \in Seq(Routes) /\ <<Initial>> # <<>> /\ Len(<<Initial>>) = 1
  BY GatewayAssumption
<1>3. policy.maxFallback \in Nat /\ policy.retryAttempts \in Nat
  BY PolicyType DEF LoopTypeOK
<1>4. LoopTypeOK'
  BY <1>1, <1>2 DEF LoopTypeOK
<1>5. BudgetKept'
  BY <1>1, <1>2, <1>3 DEF BudgetKept
<1>6. QueueHolds'
  BY <1>1 DEF QueueHolds
<1> QED BY <1>1, <1>4, <1>5, <1>6 DEF Loop

\* The queue after a failure, survivable or not any more.
LEMMA WentOn ==
  ASSUME LoopTypeOK, BudgetKept, NEW t, GoOn(t), UNCHANGED policy
  PROVE  /\ active' \in Seq(Routes) /\ active' # <<>>
         /\ at' \in Nat \ {0} /\ spent' \in Nat /\ retry' \in Nat
         /\ BudgetKept'
         /\ Continues(t, cooling, tried) /\ at <= Len(active) => at' <= Len(active')
<1>t. /\ active \in Seq(Routes) /\ active # <<>> /\ at \in Nat \ {0} /\ spent \in Nat /\ retry \in Nat
      /\ policy \in Policies /\ offered \in Candidates
      /\ spent <= policy.maxFallback /\ retry <= policy.retryAttempts /\ Len(active) = 1 + spent
  BY DEF LoopTypeOK, BudgetKept
<1>p. policy.retryAttempts \in Nat
  BY <1>t, PolicyType
<1>1. CASE MayRetry(t)
  <2>1. retry' = retry + 1 /\ UNCHANGED <<active, spent, at>> /\ retry < policy.retryAttempts
    BY <1>1 DEF GoOn, MayRetry
  <2>2. BudgetKept'
    BY <1>t, <1>p, <2>1 DEF BudgetKept
  <2> QED BY <1>t, <2>1, <2>2
<1>2. CASE ~MayRetry(t)
  <2> DEFINE new == Appended(cooling, tried)
  <2>1. Advance(new)
    BY <1>2 DEF GoOn
  <2>2. Continues(t, cooling, tried) =>
          spent < policy.maxFallback /\ FallbackRoutes(cooling, tried) # <<>>
    BY <1>2 DEF Continues
  <2>3. /\ new \in Seq(Routes) /\ spent + Len(new) <= policy.maxFallback
        /\ Continues(t, cooling, tried) => Len(new) > 0
    BY <1>t, <2>2, AppendedType
  <2> HIDE DEF new
  <2>4. /\ active' \in Seq(Routes) /\ active' # <<>>
        /\ at' = at + 1 /\ at' \in Nat \ {0} /\ spent' \in Nat /\ retry' = 0
        /\ spent' <= policy'.maxFallback /\ Len(active') = 1 + spent'
        /\ at <= Len(active) /\ Len(new) > 0 => at' <= Len(active')
    BY <1>t, <2>1, <2>3, QueueGrows
  <2>5. BudgetKept'
    BY <1>p, <2>1, <2>4 DEF BudgetKept
  <2> QED BY <2>3, <2>4, <2>5
<1> QED BY <1>1, <1>2

\* Whether the handler goes on is a matter of the policy, the queue and the cooldowns.
LEMMA ContinuesSame ==
  ASSUME NEW t, NEW now, NEW done, Continues(t, now, done), UNCHANGED <<policy, offered, active, retry, spent>>,
         held' = t, cooling' = now, tried' = done
  PROVE  Continues(held, cooling, tried)'
BY DEF Continues, ShouldTrigger, MayRetry, FallbackRoutes, CooldownEnabled, ToSet
LEMMA RouteType == LoopTypeOK /\ at <= Len(active) => Route \in Routes
BY DEF LoopTypeOK, Route

LEMMA RecordedType == ASSUME LoopTypeOK, at <= Len(active), NEW s PROVE Recorded(s) \in SUBSET Routes
BY RouteType DEF LoopTypeOK, Recorded

LEMMA LoopAdmits == Loop /\ Admit => Loop'
<1> SUFFICES ASSUME Loop, Admit PROVE Loop'
  OBVIOUS
<1>1. /\ pc = "start" /\ pc' = "loop" /\ answer' = answer
      /\ UNCHANGED <<posted, policy, offered, active, at, retry, spent, tried, trigger, held, cooling, elsewhere>>
  BY DEF Admit, Stays
<1> QED BY <1>1 DEF Loop, LoopTypeOK, BudgetKept, QueueHolds
LEMMA LoopSkips == Loop /\ SkipCooling => Loop'
<1> SUFFICES ASSUME Loop, SkipCooling PROVE Loop'
  OBVIOUS
<1>t. LoopTypeOK /\ BudgetKept /\ QueueHolds
  BY DEF Loop
<1> DEFINE new == Appended(cooling, tried \cup {Route})
<1>1. pc = "loop" /\ at <= Len(active) /\ UNCHANGED <<cooling, elsewhere>>
  BY DEF SkipCooling
<1>2. CASE new # <<>> /\ spent < policy.maxFallback
  <2>1. /\ Advance(new) /\ Tries /\ trigger' = "429" /\ Stays
        /\ UNCHANGED <<pc, posted, policy, offered, held>>
    BY <1>2 DEF SkipCooling
  <2>2. new \in Seq(Routes) /\ spent + Len(new) <= policy.maxFallback /\ Len(new) > 0
    BY <1>t, <1>2, AppendedType DEF LoopTypeOK, BudgetKept
  <2> HIDE DEF new
  <2>3. /\ active' \in Seq(Routes) /\ active' # <<>>
        /\ at' \in Nat \ {0} /\ spent' \in Nat /\ retry' = 0
        /\ spent' <= policy'.maxFallback /\ Len(active') = 1 + spent'
        /\ at' <= Len(active')
    BY <1>t, <1>1, <2>1, <2>2, QueueGrows DEF LoopTypeOK, BudgetKept
  <2>4. tried' \in SUBSET Routes /\ answer' = answer
    BY <1>t, <1>1, <2>1, RouteType DEF Tries, Stays, LoopTypeOK
  <2>5. LoopTypeOK'
    BY <1>t, <1>1, <2>1, <2>3, <2>4 DEF LoopTypeOK
  <2>6. policy.retryAttempts \in Nat
    BY <1>t, PolicyType DEF LoopTypeOK
  <2>7. BudgetKept'
    BY <2>1, <2>3, <2>6 DEF BudgetKept
  <2>8. QueueHolds'
    BY <1>t, <1>1, <2>1, <2>3, <2>4 DEF QueueHolds
  <2> QED BY <2>5, <2>7, <2>8 DEF Loop
<1>3. CASE ~(new # <<>> /\ spent < policy.maxFallback)
  <2>1. Returns("cooling", "plain", FALSE, posted)
    BY <1>3 DEF SkipCooling
  <2>2. cooling' \in SUBSET Routes
    BY <1>t, <1>1 DEF LoopTypeOK
  <2> QED BY <1>t, <1>1, <2>1, <2>2, Returned
<1> QED BY <1>2, <1>3

LEMMA LoopSends == Loop /\ Send => Loop'
<1> SUFFICES ASSUME Loop, Send PROVE Loop'
  OBVIOUS
<1>t. LoopTypeOK /\ BudgetKept /\ QueueHolds
  BY DEF Loop
<1>1. /\ pc = "loop" /\ pc' = "sent" /\ at <= Len(active) /\ Tries /\ answer' = answer
      /\ UNCHANGED <<posted, policy, offered, active, at, retry, spent, trigger, held, elsewhere>>
  BY DEF Send, Stays
<1>2. cooling' \in SUBSET Routes
  BY <1>t DEF Send, LoopTypeOK
<1>3. tried' \in SUBSET Routes
  BY <1>t, <1>1, RouteType DEF Tries, LoopTypeOK
<1>4. LoopTypeOK'
  BY <1>t, <1>1, <1>2, <1>3 DEF LoopTypeOK
<1>5. BudgetKept'
  BY <1>t, <1>1 DEF BudgetKept
<1>6. QueueHolds'
  BY <1>t, <1>1 DEF QueueHolds
<1> QED BY <1>4, <1>5, <1>6 DEF Loop

LEMMA LoopExhausts == Loop /\ NoRouteLeft => Loop'
<1> SUFFICES ASSUME Loop, NoRouteLeft PROVE Loop'
  OBVIOUS
<1>t. LoopTypeOK /\ BudgetKept /\ QueueHolds
  BY DEF Loop
<1>1. /\ pc = "loop" /\ at > Len(active) /\ UNCHANGED <<cooling, elsewhere>>
      /\ pc' = "done" /\ answer' = "exhausted" /\ held' = "none"
      /\ active' = <<Initial>> /\ at' = 1 /\ retry' = 0 /\ spent' = 0
      /\ tried' = {} /\ trigger' = "none" /\ UNCHANGED <<posted, policy, offered>>
  BY DEF NoRouteLeft, Returns
<1>2. <<Initial>> \in Seq(Routes) /\ <<Initial>> # <<>> /\ Len(<<Initial>>) = 1
  BY GatewayAssumption
<1>3. policy.maxFallback \in Nat /\ policy.retryAttempts \in Nat
  BY <1>t, PolicyType DEF LoopTypeOK
<1>4. LoopTypeOK'
  BY <1>t, <1>1, <1>2 DEF LoopTypeOK
<1>5. BudgetKept'
  BY <1>1, <1>2, <1>3 DEF BudgetKept
<1>6. QueueHolds'
  <2>1. Len(active) \in Nat /\ at \in Nat
    BY <1>t DEF LoopTypeOK
  <2>2. elsewhere # 0
    BY <1>t, <1>1, <2>1 DEF QueueHolds
  <2> QED BY <1>1, <2>2 DEF QueueHolds
<1> QED BY <1>4, <1>5, <1>6 DEF Loop

LEMMA LoopFails == ASSUME NEW t \in {"timeout", "network"}, Loop, Fails(t) PROVE Loop'
<1>t. LoopTypeOK /\ BudgetKept /\ QueueHolds
  BY DEF Loop
<1>1. pc = "sent" /\ UNCHANGED <<cooling, elsewhere>>
  BY DEF Fails
<1>2. CASE Continues(t, cooling, tried)
  <2>1. /\ pc' = "loop" /\ trigger' = t /\ GoOn(t) /\ answer' = answer
        /\ UNCHANGED <<posted, policy, offered, tried, held>>
    BY <1>2 DEF Fails, Stays
  <2>2. /\ active' \in Seq(Routes) /\ active' # <<>>
        /\ at' \in Nat \ {0} /\ spent' \in Nat /\ retry' \in Nat
        /\ BudgetKept'
        /\ at <= Len(active) => at' <= Len(active')
    BY <1>t, <1>2, <2>1, WentOn
  <2>3. LoopTypeOK'
    BY <1>t, <1>1, <2>1, <2>2 DEF LoopTypeOK
  <2>4. QueueHolds'
    BY <1>t, <1>1, <2>1, <2>2 DEF QueueHolds
  <2> QED BY <2>2, <2>3, <2>4 DEF Loop
<1>3. CASE ~Continues(t, cooling, tried)
  <2>1. Returns(t, "plain", FALSE, posted)
    BY <1>3 DEF Fails
  <2>2. cooling' \in SUBSET Routes
    BY <1>t, <1>1 DEF LoopTypeOK
  <2> QED BY <1>t, <1>1, <2>1, <2>2, Returned
<1> QED BY <1>2, <1>3

LEMMA LoopArrives ==
  ASSUME NEW s \in {"ok", "429", "5xx", "4xx"}, NEW k \in {"empty", "plain", "sse"},
         Loop, Arrives(s, k)
  PROVE  Loop'
<1>t. LoopTypeOK /\ BudgetKept /\ QueueHolds
  BY DEF Loop
<1>1. pc = "sent" /\ cooling' = Recorded(s) /\ UNCHANGED elsewhere
  BY DEF Arrives
<1>2. cooling' \in SUBSET Routes
  BY <1>t, <1>1, RecordedType DEF QueueHolds
<1>3. CASE Continues(s, cooling', tried)
  <2>1. /\ pc' \in {"snapshot", "cancel"} /\ trigger' = s /\ held' = s /\ answer' = answer
        /\ UNCHANGED <<posted, policy, offered, active, at, retry, spent, tried>>
    BY <1>3 DEF Arrives, Stays
  <2>2. LoopTypeOK'
    BY <1>t, <1>1, <1>2, <2>1 DEF LoopTypeOK
  <2>3. BudgetKept'
    BY <1>t, <2>1 DEF BudgetKept
  <2>4. Continues(held, cooling, tried)'
    <3>1. PICK now : now = cooling'
      OBVIOUS
    <3>2. PICK done : done = tried
      OBVIOUS
    <3>3. Continues(s, now, done)
      BY <1>3, <3>1, <3>2
    <3> QED BY <2>1, <3>1, <3>2, <3>3, ContinuesSame
  <2>5. QueueHolds'
    BY <1>t, <1>1, <2>1, <2>4 DEF QueueHolds
  <2> QED BY <2>2, <2>3, <2>5 DEF Loop
<1>4. CASE ~Continues(s, cooling', tried)
  <2>1. Returns("upstream", k, TRUE, posted)
    BY <1>4 DEF Arrives
  <2> QED BY <1>t, <1>1, <1>2, <2>1, Returned
<1> QED BY <1>3, <1>4

LEMMA LoopSnapshots == Loop /\ TakeSnapshot => Loop'
<1> SUFFICES ASSUME Loop, TakeSnapshot PROVE Loop'
  OBVIOUS
<1>t. LoopTypeOK /\ BudgetKept /\ QueueHolds
  BY DEF Loop
<1>1. /\ pc = "snapshot" /\ pc' = "cancel" /\ answer' = answer
      /\ UNCHANGED <<posted, policy, offered, active, at, retry, spent, tried, trigger, held, cooling, elsewhere>>
  BY DEF TakeSnapshot, Stays
<1>2. LoopTypeOK'
  BY <1>t, <1>1 DEF LoopTypeOK
<1>3. BudgetKept'
  BY <1>t, <1>1 DEF BudgetKept
<1>4. Continues(held, cooling, tried) => Continues(held, cooling, tried)'
  <2> SUFFICES ASSUME Continues(held, cooling, tried) PROVE Continues(held, cooling, tried)'
    OBVIOUS
  <2>1. PICK now : now = cooling
    OBVIOUS
  <2>2. PICK done : done = tried
    OBVIOUS
  <2>3. PICK t : t = held
    OBVIOUS
  <2>4. Continues(t, now, done)
    BY <2>1, <2>2, <2>3
  <2> QED BY <1>1, <2>1, <2>2, <2>3, <2>4, ContinuesSame
<1>5. QueueHolds'
  BY <1>t, <1>1, <1>4 DEF QueueHolds
<1> QED BY <1>2, <1>3, <1>5 DEF Loop

LEMMA LoopCancels == Loop /\ CancelBody => Loop'
<1> SUFFICES ASSUME Loop, CancelBody PROVE Loop'
  OBVIOUS
<1>t. LoopTypeOK /\ BudgetKept /\ QueueHolds
  BY DEF Loop
<1>1. /\ pc = "cancel" /\ pc' = "loop" /\ held' = "none" /\ answer' = answer /\ GoOn(held)
      /\ UNCHANGED <<posted, policy, offered, tried, trigger, cooling, elsewhere>>
  BY DEF CancelBody, Stays
<1>2. /\ active' \in Seq(Routes) /\ active' # <<>>
      /\ at' \in Nat \ {0} /\ spent' \in Nat /\ retry' \in Nat
      /\ BudgetKept'
      /\ elsewhere = 0 /\ at <= Len(active) => at' <= Len(active')
  <2>1. elsewhere = 0 => Continues(held, cooling, tried)
    BY <1>t, <1>1 DEF QueueHolds
  <2>2. PICK t : t = held
    OBVIOUS
  <2>3. GoOn(t) /\ (Continues(held, cooling, tried) => Continues(t, cooling, tried))
    BY <1>1, <2>2
  <2> QED BY <1>t, <1>1, <2>1, <2>3, WentOn
<1>3. LoopTypeOK'
  BY <1>t, <1>1, <1>2 DEF LoopTypeOK
<1>4. QueueHolds'
  BY <1>t, <1>1, <1>2 DEF QueueHolds
<1> QED BY <1>2, <1>3, <1>4 DEF Loop

LEMMA LoopElsewhere == ASSUME NEW r \in Routes, Loop, Elsewhere(r) PROVE Loop'
<1>t. LoopTypeOK /\ BudgetKept /\ QueueHolds
  BY DEF Loop
<1>1. /\ UNCHANGED <<pc, posted, policy, offered, active, at, retry, spent, tried, trigger, held>>
      /\ elsewhere' = elsewhere + 1 /\ answer' = answer
      /\ cooling' = IF r \in cooling THEN cooling \ {r} ELSE cooling \cup {r}
  BY DEF Elsewhere, loopVars
<1>2. LoopTypeOK' /\ elsewhere' # 0
  BY <1>t, <1>1 DEF LoopTypeOK
<1>3. BudgetKept'
  BY <1>t, <1>1 DEF BudgetKept
<1>4. QueueHolds'
  BY <1>t, <1>1, <1>2 DEF QueueHolds
<1> QED BY <1>2, <1>3, <1>4 DEF Loop

LEMMA LoopStill ==
  ASSUME Loop, UNCHANGED <<loopVars, cooling, elsewhere, answer>> PROVE Loop'
<1>1. UNCHANGED <<pc, posted, policy, offered, active, at, retry, spent, tried, trigger, held,
                  cooling, elsewhere, answer>>
  BY DEF loopVars
<1>2. LoopTypeOK' /\ BudgetKept'
  BY <1>1 DEF Loop, LoopTypeOK, BudgetKept
<1>3. Continues(held, cooling, tried) => Continues(held, cooling, tried)'
  <2> SUFFICES ASSUME Continues(held, cooling, tried) PROVE Continues(held, cooling, tried)'
    OBVIOUS
  <2>1. PICK now : now = cooling
    OBVIOUS
  <2>2. PICK done : done = tried
    OBVIOUS
  <2>3. PICK t : t = held
    OBVIOUS
  <2>4. Continues(t, now, done)
    BY <2>1, <2>2, <2>3
  <2> QED BY <1>1, <2>1, <2>2, <2>3, <2>4, ContinuesSame
<1>4. QueueHolds'
  BY <1>1, <1>3 DEF Loop, QueueHolds
<1> QED BY <1>2, <1>4 DEF Loop

LEMMA LoopProceeds == Loop /\ Proceed => Loop'
<1> SUFFICES ASSUME Loop, Proceed PROVE Loop'
  OBVIOUS
<1>t. LoopTypeOK /\ cooling \in SUBSET Routes
  BY DEF Loop, LoopTypeOK
<1>1. CASE Refuse
  <2>1. Returns("refused", "quiet", FALSE, FALSE) /\ UNCHANGED <<cooling, elsewhere>>
    BY <1>1 DEF Refuse
  <2> QED BY <1>t, <2>1, Returned
<1>2. CASE AnswerLocally
  <2>1. Returns("local", "plain", FALSE, TRUE) /\ UNCHANGED <<cooling, elsewhere>>
    BY <1>2 DEF AnswerLocally
  <2> QED BY <1>t, <2>1, Returned
<1>3. ASSUME NEW t \in {"timeout", "network"}, Fails(t) PROVE Loop'
  BY <1>3, LoopFails
<1>4. ASSUME NEW s \in {"ok", "429", "5xx", "4xx"}, NEW k \in {"empty", "plain", "sse"}, Arrives(s, k)
      PROVE  Loop'
  BY <1>4, LoopArrives
<1> QED BY <1>1, <1>2, <1>3, <1>4, LoopAdmits, LoopSkips, LoopSends, LoopExhausts, LoopSnapshots,
           LoopCancels DEF Proceed

LEMMA LoopStep == Loop /\ [GatewayNext]_gatewayVars => Loop'
<1> SUFFICES ASSUME Loop, [GatewayNext]_gatewayVars PROVE Loop'
  OBVIOUS
<1>1. CASE Proceed
  BY <1>1, LoopProceeds
<1>2. ASSUME NEW r \in Routes, Elsewhere(r) PROVE Loop'
  BY <1>2, LoopElsewhere
<1>3. CASE RunWrite \/ LogResponse
  <2>1. UNCHANGED <<loopVars, cooling, elsewhere, answer>>
    BY <1>3 DEF RunWrite, LogResponse
  <2> QED BY <2>1, LoopStill
<1>4. CASE Observes
  <2>1. UNCHANGED <<loopVars, cooling, elsewhere, answer>>
    BY <1>4 DEF Observes, handlerVars
  <2> QED BY <2>1, LoopStill
<1>5. CASE UNCHANGED gatewayVars
  <2>1. UNCHANGED <<loopVars, cooling, elsewhere, answer>>
    BY <1>5 DEF gatewayVars, handlerVars
  <2> QED BY <2>1, LoopStill
<1> QED BY <1>1, <1>2, <1>3, <1>4, <1>5 DEF GatewayNext
-----------------------------------------------------------------------------
(* The request's row and the statements that wait                          *)

LogInv == LogTypeOK /\ SavesInOrder /\ SnapshotTold

\* One more statement waits, behind the others.
LEMMA QueuedIs ==
  ASSUME LogTypeOK, NEW w \in Statement, Queue(<<w>>)
  PROVE  /\ writes' \in Seq(Statement) /\ Len(writes) \in Nat /\ Len(writes') = Len(writes) + 1
         /\ \A i \in 1..Len(writes) : writes'[i] = writes[i]
         /\ writes'[Len(writes) + 1] = w
         /\ \A i \in 1..Len(writes') : i \in 1..Len(writes) \/ i = Len(writes) + 1
<1>1. writes' = writes \o <<w>> /\ writes \in Seq(Statement) /\ <<w>> \in Seq(Statement) /\ Len(<<w>>) = 1
  BY DEF Queue, LogTypeOK
<1>2. /\ writes' \in Seq(Statement) /\ Len(writes') = Len(writes) + 1
      /\ \A i \in 1..(Len(writes) + 1) :
            writes'[i] = IF i <= Len(writes) THEN writes[i] ELSE <<w>>[i - Len(writes)]
  BY <1>1, ConcatProperties
<1>3. Len(writes) \in Nat
  BY <1>1
<1>4. writes'[Len(writes) + 1] = w
  <2>1. Len(writes) + 1 \in 1..(Len(writes) + 1) /\ ~(Len(writes) + 1 <= Len(writes))
        /\ Len(writes) + 1 - Len(writes) = 1
    BY <1>3
  <2> QED BY <1>2, <2>1
<1> QED BY <1>2, <1>3, <1>4

LEMMA LogStill == ASSUME LogInv, UNCHANGED <<writes, saves, row, first429>> PROVE LogInv'
BY DEF LogInv, LogTypeOK, SavesInOrder, SnapshotTold, FirstSnapshotWaits

LEMMA LogSaves ==
  ASSUME LogInv, SaveAttempt, UNCHANGED <<row, first429>>
  PROVE  LogInv' /\ saves' > 0
<1>t. LogTypeOK /\ SavesInOrder /\ SnapshotTold /\ saves \in Nat /\ row \in Row /\ first429 \in Nat
  BY DEF LogInv, LogTypeOK
<1> DEFINE w == [kind |-> "request", save |-> saves + 1]
           n == Len(writes)
<1>1. saves' = saves + 1 /\ Queue(<<w>>)
  BY DEF SaveAttempt
<1>2. w \in Statement /\ w.kind = "request" /\ w.save = saves + 1
  BY <1>t DEF Statement
<1> HIDE DEF w
<1>3. /\ writes' \in Seq(Statement) /\ n \in Nat /\ Len(writes') = n + 1
      /\ \A i \in 1..n : writes'[i] = writes[i]
      /\ writes'[n + 1] = w
      /\ \A i \in 1..Len(writes') : i \in 1..n \/ i = n + 1
  BY <1>t, <1>1, <1>2, QueuedIs
<1>4. LogTypeOK'
  BY <1>t, <1>1, <1>3 DEF LogTypeOK
<1>5. SavesInOrder'
  <2>1. row'.save <= saves'
    BY <1>t, <1>1 DEF SavesInOrder, Row
  <2>2. ASSUME NEW i \in 1..Len(writes'), writes'[i].kind = "request"
        PROVE  /\ row'.save < writes'[i].save /\ writes'[i].save <= saves'
               /\ \A j \in 1..(i - 1) : writes'[j].kind = "request" => writes'[j].save < writes'[i].save
    <3>1. CASE i \in 1..n
      <4>1. /\ writes[i] \in Statement /\ writes'[i] = writes[i]
            /\ row.save < writes[i].save /\ writes[i].save <= saves
            /\ \A j \in 1..(i - 1) : writes[j].kind = "request" => writes[j].save < writes[i].save
        BY <1>t, <1>3, <2>2, <3>1 DEF SavesInOrder, LogTypeOK
      <4>2. \A j \in 1..(i - 1) : writes'[j] = writes[j]
        BY <1>3, <3>1
      <4>3. writes[i].save \in Nat
        BY <4>1 DEF Statement
      <4> QED BY <1>t, <1>1, <4>1, <4>2, <4>3
    <3>2. CASE i = n + 1
      <4>1. writes'[i].save = saves + 1
        BY <1>2, <1>3, <3>2
      <4>2. \A j \in 1..(i - 1) : /\ writes'[j] = writes[j] /\ writes[j] \in Statement
                                  /\ writes[j].kind = "request" => writes[j].save <= saves
        BY <1>t, <1>3, <3>2 DEF SavesInOrder, LogTypeOK
      <4>3. \A j \in 1..(i - 1) : writes[j].save \in Nat
        BY <4>2 DEF Statement
      <4>4. row.save \in Nat /\ row.save <= saves
        BY <1>t DEF SavesInOrder, Row
      <4> QED BY <1>t, <1>1, <4>1, <4>2, <4>3, <4>4
    <3> QED BY <1>3, <2>2, <3>1, <3>2
  <2>3. n + 1 \in 1..Len(writes') /\ writes'[n + 1].kind = "request" /\ writes'[n + 1].save = saves'
    BY <1>1, <1>2, <1>3
  <2> QED BY <2>1, <2>2, <2>3 DEF SavesInOrder
<1>6. SnapshotTold'
  <2>1. CASE first429 = 0
    <3>1. \A i \in 1..Len(writes') : writes'[i].kind # "snapshot"
      BY <1>t, <1>2, <1>3, <2>1 DEF SnapshotTold
    <3> QED BY <1>t, <2>1, <3>1 DEF SnapshotTold
  <2>2. CASE first429 # 0 /\ row.snapshot = first429
    BY <2>2 DEF SnapshotTold
  <2>3. CASE first429 # 0 /\ row.snapshot = 0 /\ FirstSnapshotWaits
    <3>1. PICK i \in 1..n :
             /\ writes[i] = [kind |-> "snapshot", save |-> first429]
             /\ \A j \in 1..(i - 1) : writes[j].kind # "snapshot"
             /\ row.save > 0 \/ \E j \in 1..(i - 1) : writes[j].kind = "request"
      BY <2>3 DEF FirstSnapshotWaits
    <3>2. i \in 1..Len(writes') /\ writes'[i] = writes[i] /\ \A j \in 1..(i - 1) : writes'[j] = writes[j]
      BY <1>3
    <3>3. FirstSnapshotWaits'
      BY <3>1, <3>2 DEF FirstSnapshotWaits
    <3> QED BY <2>3, <3>3 DEF SnapshotTold
  <2> QED BY <1>t, <2>1, <2>2, <2>3 DEF SnapshotTold
<1> QED BY <1>t, <1>1, <1>4, <1>5, <1>6 DEF LogInv

\* A save has been asked for: it is in the row, or waits.
LEMMA SaveThere ==
  ASSUME LogInv, saves > 0
  PROVE  row.save > 0 \/ \E j \in 1..Len(writes) : writes[j].kind = "request"
<1>1. CASE row.save = saves
  BY <1>1
<1>2. CASE \E i \in 1..Len(writes) : writes[i].kind = "request" /\ writes[i].save = saves
  BY <1>2
<1> QED BY <1>1, <1>2 DEF LogInv, SavesInOrder

LEMMA LogSnapshots == ASSUME LogInv, saves > 0, TakeSnapshot PROVE LogInv'
<1>t. LogTypeOK /\ SavesInOrder /\ SnapshotTold /\ saves \in Nat /\ row \in Row /\ first429 \in Nat
  BY DEF LogInv, LogTypeOK
<1> DEFINE w == [kind |-> "snapshot", save |-> saves]
           n == Len(writes)
<1>1. /\ saves' = saves /\ row' = row /\ Queue(<<w>>)
      /\ first429' = IF first429 = 0 THEN saves ELSE first429
  BY DEF TakeSnapshot
<1>2. w \in Statement /\ w.kind = "snapshot" /\ w.save = saves
  BY <1>t DEF Statement
<1>w. w = [kind |-> "snapshot", save |-> saves]
  OBVIOUS
<1> HIDE DEF w
<1>3. /\ writes' \in Seq(Statement) /\ n \in Nat /\ Len(writes') = n + 1
      /\ \A i \in 1..n : writes'[i] = writes[i]
      /\ writes'[n + 1] = w
      /\ \A i \in 1..Len(writes') : i \in 1..n \/ i = n + 1
  BY <1>t, <1>1, <1>2, QueuedIs
<1>4. LogTypeOK'
  BY <1>t, <1>1, <1>3 DEF LogTypeOK
<1>5. SavesInOrder'
  <2>1. ASSUME NEW i \in 1..Len(writes'), writes'[i].kind = "request"
        PROVE  /\ row'.save < writes'[i].save /\ writes'[i].save <= saves'
               /\ \A j \in 1..(i - 1) : writes'[j].kind = "request" => writes'[j].save < writes'[i].save
    <3>1. i \in 1..n /\ writes'[i] = writes[i]
      BY <1>2, <1>3, <2>1
    <3>2. \A j \in 1..(i - 1) : writes'[j] = writes[j]
      BY <1>3, <3>1
    <3> QED BY <1>t, <1>1, <2>1, <3>1, <3>2 DEF SavesInOrder
  <2>2. row'.save = saves' \/ \E i \in 1..Len(writes') : writes'[i].kind = "request" /\ writes'[i].save = saves'
    <3>1. CASE row.save = saves
      BY <1>1, <3>1
    <3>2. CASE \E i \in 1..n : writes[i].kind = "request" /\ writes[i].save = saves
      BY <1>1, <1>3, <3>2
    <3> QED BY <1>t, <3>1, <3>2 DEF SavesInOrder
  <2>3. row'.save <= saves'
    BY <1>t, <1>1 DEF SavesInOrder
  <2> QED BY <2>1, <2>2, <2>3 DEF SavesInOrder
<1>6. SnapshotTold'
  <2>1. CASE first429 = 0
    <3>1. first429' = saves /\ first429' # 0 /\ row.snapshot = 0
      BY <1>t, <1>1, <2>1 DEF SnapshotTold
    <3>2. \A j \in 1..n : writes'[j].kind # "snapshot"
      BY <1>t, <1>3, <2>1 DEF SnapshotTold
    <3>3. row.save > 0 \/ \E j \in 1..n : writes'[j].kind = "request"
      BY <1>3, SaveThere
    <3>4. n + 1 \in 1..Len(writes') /\ writes'[n + 1] = [kind |-> "snapshot", save |-> first429']
          /\ (n + 1) - 1 = n
      BY <1>w, <1>3, <3>1
    <3>5. FirstSnapshotWaits'
      BY <1>1, <3>2, <3>3, <3>4 DEF FirstSnapshotWaits
    <3> QED BY <1>1, <3>1, <3>5 DEF SnapshotTold
  <2>2. CASE first429 # 0 /\ row.snapshot = first429
    BY <1>1, <2>2 DEF SnapshotTold
  <2>3. CASE first429 # 0 /\ row.snapshot = 0 /\ FirstSnapshotWaits
    <3>1. PICK i \in 1..n :
             /\ writes[i] = [kind |-> "snapshot", save |-> first429]
             /\ \A j \in 1..(i - 1) : writes[j].kind # "snapshot"
             /\ row.save > 0 \/ \E j \in 1..(i - 1) : writes[j].kind = "request"
      BY <2>3 DEF FirstSnapshotWaits
    <3>2. i \in 1..Len(writes') /\ writes'[i] = writes[i] /\ \A j \in 1..(i - 1) : writes'[j] = writes[j]
      BY <1>3
    <3>3. first429' = first429 /\ row' = row
      BY <1>1, <2>3
    <3>4. FirstSnapshotWaits'
      BY <3>1, <3>2, <3>3 DEF FirstSnapshotWaits
    <3> QED BY <2>3, <3>3, <3>4 DEF SnapshotTold
  <2> QED BY <1>t, <2>1, <2>2, <2>3 DEF SnapshotTold
<1> QED BY <1>4, <1>5, <1>6 DEF LogInv

LEMMA LogRuns == ASSUME LogInv, RunWrite PROVE LogInv' /\ row'.response = row.response
<1>t. LogTypeOK /\ SavesInOrder /\ SnapshotTold /\ saves \in Nat /\ row \in Row /\ first429 \in Nat
  BY DEF LogInv, LogTypeOK
<1> DEFINE n == Len(writes)
           w == writes[1]
<1>1. writes # <<>> /\ row' = Written(Head(writes), row) /\ writes' = Tail(writes) /\ saves' = saves
      /\ first429' = first429
  BY DEF RunWrite, loopVars
<1>2. writes \in Seq(Statement) /\ n \in Nat \ {0} /\ Head(writes) = w /\ w \in Statement
  BY <1>t, <1>1, EmptySeq DEF LogTypeOK
<1>3. /\ writes' \in Seq(Statement) /\ Len(writes') = n - 1
      /\ \A i \in 1..Len(writes') : writes'[i] = writes[i + 1]
  BY <1>1, <1>2, HeadTailProperties
<1>4. \A i \in 1..Len(writes') : i + 1 \in 1..n /\ \A j \in 1..(i - 1) : j + 1 \in 1..(i + 1 - 1)
  BY <1>2, <1>3
<1>5. w.kind \in {"request", "snapshot"} /\ w.save \in Nat
  BY <1>2 DEF Statement
<1>6. row.save \in Nat /\ row.snapshot \in Nat /\ row.response \in Records
  BY <1>t DEF Row
<1>7. CASE w.kind = "request"
  <2>1. row' = [row EXCEPT !.save = w.save]
    BY <1>1, <1>2, <1>7 DEF Written
  <2>2. row'.save = w.save /\ row'.snapshot = row.snapshot /\ row'.response = row.response /\ row' \in Row
    BY <1>t, <1>5, <2>1 DEF Row
  <2>3. row.save < w.save /\ w.save <= saves
    BY <1>t, <1>2, <1>7 DEF SavesInOrder
  <2>4. ASSUME NEW i \in 1..Len(writes'), writes'[i].kind = "request"
        PROVE  /\ row'.save < writes'[i].save /\ writes'[i].save <= saves'
               /\ \A j \in 1..(i - 1) : writes'[j].kind = "request" => writes'[j].save < writes'[i].save
    <3>1. /\ writes'[i] = writes[i + 1] /\ i + 1 \in 1..n /\ 1 \in 1..(i + 1 - 1)
          /\ \A j \in 1..(i - 1) : writes'[j] = writes[j + 1] /\ j + 1 \in 1..(i + 1 - 1)
      BY <1>2, <1>3, <1>4
    <3>2. /\ writes[i + 1].save <= saves
          /\ \A j \in 1..(i + 1 - 1) : writes[j].kind = "request" => writes[j].save < writes[i + 1].save
      BY <1>t, <2>4, <3>1 DEF SavesInOrder
    <3> HIDE DEF n
    <3> QED BY <1>1, <1>7, <2>2, <3>1, <3>2
  <2>5. row'.save = saves' \/ \E i \in 1..Len(writes') : writes'[i].kind = "request" /\ writes'[i].save = saves'
    <3>1. row.save # saves
      BY <1>5, <1>6, <1>t, <2>3
    <3>2. PICK i \in 1..n : writes[i].kind = "request" /\ writes[i].save = saves
      BY <1>t, <3>1 DEF SavesInOrder
    <3>3. CASE i = 1
      BY <1>1, <2>2, <3>2, <3>3
    <3>4. CASE i # 1
      <4>1. i - 1 \in 1..Len(writes') /\ writes'[i - 1] = writes[i]
        BY <1>2, <1>3, <3>4
      <4> QED BY <1>1, <3>2, <4>1
    <3> QED BY <3>3, <3>4
  <2>6. SavesInOrder'
    <3>1. row'.save <= saves'
      BY <1>1, <2>2, <2>3
    <3> QED BY <2>4, <2>5, <3>1 DEF SavesInOrder
  <2>7. SnapshotTold'
    <3>1. CASE first429 = 0
      <4>1. \A i \in 1..Len(writes') : writes'[i].kind # "snapshot"
        BY <1>t, <1>3, <1>4, <3>1 DEF SnapshotTold
      <4> QED BY <1>t, <1>1, <2>2, <3>1, <4>1 DEF SnapshotTold
    <3>2. CASE first429 # 0 /\ row.snapshot = first429
      BY <1>1, <2>2, <3>2 DEF SnapshotTold
    <3>3. CASE first429 # 0 /\ row.snapshot = 0 /\ FirstSnapshotWaits
      <4>1. PICK i \in 1..n :
               /\ writes[i] = [kind |-> "snapshot", save |-> first429]
               /\ \A j \in 1..(i - 1) : writes[j].kind # "snapshot"
        BY <3>3 DEF FirstSnapshotWaits
      <4>2. i # 1
        BY <1>7, <4>1
      <4>3. i - 1 \in 1..Len(writes') /\ writes'[i - 1] = writes[i]
        BY <1>2, <1>3, <4>2
      <4>4. \A j \in 1..(i - 1 - 1) : writes'[j] = writes[j + 1] /\ j + 1 \in 1..(i - 1)
        BY <1>2, <1>3
      <4>5. row'.save > 0
        BY <1>5, <1>6, <2>2, <2>3
      <4>6. FirstSnapshotWaits'
        BY <1>1, <4>1, <4>3, <4>4, <4>5 DEF FirstSnapshotWaits
      <4> QED BY <1>1, <2>2, <3>3, <4>6 DEF SnapshotTold
    <3> QED BY <1>t, <3>1, <3>2, <3>3 DEF SnapshotTold
  <2>8. LogTypeOK'
    BY <1>t, <1>1, <1>3, <2>2 DEF LogTypeOK
  <2> QED BY <2>2, <2>6, <2>7, <2>8 DEF LogInv
<1>8. CASE w.kind = "snapshot"
  <2>1. row' = IF row.save > 0 /\ row.snapshot = 0 THEN [row EXCEPT !.snapshot = w.save] ELSE row
    BY <1>1, <1>2, <1>8 DEF Written
  <2>2. row'.save = row.save /\ row'.response = row.response /\ row' \in Row
    BY <1>t, <1>5, <2>1 DEF Row
  <2>3. ASSUME NEW i \in 1..Len(writes'), writes'[i].kind = "request"
        PROVE  /\ row'.save < writes'[i].save /\ writes'[i].save <= saves'
               /\ \A j \in 1..(i - 1) : writes'[j].kind = "request" => writes'[j].save < writes'[i].save
    <3>1. /\ writes'[i] = writes[i + 1] /\ i + 1 \in 1..n
          /\ \A j \in 1..(i - 1) : writes'[j] = writes[j + 1] /\ j + 1 \in 1..(i + 1 - 1)
      BY <1>2, <1>3, <1>4
    <3>2. /\ row.save < writes[i + 1].save /\ writes[i + 1].save <= saves
          /\ \A j \in 1..(i + 1 - 1) : writes[j].kind = "request" => writes[j].save < writes[i + 1].save
      BY <1>t, <2>3, <3>1 DEF SavesInOrder
    <3> HIDE DEF n
    <3> QED BY <1>1, <2>2, <3>1, <3>2
  <2>4. row'.save = saves' \/ \E i \in 1..Len(writes') : writes'[i].kind = "request" /\ writes'[i].save = saves'
    <3>1. CASE row.save = saves
      BY <1>1, <2>2, <3>1
    <3>2. CASE row.save # saves
      <4>1. PICK i \in 1..n : writes[i].kind = "request" /\ writes[i].save = saves
        BY <1>t, <3>2 DEF SavesInOrder
      <4>2. i - 1 \in 1..Len(writes') /\ writes'[i - 1] = writes[i]
        BY <1>2, <1>3, <1>8, <4>1
      <4> QED BY <1>1, <4>1, <4>2
    <3> QED BY <3>1, <3>2
  <2>5. SavesInOrder'
    <3>1. row'.save <= saves'
      BY <1>t, <1>1, <2>2 DEF SavesInOrder
    <3> QED BY <2>3, <2>4, <3>1 DEF SavesInOrder
  <2>6. SnapshotTold'
    <3>1. first429 # 0
      BY <1>t, <1>2, <1>8 DEF SnapshotTold
    <3>2. CASE row.snapshot = first429
      BY <1>1, <2>1, <3>1, <3>2 DEF SnapshotTold
    <3>3. CASE row.snapshot = 0 /\ FirstSnapshotWaits
      <4>1. PICK i \in 1..n :
               /\ writes[i] = [kind |-> "snapshot", save |-> first429]
               /\ \A j \in 1..(i - 1) : writes[j].kind # "snapshot"
               /\ row.save > 0 \/ \E j \in 1..(i - 1) : writes[j].kind = "request"
        BY <3>3 DEF FirstSnapshotWaits
      <4>2. i = 1
        BY <1>2, <1>8, <4>1
      <4>3. row.save > 0 /\ w.save = first429
        BY <4>1, <4>2
      <4>4. row'.snapshot = first429
        BY <1>t, <2>1, <3>3, <4>3 DEF Row
      <4> QED BY <1>1, <3>1, <4>4 DEF SnapshotTold
    <3> QED BY <1>t, <3>1, <3>2, <3>3 DEF SnapshotTold
  <2>7. LogTypeOK'
    BY <1>t, <1>1, <1>3, <2>2 DEF LogTypeOK
  <2> QED BY <2>2, <2>5, <2>6, <2>7 DEF LogInv
<1> QED BY <1>5, <1>7, <1>8

LEMMA LogResponds ==
  ASSUME LogInv, LogResponse, saves > 0
  PROVE  LogInv' /\ row'.response = Record
<1>t. LogTypeOK /\ SavesInOrder /\ SnapshotTold /\ saves \in Nat /\ row \in Row /\ first429 \in Nat
  BY DEF LogInv, LogTypeOK
<1>1. /\ writes = <<>> /\ row' = Written([kind |-> "response", what |-> Record], row)
      /\ UNCHANGED <<writes, saves, first429>>
  BY DEF LogResponse, loopVars
<1>2. row.save = saves /\ row.save > 0
  BY <1>t, <1>1 DEF SavesInOrder
<1>3. row' = [row EXCEPT !.response = Record]
  BY <1>1, <1>2 DEF Written
<1>4. Record \in Records
  BY DEF Record, Records
<1>5. row' \in Row /\ row'.save = row.save /\ row'.snapshot = row.snapshot /\ row'.response = Record
  BY <1>t, <1>3, <1>4 DEF Row
<1>6. LogTypeOK'
  BY <1>t, <1>1, <1>5 DEF LogTypeOK
<1>7. SavesInOrder'
  BY <1>t, <1>1, <1>5 DEF SavesInOrder
<1>8. SnapshotTold'
  BY <1>t, <1>1, <1>5 DEF SnapshotTold, FirstSnapshotWaits
<1> QED BY <1>5, <1>6, <1>7, <1>8 DEF LogInv
-----------------------------------------------------------------------------
(* The whole                                                               *)

Kinds == {"empty", "quiet", "plain", "sse"}

\* What a step of the handler does to the response and to the request's row.
HandlerGoesOn ==
  /\ pc # "done" /\ pc' # "done" /\ pc' # "start"
  /\ UNCHANGED observerVars
  /\ pc' = "snapshot" => SaveAttempt
HandlerAnswers ==
  /\ pc # "done" /\ pc' = "done"
  /\ \E k \in Kinds, u, l \in BOOLEAN : Begin(k, u, l) /\ (l => k # "quiet") /\ (l <=> LogsEnd')
HandlerLogs == (UNCHANGED first429 /\ (SaveAttempt \/ NotLogged)) \/ TakeSnapshot

LEMMA ReturnedAs ==
  ASSUME NEW a, NEW k \in Kinds, NEW u \in BOOLEAN, NEW l \in BOOLEAN, Returns(a, k, u, l), pc # "done",
         l => k # "quiet", l <=> LogsEnd'
  PROVE  HandlerAnswers /\ UNCHANGED first429
BY DEF Returns, HandlerAnswers

\* The end of a request whose last attempt is saved as it is answered is logged if it is a POST.
LEMMA EndLogged ==
  ASSUME posted \in BOOLEAN, saves \in Nat, SaveAttempt,
         NEW a \in {"local", "cooling", "timeout", "network", "upstream"}, NEW k, NEW u, NEW l,
         Returns(a, k, u, l)
  PROVE  posted <=> LogsEnd'
<1>1. saves' > 0
  BY DEF SaveAttempt
<1>2. answer' = a /\ posted' = posted
  BY DEF Returns
<1> QED BY <1>1, <1>2 DEF LogsEnd

LEMMA Footprint ==
  ASSUME Proceed, HandlerStage, posted \in BOOLEAN, saves \in Nat
  PROVE  (HandlerGoesOn \/ HandlerAnswers) /\ HandlerLogs /\ UNCHANGED row
<1>k. "quiet" \in Kinds /\ "plain" \in Kinds /\ FALSE \in BOOLEAN /\ TRUE \in BOOLEAN
  BY DEF Kinds
<1>1. CASE Refuse
  <2>1. pc = "start" /\ Returns("refused", "quiet", FALSE, FALSE) /\ NotLogged /\ UNCHANGED row
    BY <1>1 DEF Refuse
  <2>2. saves' = 0
    BY <2>1 DEF HandlerStage, NotLogged
  <2>3. ~LogsEnd'
    BY <2>2 DEF LogsEnd
  <2> QED BY <1>k, <2>1, <2>3, ReturnedAs DEF HandlerLogs
<1>2. CASE Admit
  BY <1>2 DEF Admit, Stays, HandlerGoesOn, HandlerLogs
<1>3. CASE AnswerLocally
  <2>1. pc # "done" /\ Returns("local", "plain", FALSE, TRUE) /\ SaveAttempt /\ UNCHANGED row
    BY <1>3 DEF AnswerLocally
  <2>2. posted
    BY <1>3 DEF AnswerLocally, ModeOf
  <2>3. LogsEnd'
    BY <2>1, <2>2, EndLogged
  <2> QED BY <1>k, <2>1, <2>3, ReturnedAs DEF HandlerLogs
<1>4. CASE SkipCooling
  <2>1. pc = "loop" /\ SaveAttempt /\ UNCHANGED row
    BY <1>4 DEF SkipCooling
  <2>2. \/ Stays /\ UNCHANGED <<pc, first429>>
        \/ Returns("cooling", "plain", FALSE, posted)
    BY <1>4 DEF SkipCooling
  <2>3. CASE Stays /\ UNCHANGED <<pc, first429>>
    BY <2>1, <2>3 DEF Stays, HandlerGoesOn, HandlerLogs
  <2>4. CASE Returns("cooling", "plain", FALSE, posted)
    <3>1. posted <=> LogsEnd'
      BY <2>1, <2>4, EndLogged
    <3> QED BY <1>k, <2>1, <2>4, <3>1, ReturnedAs DEF HandlerLogs
  <2> QED BY <2>2, <2>3, <2>4
<1>5. CASE Send
  BY <1>5 DEF Send, Stays, HandlerGoesOn, HandlerLogs
<1>6. CASE NoRouteLeft
  <2>1. pc # "done" /\ Returns("exhausted", "quiet", FALSE, FALSE) /\ NotLogged /\ UNCHANGED row
    BY <1>6 DEF NoRouteLeft
  <2>2. ~LogsEnd'
    BY <2>1 DEF Returns, LogsEnd
  <2> QED BY <1>k, <2>1, <2>2, ReturnedAs DEF HandlerLogs
<1>7. ASSUME NEW t \in {"timeout", "network"}, Fails(t)
      PROVE  (HandlerGoesOn \/ HandlerAnswers) /\ HandlerLogs /\ UNCHANGED row
  <2>1. pc = "sent" /\ UNCHANGED row
    BY <1>7 DEF Fails
  <2>2. \/ pc' = "loop" /\ Stays /\ NotLogged /\ UNCHANGED first429
        \/ SaveAttempt /\ Returns(t, "plain", FALSE, posted)
    BY <1>7 DEF Fails
  <2>3. CASE pc' = "loop" /\ Stays /\ NotLogged /\ UNCHANGED first429
    BY <2>1, <2>3 DEF Stays, HandlerGoesOn, HandlerLogs
  <2>4. CASE SaveAttempt /\ Returns(t, "plain", FALSE, posted)
    <3>1. posted <=> LogsEnd'
      BY <2>4, EndLogged
    <3> QED BY <1>k, <2>1, <2>4, <3>1, ReturnedAs DEF HandlerLogs
  <2> QED BY <2>2, <2>3, <2>4
<1>8. ASSUME NEW s \in {"ok", "429", "5xx", "4xx"}, NEW k \in {"empty", "plain", "sse"}, Arrives(s, k)
      PROVE  (HandlerGoesOn \/ HandlerAnswers) /\ HandlerLogs /\ UNCHANGED row
  <2>1. pc = "sent" /\ UNCHANGED row
    BY <1>8 DEF Arrives
  <2>2. \/ /\ pc' = (IF s = "429" THEN "snapshot" ELSE "cancel")
           /\ IF s = "429" THEN SaveAttempt ELSE NotLogged
           /\ Stays /\ UNCHANGED first429
        \/ SaveAttempt /\ Returns("upstream", k, TRUE, posted)
    BY <1>8 DEF Arrives
  <2>3. CASE /\ pc' = (IF s = "429" THEN "snapshot" ELSE "cancel")
             /\ IF s = "429" THEN SaveAttempt ELSE NotLogged
             /\ Stays /\ UNCHANGED first429
    BY <2>1, <2>3 DEF Stays, HandlerGoesOn, HandlerLogs
  <2>4. CASE SaveAttempt /\ Returns("upstream", k, TRUE, posted)
    <3>1. k \in Kinds /\ k # "quiet"
      BY DEF Kinds
    <3>2. posted <=> LogsEnd'
      BY <2>4, EndLogged
    <3> QED BY <1>k, <2>1, <2>4, <3>1, <3>2, ReturnedAs DEF HandlerLogs
  <2> QED BY <2>2, <2>3, <2>4
<1>9. CASE TakeSnapshot
  <2>1. pc # "done" /\ pc' = "cancel" /\ Stays /\ UNCHANGED row
    BY <1>9 DEF TakeSnapshot
  <2> QED BY <1>9, <2>1 DEF Stays, HandlerGoesOn, HandlerLogs
<1>10. CASE CancelBody
  BY <1>10 DEF CancelBody, Stays, HandlerGoesOn, HandlerLogs
<1> QED BY <1>1, <1>2, <1>3, <1>4, <1>5, <1>6, <1>7, <1>8, <1>9, <1>10 DEF Proceed

Recorded429 == posted \in BOOLEAN /\ ObserverInv /\ HandlerStage /\ LogInv /\ ResponseTold

LEMMA PostedStays == Proceed => posted' = posted
BY DEF Proceed, Refuse, Admit, AnswerLocally, SkipCooling, Send, NoRouteLeft, Fails, Arrives,
       TakeSnapshot, CancelBody, Returns

LEMMA RecordProceeds == Recorded429 /\ Proceed => Recorded429'
<1> SUFFICES ASSUME Recorded429, Proceed PROVE Recorded429'
  OBVIOUS
<1>p. posted \in BOOLEAN /\ posted' = posted
  BY PostedStays DEF Recorded429
<1>t. ObserverInv /\ HandlerStage /\ LogInv /\ ResponseTold /\ ObserverTypeOK /\ saves \in Nat
  BY DEF Recorded429, ObserverInv, LogInv, LogTypeOK
<1>1. (HandlerGoesOn \/ HandlerAnswers) /\ HandlerLogs /\ UNCHANGED row
  BY <1>p, <1>t, Footprint
<1>2. LogInv' /\ saves' >= saves /\ (SaveAttempt => saves' > 0)
  <2>1. ASSUME SaveAttempt, UNCHANGED first429 PROVE LogInv' /\ saves' >= saves /\ saves' > 0
    <3>1. saves' = saves + 1
      BY <2>1 DEF SaveAttempt
    <3> QED BY <1>t, <1>1, <2>1, <3>1, LogSaves
  <2>2. ASSUME NotLogged, UNCHANGED first429 PROVE LogInv' /\ saves' = saves
    <3>1. UNCHANGED <<writes, saves, row, first429>>
      BY <1>1, <2>2 DEF NotLogged
    <3> QED BY <1>t, <3>1, LogStill
  <2>3. ASSUME TakeSnapshot PROVE LogInv' /\ saves' = saves
    <3>1. pc = "snapshot" /\ saves' = saves
      BY <2>3 DEF TakeSnapshot
    <3>2. saves > 0
      BY <1>t, <3>1 DEF HandlerStage
    <3> QED BY <1>t, <2>3, <3>1, <3>2, LogSnapshots
  <2>4. SaveAttempt => saves' > 0
    BY <1>t DEF SaveAttempt
  <2> QED BY <1>t, <1>1, <2>1, <2>2, <2>3, <2>4 DEF HandlerLogs
<1>3. CASE HandlerGoesOn
  <2>1. /\ pc # "done" /\ pc' # "done" /\ pc' # "start" /\ UNCHANGED observerVars
        /\ pc' = "snapshot" => saves' > 0
    BY <1>2, <1>3 DEF HandlerGoesOn
  <2>2. ObserverInv' /\ kind' = kind /\ obs' = obs /\ completed' = completed
    BY <1>t, <2>1, ObserverStill DEF observerVars, bodyVars, collectorVars
  <2>3. kind = "none"
    BY <1>t, <2>1 DEF HandlerStage
  <2>4. HandlerStage'
    BY <2>1, <2>2, <2>3 DEF HandlerStage
  <2>5. ResponseTold'
    BY <1>t, <1>1, <2>2, <2>3 DEF ResponseTold
  <2> QED BY <1>p, <1>2, <2>2, <2>4, <2>5 DEF Recorded429
<1>4. CASE HandlerAnswers
  <2>1. PICK k \in Kinds, u \in BOOLEAN, l \in BOOLEAN :
          Begin(k, u, l) /\ (l => k # "quiet") /\ (l <=> LogsEnd')
    BY <1>4 DEF HandlerAnswers
  <2>2. pc # "done" /\ pc' = "done"
    BY <1>4 DEF HandlerAnswers
  <2>3. ObserverInv'
    BY <1>t, <2>1, ObserverBegins DEF Kinds
  <2>4. kind = "none" /\ kind' # "none" /\ (l <=> obs' # "off")
    BY <2>1 DEF Begin, Kinds
  <2>6. HandlerStage'
    BY <2>2, <2>4 DEF HandlerStage
  <2>7. row.response = "none"
    BY <1>t, <2>4 DEF ResponseTold
  <2>8. ResponseTold'
    BY <1>1, <2>1, <2>4, <2>7 DEF ResponseTold
  <2> QED BY <1>p, <1>2, <2>3, <2>6, <2>8 DEF Recorded429
<1> QED BY <1>1, <1>3, <1>4

LEMMA RecordStep == Recorded429 /\ [GatewayNext]_gatewayVars => Recorded429'
<1> SUFFICES ASSUME Recorded429, [GatewayNext]_gatewayVars PROVE Recorded429'
  OBVIOUS
<1>t. posted \in BOOLEAN /\ ObserverInv /\ HandlerStage /\ LogInv /\ ResponseTold
  BY DEF Recorded429
<1>0. ASSUME UNCHANGED <<pc, posted, answer, observerVars, logVars, first429>> PROVE Recorded429'
  <2>1. UNCHANGED <<pc, posted, answer, kind, obs, completed, writes, row, saves, first429>>
    BY <1>0 DEF observerVars, bodyVars, collectorVars, logVars
  <2>2. ObserverInv' /\ LogInv'
    BY <1>t, <1>0, <2>1, ObserverStill, LogStill
  <2> QED BY <1>t, <2>1, <2>2 DEF Recorded429, HandlerStage, ResponseTold, LogsEnd
<1>1. CASE Proceed
  BY <1>1, RecordProceeds
<1>2. ASSUME NEW r \in Routes, Elsewhere(r) PROVE Recorded429'
  BY <1>0, <1>2 DEF Elsewhere, loopVars
<1>3. CASE RunWrite
  <2>1. LogInv' /\ row'.response = row.response
    BY <1>t, <1>3, LogRuns
  <2>2. UNCHANGED <<loopVars, answer, saves, observerVars>>
    BY <1>3 DEF RunWrite
  <2>3. UNCHANGED <<pc, posted, answer, kind, obs, completed, saves>>
    BY <2>2 DEF loopVars, observerVars, bodyVars, collectorVars
  <2>4. ObserverInv'
    BY <1>t, <2>2, ObserverStill
  <2> QED BY <1>t, <2>1, <2>3, <2>4 DEF Recorded429, HandlerStage, ResponseTold, LogsEnd
<1>4. CASE LogResponse
  <2>1. /\ obs \in {"resolved", "rejected"} /\ obs' = "off"
        /\ UNCHANGED <<pc, posted, answer, kind, relay, source, pending, got, client, seen, truncated, completed, saves>>
    BY <1>4 DEF LogResponse, loopVars, bodyVars
  <2>2. kind # "none" /\ LogsEnd /\ saves > 0
    BY <1>t, <2>1 DEF ObserverInv, CollectsAll, ResponseTold, LogsEnd
  <2>3. LogInv' /\ row'.response = Record
    BY <1>t, <1>4, <2>2, LogResponds
  <2>4. ObserverInv'
    BY <1>t, <2>1 DEF ObserverInv, ObserverTypeOK, CollectsAll
  <2>5. HandlerStage'
    BY <1>t, <2>1 DEF HandlerStage
  <2>6. ResponseTold'
    <3>1. Record # "none" /\ (Record = "full" => completed)
      BY DEF Record
    <3> QED BY <2>1, <2>2, <2>3, <3>1 DEF ResponseTold, LogsEnd
  <2> QED BY <1>t, <2>1, <2>3, <2>4, <2>5, <2>6 DEF Recorded429
<1>5. CASE Observes
  <2>1. ObserverNext /\ UNCHANGED <<loopVars, answer, logVars>>
    BY <1>5 DEF Observes, handlerVars
  <2>2. UNCHANGED <<pc, posted, answer, first429, writes, row, saves>>
    BY <2>1 DEF loopVars, logVars
  <2>3. ObserverInv' /\ kind' = kind /\ (obs' = "off" <=> obs = "off") /\ (completed => completed')
    BY <1>t, <2>1, ObserverSteps, ObserverOff
  <2>4. LogInv'
    BY <1>t, <2>2, LogStill
  <2>5. HandlerStage'
    BY <1>t, <2>2, <2>3 DEF HandlerStage
  <2>6. ResponseTold'
    BY <1>t, <2>2, <2>3 DEF ResponseTold, LogsEnd
  <2> QED BY <1>t, <2>2, <2>3, <2>4, <2>5, <2>6 DEF Recorded429
<1>6. CASE UNCHANGED gatewayVars
  BY <1>0, <1>6 DEF gatewayVars, handlerVars, loopVars
<1> QED BY <1>1, <1>2, <1>3, <1>4, <1>5, <1>6 DEF GatewayNext

-----------------------------------------------------------------------------
GatewayInv == Loop /\ Recorded429

LEMMA GatewayStarts == GatewayInit => GatewayInv
<1> SUFFICES ASSUME GatewayInit PROVE GatewayInv
  OBVIOUS
<1>1. /\ pc = "start" /\ posted \in BOOLEAN /\ policy \in Policies /\ offered \in Candidates
      /\ active = <<Initial>> /\ at = 1 /\ retry = 0 /\ spent = 0
      /\ tried = {} /\ trigger = "none" /\ held = "none" /\ cooling = {} /\ elsewhere = 0
      /\ answer = "none" /\ writes = <<>> /\ row = NoRow /\ first429 = 0 /\ saves = 0
      /\ kind = "none" /\ obs = "off" /\ completed = FALSE
  BY DEF GatewayInit, ObserverInit
<1>2. <<Initial>> \in Seq(Routes) /\ <<Initial>> # <<>> /\ Len(<<Initial>>) = 1
  BY GatewayAssumption
<1>3. policy.maxFallback \in Nat /\ policy.retryAttempts \in Nat
  BY <1>1, PolicyType
<1>4. LoopTypeOK
  BY <1>1, <1>2 DEF LoopTypeOK
<1>5. BudgetKept
  BY <1>1, <1>2, <1>3 DEF BudgetKept
<1>6. QueueHolds
  BY <1>1, <1>2 DEF QueueHolds
<1>7. ObserverInv
  BY ObserverStarts DEF GatewayInit
<1>8. HandlerStage
  BY <1>1 DEF HandlerStage
<1>9. row \in Row /\ row.save = 0 /\ row.snapshot = 0 /\ row.response = "none"
  BY <1>1 DEF Row, NoRow, Records
<1>10. Len(writes) = 0 /\ writes \in Seq(Statement)
  BY <1>1
<1>11. LogTypeOK
  BY <1>1, <1>9, <1>10 DEF LogTypeOK
<1>12. SavesInOrder
  BY <1>1, <1>9, <1>10 DEF SavesInOrder
<1>13. SnapshotTold
  BY <1>1, <1>9, <1>10 DEF SnapshotTold
<1>14. ResponseTold
  BY <1>1, <1>9 DEF ResponseTold
<1> QED BY <1>1, <1>4, <1>5, <1>6, <1>7, <1>8, <1>11, <1>12, <1>13, <1>14
        DEF GatewayInv, Loop, Recorded429, LogInv

LEMMA GatewayInductive == GatewaySpec => []GatewayInv
<1>1. GatewayInv /\ [GatewayNext]_gatewayVars => GatewayInv'
  BY LoopStep, RecordStep DEF GatewayInv
<1> QED BY <1>1, GatewayStarts, PTL DEF GatewaySpec

(* The handler's, the log's and the observer's variables stay in their     *)
(* types (index.ts, console-log-tasks.ts, response-observer.ts).           *)
THEOREM GatewayTypeCorrect == GatewaySpec => []GatewayTypeOK
<1>1. GatewayInv => GatewayTypeOK
  BY DEF GatewayInv, Loop, Recorded429, LogInv, ObserverInv, GatewayTypeOK
<1> QED BY <1>1, GatewayInductive, PTL

(* Whatever the policy and the fallbacks offered, the handler runs off its *)
(* queue only if another request or the clock changed a cooldown meanwhile *)
(* (shouldContinueAfterFailure is asked again after the body is cancelled).*)
THEOREM RunsOutByRace == GatewaySpec => []ExhaustedOnlyByRace
<1>1. GatewayInv => ExhaustedOnlyByRace
  BY DEF GatewayInv, Loop, LoopTypeOK, QueueHolds, ExhaustedOnlyByRace
<1> QED BY <1>1, GatewayInductive, PTL

(* The loop appends no more fallbacks than maxFallbackAttempts and retries *)
(* a route no more often than retryAttempts: it tries at most the first    *)
(* route and those it paid for.                                            *)
THEOREM BudgetObeyed == GatewaySpec => []BudgetKept
<1>1. GatewayInv => BudgetKept
  BY DEF GatewayInv, Loop
<1> QED BY <1>1, GatewayInductive, PTL

(* The promise chain of trackPendingConsoleRequestWrite: in whatever order *)
(* the statements, the handler and the body get on, the row ends with the  *)
(* last attempt and the first 429, and with a response if it is that of a  *)
(* POST whose loop did not run off its queue (shouldLog).                  *)
THEOREM RowToldInTheEnd == GatewaySpec => []RowTellsTheEnd
<1>1. GatewayInv => RowTellsTheEnd
  <2> SUFFICES ASSUME GatewayInv, pc = "done", writes = <<>>, obs = "off"
               PROVE  /\ row.save = saves /\ row.snapshot = first429
                      /\ row.response # "none" <=> LogsEnd
    BY DEF RowTellsTheEnd, LogsEnd
  <2>1. HandlerStage /\ SavesInOrder /\ SnapshotTold /\ ResponseTold
    BY DEF GatewayInv, Recorded429, LogInv
  <2>2. Len(writes) = 0
    OBVIOUS
  <2>3. row.save = saves
    BY <2>1, <2>2 DEF SavesInOrder
  <2>4. row.snapshot = first429
    BY <2>1, <2>2 DEF SnapshotTold, FirstSnapshotWaits
  <2>5. row.response # "none" <=> LogsEnd
    BY <2>1 DEF HandlerStage, ResponseTold
  <2> QED BY <2>3, <2>4, <2>5
<1> QED BY <1>1, GatewayInductive, PTL

(* observeChunk, stopObservation and the ends of a body that race: what is *)
(* recorded as complete is the whole of a body that ended.                 *)
THEOREM CompleteIsWhole == GatewaySpec => []CompleteMeansWhole
<1>1. GatewayInv => CompleteMeansWhole
  BY DEF GatewayInv, Recorded429, ObserverInv, CollectsAll, ResponseTold, CompleteMeansWhole
<1> QED BY <1>1, GatewayInductive, PTL
=============================================================================
