---------------------------- MODULE RustProcess ----------------------------
(***************************************************************************)
(* The console's supervision of the Rust proxy (src/rust-process.ts): the  *)
(* child process is started, restarted three seconds after a crash at most *)
(* MaxRestarts times, and killed and replaced when the console or the      *)
(* bridge asks for it. Exits, exit callbacks, timers and requests come in  *)
(* any order; a replacement waits between the SIGTERM and the SIGKILL.     *)
(*                                                                         *)
(* _generation is only ever compared with the generation of one process:   *)
(* `newest` is the process whose generation is the current one, if any.    *)
(* A process killed by a signal has no exit code, so that the tests        *)
(* `exitCode === null` take it for running.                                *)
(***************************************************************************)
EXTENDS Integers, FiniteSets

CONSTANTS
  Slots,        \* processes the operating system can keep apart at a time
  NoProcess,
  MaxRestarts,  \* MAX_RESTARTS
  MaxRaces      \* bound: replacements begun while a crash restart is due

ASSUME SlotsAssumption == IsFiniteSet(Slots) /\ Slots # {} /\ NoProcess \notin Slots

ASSUME BoundsAssumption == MaxRestarts \in Nat \ {0} /\ MaxRaces \in Nat

VARIABLES
  proc,       \* what each process is doing, and which callbacks have run
  current,    \* _proc
  newest,     \* the process of the current _generation
  restarts,   \* _restartCount
  timers,     \* setTimeout(doStart) still to fire
  replacing,  \* oldProc of the doRestart in flight, NoProcess without one
  stopped,    \* the server has shut down
  raced,      \* history: doRestarts begun with a timer pending
  gaveUp      \* history: the last exit callback found the budget spent

supervisorVars == <<proc, current, newest, restarts, timers, replacing, stopped,
                    raced, gaveUp>>

NoExitCode(p) == p # NoProcess /\ proc[p] \in {"live", "signalled", "killing", "killed"}
Running == {p \in Slots : proc[p] = "live"}

\* A slot whose process is over and whose exit code nobody can ask for: the
\* code of a process is kept as long as _proc is that process.
Spare == {p \in Slots : proc[p] = "none"} \ {current}
Free(p) == Spare # {} /\ p = CHOOSE q \in Spare : TRUE

Signalled(p) == [q \in Slots |-> IF q = p /\ proc[p] = "live" THEN "signalled" ELSE proc[q]]

-----------------------------------------------------------------------------
(* doStart, over the processes as the caller leaves them: the stale socket *)
(* is unlinked and a new process spawned, whatever _proc was.              *)
DoStart(p, was) ==
  /\ Free(p)
  /\ proc' = [q \in Slots |-> IF q = p THEN "live"
                              ELSE IF was[q] \in {"exited", "killed"} THEN "none" ELSE was[q]]
  /\ current' = p
  /\ newest' = p
  /\ gaveUp' = FALSE

(* startRustProxy has run.                                                 *)
Init ==
  /\ current = CHOOSE p \in Slots : TRUE
  /\ newest = current
  /\ proc = [q \in Slots |-> IF q = current THEN "live" ELSE "none"]
  /\ restarts = 0
  /\ timers = 0
  /\ replacing = NoProcess
  /\ stopped = FALSE
  /\ raced = 0
  /\ gaveUp = FALSE

(* A process dies: of itself, or of a signal it got.                       *)
Dies(p, coded) ==
  /\ proc[p] \in {"live", "signalled"}
  /\ proc' = [proc EXCEPT ![p] = IF coded THEN "exiting" ELSE "killing"]
  /\ UNCHANGED <<current, newest, restarts, timers, replacing, stopped, raced, gaveUp>>

Reaped(p) == [proc EXCEPT ![p] = IF p # current THEN "none"
                                 ELSE IF proc[p] = "exiting" THEN "exited" ELSE "killed"]

\* Mutant: every exit is taken for a crash.
ExitedWhoever(p) ==
  /\ ~stopped
  /\ proc[p] \in {"exiting", "killing"}
  /\ proc' = Reaped(p)
  /\ IF restarts < MaxRestarts
       THEN restarts' = restarts + 1 /\ timers' = timers + 1 /\ UNCHANGED gaveUp
       ELSE gaveUp' = TRUE /\ UNCHANGED <<restarts, timers>>
  /\ UNCHANGED <<current, newest, replacing, stopped, raced>>

(* The callback on proc.exited.                                            *)
Exited(p) ==
  /\ ~stopped
  /\ proc[p] \in {"exiting", "killing"}
  /\ proc' = Reaped(p)
  /\ IF newest = p
       THEN IF restarts < MaxRestarts
              THEN restarts' = restarts + 1 /\ timers' = timers + 1 /\ UNCHANGED gaveUp
              ELSE gaveUp' = TRUE /\ UNCHANGED <<restarts, timers>>
       ELSE UNCHANGED <<restarts, timers, gaveUp>>
  /\ UNCHANGED <<current, newest, replacing, stopped, raced>>

(* Nobody cancels the timer of a crash restart, and doStart asks nothing.  *)
TimerFires(p) ==
  /\ ~stopped
  /\ timers > 0
  /\ timers' = timers - 1
  /\ DoStart(p, proc)
  /\ UNCHANGED <<restarts, replacing, stopped, raced>>

Reset == restarts' = 0

\* A doRestart begins: the history counts those that meet a pending timer.
Count == IF timers > 0 THEN raced < MaxRaces /\ raced' = raced + 1 ELSE UNCHANGED raced

(* restartRustProxy with none in flight, over a process that has an exit   *)
(* code: doRestart runs to its end at once. While one is in flight the     *)
(* request joins it and nothing changes.                                   *)
ReplaceDead(p) ==
  /\ ~stopped
  /\ replacing = NoProcess
  /\ ~NoExitCode(current)
  /\ Count
  /\ Reset
  /\ DoStart(p, proc)
  /\ UNCHANGED <<timers, replacing, stopped>>

(* The same over one that has none: generation bumped, SIGTERM, and wait.  *)
BeginReplace ==
  /\ ~stopped
  /\ replacing = NoProcess
  /\ NoExitCode(current)
  /\ Count
  /\ newest' = NoProcess
  /\ replacing' = current
  /\ proc' = Signalled(current)
  /\ UNCHANGED <<current, restarts, timers, stopped, gaveUp>>

(* The old process has exited, or five seconds have passed and it is sent  *)
(* a SIGKILL whose effect nobody waits for.                                *)
EndReplace(p) ==
  /\ ~stopped
  /\ replacing # NoProcess
  /\ replacing' = NoProcess
  /\ Reset
  /\ DoStart(p, proc)
  /\ UNCHANGED <<timers, stopped, raced>>

(* stopRustProxy, and the process.exit(0) right after it (server.ts): the  *)
(* timers, the callbacks and a doRestart in flight are gone.               *)
Stop ==
  /\ ~stopped
  /\ stopped' = TRUE
  /\ proc' = IF NoExitCode(current) THEN Signalled(current) ELSE proc
  /\ UNCHANGED <<current, newest, restarts, timers, replacing, raced, gaveUp>>

Next ==
  \/ \E p \in Slots : \/ \E coded \in BOOLEAN : Dies(p, coded)
                      \/ Exited(p) \/ TimerFires(p) \/ ReplaceDead(p) \/ EndReplace(p)
  \/ BeginReplace
  \/ Stop

Spec == Init /\ [][Next]_supervisorVars

-----------------------------------------------------------------------------
(* Processes left to run and crash restarts due are together at most one,  *)
(* plus one for every replacement begun while a crash restart was due: no  *)
(* other order of exits, callbacks, kills and requests starts a second     *)
(* process (_generation and _restartInFlight).                             *)
OneUnlessRaced == Cardinality(Running) + timers <= 1 + raced
=============================================================================
