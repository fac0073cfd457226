----------------------------- MODULE RustBridge -----------------------------
(***************************************************************************)
(* The console's end of the IPC socket (src/rust-bridge.ts) together with  *)
(* the supervision of the process behind it (RustProcess). The bridge      *)
(* polls for the socket once a second; when it has been disconnected for   *)
(* longer than thirty seconds it asks for a restart of the proxy, whose    *)
(* end it awaits before it polls again. The console's restart button asks  *)
(* for the same restart at any time, and the two are merged.               *)
(*                                                                         *)
(* Time is two classes on each side of the threshold. An `error` event and *)
(* the `close` event that follows it are one step here, with both of the   *)
(* calls of scheduleReconnect they make.                                   *)
(***************************************************************************)
EXTENDS RustProcess

CONSTANT
  MaxAlarms  \* bound: reconnect timers alive at a time

ASSUME AlarmsAssumption == MaxAlarms \in Nat \ {0}

VARIABLES
  listener,        \* the process whose socket the path names
  link,            \* the bridge's socket: "idle" (null), "opening", "open"
  peer,            \* the process at the other end of an open socket
  since,           \* age of lastDisconnectedAt: "never", "short", "long"
  alarms,          \* reconnect timers alive
  armed,           \* reconnectTimer is not null
  waiting,         \* scheduleReconnect awaits restartRustProxy
  restartingRust,
  outage,          \* history: length of the present outage, "none" while open
  autos            \* history: restarts the bridge asked for in this outage

bridgeVars == <<link, peer, since, alarms, armed, waiting, restartingRust, outage, autos>>
vars == <<supervisorVars, listener, bridgeVars>>

Serving(p) == p # NoProcess /\ proc[p] \in {"live", "signalled"}

\* doStart removes the socket's path.
Unlinks == listener' = NoProcess

-----------------------------------------------------------------------------
BridgeInit ==
  /\ Init
  /\ listener = NoProcess
  /\ link = "opening"
  /\ peer = NoProcess
  /\ since = "never"
  /\ alarms = 0
  /\ armed = FALSE
  /\ waiting = FALSE
  /\ restartingRust = FALSE
  /\ outage = "none"
  /\ autos = 0

(* IpcBridge::start: a process binds the path before another is started.   *)
Bind(p) ==
  /\ p = current
  /\ Serving(p)
  /\ listener = NoProcess
  /\ listener' = p
  /\ UNCHANGED <<supervisorVars, bridgeVars>>

(* The connect event.                                                      *)
Connects ==
  /\ ~stopped
  /\ link = "opening"
  /\ Serving(listener)
  /\ link' = "open"
  /\ peer' = listener
  /\ restartingRust' = FALSE
  /\ outage' = "none"
  /\ autos' = 0
  /\ UNCHANGED <<supervisorVars, listener, since, alarms, armed, waiting>>

Arm == alarms < MaxAlarms /\ alarms' = alarms + 1 /\ armed' = TRUE

\* Mutant: the falling edge is stamped the first time only.
DroppedUnstamped ==
  /\ ~stopped
  /\ link = "open"
  /\ proc[peer] # "live"
  /\ link' = "idle"
  /\ peer' = NoProcess
  /\ since' = IF since = "never" THEN "short" ELSE since
  /\ outage' = "short"
  /\ IF armed THEN UNCHANGED <<alarms, armed>> ELSE Arm
  /\ UNCHANGED <<supervisorVars, listener, waiting, restartingRust, autos>>

(* The close event of an open connection: the age starts at zero, so that  *)
(* scheduleReconnect sets the one-second timer, unless one is armed.       *)
Dropped ==
  /\ ~stopped
  /\ link = "open"
  /\ proc[peer] # "live"
  /\ link' = "idle"
  /\ peer' = NoProcess
  /\ since' = "short"
  /\ outage' = "short"
  /\ IF armed THEN UNCHANGED <<alarms, armed>> ELSE Arm
  /\ UNCHANGED <<supervisorVars, listener, waiting, restartingRust, autos>>

\* More than thirty seconds since the last falling edge.
Elapse ==
  /\ ~stopped
  /\ since = "short"
  /\ since' = "long"
  /\ outage' = IF outage = "short" THEN "long" ELSE outage
  /\ UNCHANGED <<supervisorVars, listener, link, peer, alarms, armed, waiting,
                 restartingRust, autos>>

AsksForRestart == ~armed /\ since = "long" /\ ~restartingRust

Failed == ~stopped /\ link = "opening" /\ ~Serving(listener) /\ link' = "idle"

(* A connection that fails without an automatic restart.                   *)
Refused ==
  /\ Failed
  /\ ~AsksForRestart
  /\ IF armed THEN UNCHANGED <<alarms, armed>> ELSE Arm
  /\ UNCHANGED <<supervisorVars, listener, peer, since, waiting, restartingRust,
                 outage, autos>>

Asks == Failed /\ AsksForRestart /\ restartingRust' = TRUE /\ autos' = autos + 1

(* It fails, and the call for `error` asks for a restart: it begins one or *)
(* joins the one in flight, and is awaited. The call for `close` finds no  *)
(* timer and restartingRust set, and arms the one-second timer.            *)
RefusedAsks ==
  /\ Asks
  /\ waiting' = TRUE
  /\ Arm
  /\ IF replacing = NoProcess THEN BeginReplace ELSE UNCHANGED supervisorVars
  /\ UNCHANGED <<listener, peer, since, outage>>

(* The same over a process with an exit code: the restart is over at once, *)
(* and its three-second timer comes before or after the other call's.      *)
RefusedReplaces(p) ==
  /\ Asks
  /\ ReplaceDead(p)
  /\ Unlinks
  /\ \E n \in {1, 2} : alarms + n <= MaxAlarms /\ alarms' = alarms + n
  /\ armed' = TRUE
  /\ UNCHANGED <<peer, since, waiting, outage>>

(* A doRestart ends. The bridge that awaited it sets the three-second      *)
(* timer over whatever reconnectTimer held: two timers may be alive.       *)
Ends(p) ==
  /\ EndReplace(p)
  /\ Unlinks
  /\ waiting' = FALSE
  /\ IF waiting THEN Arm ELSE UNCHANGED <<alarms, armed>>
  /\ UNCHANGED <<link, peer, since, restartingRust, outage, autos>>

\* Mutant: a timer that finds a socket leaves reconnectTimer as it is.
RingKeeps ==
  /\ ~stopped
  /\ alarms > 0
  /\ alarms' = alarms - 1
  /\ link' = IF link = "idle" THEN "opening" ELSE link
  /\ UNCHANGED <<supervisorVars, listener, peer, since, armed, waiting,
                 restartingRust, outage, autos>>

(* A reconnect timer fires: connect() does nothing if there is a socket.   *)
Ring ==
  /\ ~stopped
  /\ alarms > 0
  /\ alarms' = alarms - 1
  /\ armed' = FALSE
  /\ link' = IF link = "idle" THEN "opening" ELSE link
  /\ UNCHANGED <<supervisorVars, listener, peer, since, waiting, restartingRust,
                 outage, autos>>

(* The console's button, a crash restart, and what goes on without either. *)
ButtonReplaces(p) == ReplaceDead(p) /\ Unlinks /\ UNCHANGED bridgeVars
ButtonBegins == BeginReplace /\ UNCHANGED <<listener, bridgeVars>>
CrashRestart(p) == TimerFires(p) /\ Unlinks /\ UNCHANGED bridgeVars

Gone(p) ==
  /\ \E coded \in BOOLEAN : Dies(p, coded)
  /\ UNCHANGED <<listener, bridgeVars>>

Reap(p) == Exited(p) /\ UNCHANGED <<listener, bridgeVars>>
ShutDown == Stop /\ UNCHANGED <<listener, bridgeVars>>

BridgeNext ==
  \/ \E p \in Slots : \/ Bind(p) \/ RefusedReplaces(p) \/ Ends(p) \/ ButtonReplaces(p)
                      \/ CrashRestart(p) \/ Gone(p) \/ Reap(p)
  \/ Connects \/ Dropped \/ Elapse \/ Refused \/ RefusedAsks \/ Ring \/ ButtonBegins
  \/ ShutDown

BridgeSpec == BridgeInit /\ [][BridgeNext]_vars

(* The fairness of RustProcess, and: sockets report, timers fire, the      *)
(* process binds its socket, and time passes.                              *)
FairBridgeSpec ==
  /\ BridgeSpec
  /\ \A p \in Slots : /\ WF_vars(proc[p] = "signalled" /\ Gone(p))
                      /\ WF_vars(Reap(p)) /\ WF_vars(Bind(p))
  /\ WF_vars(\E p \in Slots : CrashRestart(p))
  /\ WF_vars(\E p \in Slots : Ends(p))
  /\ WF_vars(\E p \in Slots : RefusedReplaces(p))
  /\ WF_vars(RefusedAsks) /\ WF_vars(Refused) /\ WF_vars(Connects) /\ WF_vars(Dropped)
  /\ WF_vars(Ring) /\ WF_vars(Elapse)

-----------------------------------------------------------------------------
(* The bridge asks for a restart only after a continuous disconnection of  *)
(* more than thirty seconds: one that follows a long connection, like the  *)
(* one the restart button causes, does not count (204-209, 320-322).       *)
RestartOnlyAfterOutage == [][autos' > autos => outage = "long"]_vars

(* A proxy that listens and goes on listening is connected to.             *)
Reconnects == Serving(listener) ~> (link = "open" \/ ~Serving(listener) \/ stopped)

-----------------------------------------------------------------------------
(* rust-bridge.ts 324, "Auto-restart Rust if disconnected for too long": a *)
(* long outage with a proxy that crashed for good ends, or is restarted.   *)
LongOutageRestarts ==
  (outage = "long" /\ gaveUp) ~> (~gaveUp \/ outage # "long" \/ stopped)
=============================================================================
