-------------------------- MODULE ResponseObserver --------------------------
(***************************************************************************)
(* How the TypeScript gateway passes a response on and records it          *)
(* (src/response-observer.ts): the idle guard around the upstream's body,  *)
(* the detached reader of a plain body, the pass-through of an event       *)
(* stream, and the collector that every end of the body races to stop.     *)
(*                                                                         *)
(* One response at a time. Chunks are counted, not spelled out. What stops *)
(* a collector only queues a microtask; the observation is built there.    *)
(***************************************************************************)
EXTENDS Naturals

CONSTANTS
  MaxChunks,   \* bound: chunks a body may have
  MaxLogged    \* chunks of an event stream that fit the log

ASSUME ChunksAssumption == MaxChunks \in Nat /\ MaxLogged \in Nat

VARIABLES
  kind,        \* what finalizeProxyResponse was given
  relay,       \* it carries an upstream's body, under the idle guard
  source,      \* the body
  pending,     \* a read of the body is in flight (and the idle timer armed)
  got,         \* chunks read
  client,      \* the reader of the response
  obs,         \* the collector
  seen,        \* chunks collected
  truncated,   \* payloadTruncated
  completed    \* the record will carry the time of the end of the body

bodyVars == <<kind, relay, source, pending, got, client>>
collectorVars == <<obs, seen, truncated, completed>>
observerVars == <<bodyVars, collectorVars>>

ObserverInit ==
  /\ kind = "none"
  /\ relay = FALSE
  /\ source = "open"
  /\ pending = FALSE
  /\ got = 0
  /\ client = "none"
  /\ obs = "off"
  /\ seen = 0
  /\ truncated = FALSE
  /\ completed = FALSE

(* finalizeProxyResponse: a response without a body is recorded as it is;  *)
(* the others get a collector. With shouldLog off nothing is recorded: a   *)
(* body is "quiet", only under its guard.                                  *)
Begin(k, upstream, logs) ==
  /\ kind = "none"
  /\ kind' = IF logs \/ k = "empty" THEN k ELSE "quiet"
  /\ relay' = upstream
  /\ client' = IF k = "empty" THEN "served" ELSE "reading"
  /\ source' = IF k = "empty" THEN "ended" ELSE "open"
  /\ obs' = IF ~logs THEN "off" ELSE IF k = "empty" THEN "resolved" ELSE "running"
  /\ completed' = (k = "empty" /\ logs)
  /\ UNCHANGED <<pending, got, seen, truncated>>

-----------------------------------------------------------------------------
(* stopObservation: the first to call it decides.                          *)
StopObservation(cut, whole) ==
  IF obs = "running"
    THEN /\ obs' = "stopping"
         /\ truncated' = (truncated \/ cut)
         /\ completed' = whole
    ELSE UNCHANGED <<obs, truncated, completed>>

FailObservation ==
  /\ obs' = IF obs = "running" THEN "failing" ELSE obs
  /\ UNCHANGED <<seen, truncated, completed>>

\* Mutant: a chunk beyond the limit is dropped and the collector goes on.
ObserveChunkQuietly ==
  /\ seen' = IF obs = "running" /\ (kind # "sse" \/ seen < MaxLogged) THEN seen + 1 ELSE seen
  /\ UNCHANGED <<obs, truncated, completed>>

(* observeChunk: an event stream beyond the limit is cut and stopped.      *)
ObserveChunk ==
  IF obs # "running" THEN UNCHANGED collectorVars
  ELSE IF kind = "sse" /\ seen = MaxLogged
    THEN StopObservation(TRUE, FALSE) /\ UNCHANGED seen
    ELSE seen' = seen + 1 /\ UNCHANGED <<obs, truncated, completed>>

-----------------------------------------------------------------------------
(* The pass-through reads when its client pulls; the detached reader of a  *)
(* plain body reads on by itself, its client there or not.                 *)
Pull ==
  /\ kind \in {"plain", "sse", "quiet"}
  /\ source = "open" /\ ~pending
  /\ kind # "plain" => client = "reading"
  /\ pending' = TRUE
  /\ UNCHANGED <<kind, relay, source, got, client, collectorVars>>

Chunk ==
  /\ pending /\ source = "open" /\ got < MaxChunks
  /\ pending' = FALSE
  /\ got' = got + 1
  /\ ObserveChunk
  /\ UNCHANGED <<kind, relay, source, client>>

ClientSees(end) == client' = IF client = "reading" THEN end ELSE client

BodyEnds ==
  /\ pending /\ source = "open"
  /\ pending' = FALSE
  /\ source' = "ended"
  /\ ClientSees("served")
  /\ StopObservation(FALSE, TRUE)
  /\ UNCHANGED <<kind, relay, got, seen>>

(* The upstream breaks off, or sends nothing for so long that the guard    *)
(* cancels it.                                                             *)
BodyBreaks ==
  /\ relay /\ pending /\ source = "open"
  /\ pending' = FALSE
  /\ source' \in {"broken", "cancelled"}
  /\ ClientSees("failed")
  /\ FailObservation
  /\ UNCHANGED <<kind, relay, got>>

(* Only the pass-through and an unlogged body are cancelled with their     *)
(* client: the other branch of a plain body keeps its source open.         *)
ClientCancels ==
  /\ client = "reading"
  /\ client' = "gone"
  /\ IF kind = "plain" THEN UNCHANGED <<source, pending, obs, truncated, completed>>
     ELSE /\ source' = "cancelled" /\ pending' = FALSE
          /\ IF kind = "sse" THEN StopObservation(TRUE, FALSE) ELSE UNCHANGED <<obs, truncated, completed>>
  /\ UNCHANGED <<kind, relay, got, seen>>

\* Mutant: the timer of a stream is forgotten.
ObservationTimesOutNever == FALSE /\ UNCHANGED observerVars

(* observationTimeout: an event stream is recorded after so long at most,  *)
(* even if it never ends and its client stops reading.                     *)
ObservationTimesOut ==
  /\ kind = "sse" /\ obs = "running"
  /\ StopObservation(TRUE, FALSE)
  /\ UNCHANGED <<bodyVars, seen>>

(* The microtask: settleObservation.                                       *)
Settle ==
  /\ obs \in {"stopping", "failing"}
  /\ obs' = IF obs = "stopping" THEN "resolved" ELSE "rejected"
  /\ UNCHANGED <<bodyVars, seen, truncated, completed>>

ObserverNext ==
  \/ Pull \/ Chunk \/ BodyEnds \/ BodyBreaks
  \/ ClientCancels \/ ObservationTimesOut \/ Settle
=============================================================================
