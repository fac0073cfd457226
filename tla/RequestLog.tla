----------------------------- MODULE RequestLog -----------------------------
(***************************************************************************)
(* The way of the request log from the Rust proxy to the console's         *)
(* database: what a handler queues itself and what it leaves to a spawned  *)
(* task (rust-proxy/src/proxy.rs), the queue of the process and the        *)
(* forwarder that drops what no connection takes (rust-proxy/src/ipc.rs),  *)
(* the connection, the promise chain of the console (src/server.ts) and    *)
(* the statement each message becomes (src/console-store.ts).              *)
(*                                                                         *)
(* A task runs when the runtime gets to it: spawned messages reach the     *)
(* queue in any order. A connection or a process that dies takes with it   *)
(* what it had not passed on.                                              *)
(***************************************************************************)
EXTENDS Integers, Sequences, FiniteSets

CONSTANTS
  Requests,
  MaxTries,      \* bound: attempts of one request that are logged
  MaxFailures,   \* bound: connections and processes that die, statements refused
  Streaming      \* whether an upstream may answer with an event stream

ASSUME BoundsAssumption ==
  MaxTries \in Nat \ {0} /\ MaxFailures \in Nat /\ Streaming \in BOOLEAN

VARIABLES
  stage,     \* of the request in proxy_handler
  armed,     \* its ClientDisconnectLogGuard
  tries,     \* RequestLogs sent for it
  limited,   \* tries answered 429 whose InitialRateLimitSnapshot was sent
  ended,     \* history: how the request ended
  tasks,     \* messages left to spawned tasks that have not run
  queue,     \* global_tx .. global_rx
  inbox,     \* passed to the connection and not yet saved
  up,        \* a connection is accepted
  row,       \* console_requests
  lost,      \* history: requests one of whose messages was lost
  failures

senderVars == <<stage, armed, tries, limited, ended>>
logVars == <<senderVars, tasks, queue, inbox, up, row, lost, failures>>

Nothing == "nothing"

\* The 200 of a whole body, the 200 of a stream's first byte, the supplement at
\* a stream's end, an error, and the 499 of the disconnect guard.
Endings  == {"ok", "opened", "complete", "client", "upstream", "error", "left"}

\* The ends no message tells: the client leaves while the guard is not armed, and what
\* cannot be converted is answered 400 or 500 with no terminal log.
Untold == {"unseen", "unconverted"}

Attempt(r, n)  == [kind |-> "request", req |-> r, try |-> n]
Snapshot(r, n) == [kind |-> "snapshot", req |-> r, try |-> n]
Response(r, e) == [kind |-> "response", req |-> r, end |-> e]

Message ==
  [kind: {"request", "snapshot"}, req: Requests, try: 1..MaxTries]
    \cup [kind: {"response"}, req: Requests, end: Endings]

NoRow == [try |-> 0, snapshot |-> 0, end |-> Nothing]

Of(seq, r) == {i \in 1..Len(seq) : seq[i].req = r}
Among(seq) == {seq[i].req : i \in 1..Len(seq)}

-----------------------------------------------------------------------------
Init ==
  /\ stage = [r \in Requests |-> "fresh"]
  /\ armed = [r \in Requests |-> FALSE]
  /\ tries = [r \in Requests |-> 0]
  /\ limited = [r \in Requests |-> {}]
  /\ ended = [r \in Requests |-> Nothing]
  /\ tasks = {}
  /\ queue = <<>>
  /\ inbox = <<>>
  /\ up = TRUE
  /\ row = [r \in Requests |-> NoRow]
  /\ lost = {}
  /\ failures = 0

Send(m) == queue' = Append(queue, m)

Moves(r, to) == stage' = [stage EXCEPT ![r] = to]

\* The handler has not returned: it is at its first route, at one it skips, or has sent.
InHandler(r) == stage[r] \in {"fresh", "skipped", "sent"}

\* The handler is gone, and with it the guard.
Ends(r, e) ==
  /\ Moves(r, "over")
  /\ armed' = [armed EXCEPT ![r] = FALSE]
  /\ ended' = [ended EXCEPT ![r] = e]

\* send_request_log.
Logs(r, to) ==
  /\ InHandler(r)
  /\ tries[r] < MaxTries
  /\ Send(Attempt(r, tries[r] + 1))
  /\ tries' = [tries EXCEPT ![r] = @ + 1]
  /\ Moves(r, to)
  /\ UNCHANGED <<limited, ended, tasks, inbox, up, row, lost, failures>>

Arms(r) == armed' = [armed EXCEPT ![r] = TRUE]

(* An attempt is logged before it is sent, and the guard is armed.         *)
LogAttempt(r) == Logs(r, "sent") /\ Arms(r)

(* So is a route skipped as unsupported or for a cooldown ...              *)
LogSkip(r) == Logs(r, "skipped") /\ Arms(r)

(* ... but for an open circuit the guard is left as it was.                *)
LogSkipOpen(r) == Logs(r, "skipped") /\ UNCHANGED armed

(* A 429 that the failover loop swallows is reported at once.              *)
LogRateLimit(r) ==
  /\ stage[r] = "sent"
  /\ tries[r] \notin limited[r]
  /\ Send(Snapshot(r, tries[r]))
  /\ limited' = [limited EXCEPT ![r] = @ \cup {tries[r]}]
  /\ UNCHANGED <<stage, armed, tries, ended, tasks, inbox, up, row, lost, failures>>

\* Mutant: the guard is still armed when the handler returns, and reports after
\* the terminal log's task was spawned, so possibly after it has run.
FailArmed(r) ==
  /\ InHandler(r)
  /\ Ends(r, "error")
  /\ tasks' = tasks \cup {Response(r, "error"), Response(r, "left")}
  /\ UNCHANGED <<tries, limited, queue, inbox, up, row, lost, failures>>

(* emit_terminal_response_log, and the handler returns. A 501 of the only  *)
(* route comes without a RequestLog before it.                             *)
Fail(r) ==
  /\ InHandler(r)
  /\ Ends(r, "error")
  /\ tasks' = tasks \cup {Response(r, "error")}
  /\ UNCHANGED <<tries, limited, queue, inbox, up, row, lost, failures>>

(* The handler returns with no terminal log: a route's request cannot be   *)
(* converted for its chat endpoint, or the 200 that came back cannot.      *)
ReturnUnlogged(r) ==
  /\ InHandler(r)
  /\ Ends(r, "unconverted")
  /\ UNCHANGED <<tries, limited, tasks, queue, inbox, up, row, lost, failures>>

\* Mutant: nobody reports the disconnect.
LeaveSilently(r) ==
  /\ InHandler(r)
  /\ Ends(r, IF armed[r] THEN "left" ELSE "unseen")
  /\ UNCHANGED <<tries, limited, tasks, queue, inbox, up, row, lost, failures>>

(* The handler is dropped at an await: the guard sends by itself, if it is *)
(* armed.                                                                  *)
Leave(r) ==
  /\ InHandler(r)
  /\ \/ armed[r] /\ Ends(r, "left") /\ Send(Response(r, "left"))
     \/ ~armed[r] /\ Ends(r, "unseen") /\ UNCHANGED queue
  /\ UNCHANGED <<tries, limited, tasks, inbox, up, row, lost, failures>>

(* A success whose body has been read and, if need be, converted.          *)
Respond(r) ==
  /\ stage[r] = "sent"
  /\ Ends(r, "ok")
  /\ tasks' = tasks \cup {Response(r, "ok")}
  /\ UNCHANGED <<tries, limited, queue, inbox, up, row, lost, failures>>

(* A success that streams: one task reports the status, a second one waits *)
(* for the observer's notification ...                                     *)
Open(r) ==
  /\ Streaming
  /\ stage[r] = "sent"
  /\ Moves(r, "streaming")
  /\ armed' = [armed EXCEPT ![r] = FALSE]
  /\ tasks' = tasks \cup {Response(r, "opened")}
  /\ UNCHANGED <<tries, limited, ended, queue, inbox, up, row, lost, failures>>

(* ... and can go on when the stream ends, breaks or is dropped.           *)
StreamEnds(r, e) ==
  /\ stage[r] = "streaming"
  /\ Ends(r, e)
  /\ tasks' = tasks \cup {Response(r, e)}
  /\ UNCHANGED <<tries, limited, queue, inbox, up, row, lost, failures>>

RunTask(m) ==
  /\ m \in tasks
  /\ tasks' = tasks \ {m}
  /\ Send(m)
  /\ UNCHANGED <<senderVars, inbox, up, row, lost, failures>>

(* The forwarder: to the connection, or away with a warning.               *)
Forward ==
  /\ queue # <<>>
  /\ queue' = Tail(queue)
  /\ IF up THEN inbox' = Append(inbox, Head(queue)) /\ UNCHANGED lost
           ELSE lost' = lost \cup {Head(queue).req} /\ UNCHANGED inbox
  /\ UNCHANGED <<senderVars, tasks, up, row, failures>>

-----------------------------------------------------------------------------
\* Mutant: a later 429 replaces the first.
SavedLastLimit(m, rec) ==
  CASE m.kind = "request"                          -> [rec EXCEPT !.try = m.try]
    [] m.kind = "snapshot" /\ rec.try > 0          -> [rec EXCEPT !.snapshot = m.try]
    [] m.kind = "response" /\ rec.try > 0          -> [rec EXCEPT !.end = m.end]
    [] OTHER                                       -> rec

(* What the statement of a message makes of the request's row: an upsert   *)
(* for a RequestLog, updates that match no row when there is none.         *)
Saved(m, rec) ==
  CASE m.kind = "request"                          -> [rec EXCEPT !.try = m.try]
    [] m.kind = "snapshot" /\ rec.try > 0 /\ rec.snapshot = 0 -> [rec EXCEPT !.snapshot = m.try]
    [] m.kind = "response" /\ rec.try > 0          -> [rec EXCEPT !.end = m.end]
    [] OTHER                                       -> rec

(* The next link of the promise chain.                                     *)
Save ==
  /\ inbox # <<>>
  /\ LET m == Head(inbox) IN row' = [row EXCEPT ![m.req] = Saved(m, @)]
  /\ inbox' = Tail(inbox)
  /\ UNCHANGED <<senderVars, tasks, queue, up, lost, failures>>

-----------------------------------------------------------------------------
FailsOnce == failures < MaxFailures /\ failures' = failures + 1

(* The database refuses the statement: logged, caught and skipped, so that *)
(* the next link of the chain runs all the same.                           *)
SaveFails ==
  /\ inbox # <<>>
  /\ FailsOnce
  /\ inbox' = Tail(inbox)
  /\ lost' = lost \cup {Head(inbox).req}
  /\ UNCHANGED <<senderVars, tasks, queue, up, row>>

(* The connection closes: what the console had not read is gone.           *)
Disconnect(n) ==
  /\ up
  /\ FailsOnce
  /\ n \in 0..Len(inbox)
  /\ up' = FALSE
  /\ inbox' = SubSeq(inbox, 1, n)
  /\ lost' = lost \cup Among(SubSeq(inbox, n + 1, Len(inbox)))
  /\ UNCHANGED <<senderVars, tasks, queue, row>>

Reconnect ==
  /\ ~up
  /\ up' = TRUE
  /\ UNCHANGED <<senderVars, tasks, queue, inbox, row, lost, failures>>

(* The proxy dies with the requests it was handling.                       *)
ProxyDies ==
  /\ FailsOnce
  /\ up' = FALSE
  /\ stage' = [r \in Requests |-> IF stage[r] = "fresh" THEN "fresh" ELSE "over"]
  /\ tasks' = {}
  /\ queue' = <<>>
  /\ lost' = lost \cup {m.req : m \in tasks} \cup Among(queue)
                  \cup {r \in Requests : stage[r] \in {"skipped", "sent", "streaming"}}
  /\ armed' = [r \in Requests |-> FALSE]
  /\ UNCHANGED <<tries, limited, ended, inbox, row>>

(* The console dies, and with it the promise chain.                        *)
ConsoleDies ==
  /\ FailsOnce
  /\ up' = FALSE
  /\ inbox' = <<>>
  /\ lost' = lost \cup Among(inbox)
  /\ UNCHANGED <<senderVars, tasks, queue, row>>

Next ==
  \/ \E r \in Requests :
       \/ LogAttempt(r) \/ LogSkip(r) \/ LogSkipOpen(r) \/ LogRateLimit(r)
       \/ Fail(r) \/ ReturnUnlogged(r) \/ Leave(r) \/ Respond(r) \/ Open(r)
       \/ \E e \in {"complete", "client", "upstream"} : StreamEnds(r, e)
  \/ \E m \in tasks : RunTask(m)
  \/ Forward \/ Save
  \/ \E n \in 0..Len(inbox) : Disconnect(n)
  \/ SaveFails \/ Reconnect \/ ProxyDies \/ ConsoleDies

Spec == Init /\ [][Next]_logVars

(* Every spawned task is run, and both ends work off their queues.         *)
FairSpec ==
  /\ Spec
  /\ \A m \in Message : WF_logVars(RunTask(m))
  /\ WF_logVars(Forward)
  /\ WF_logVars(Save)

-----------------------------------------------------------------------------
Drained(r) == Of(queue, r) = {} /\ Of(inbox, r) = {} /\ \A m \in tasks : m.req # r

(* Once the messages of a request are saved, its row shows the last        *)
(* attempt and the first 429: no late message turns it back (the comments  *)
(* at the end of send_request_log and on saveConsoleInitialRateLimit-      *)
(* Snapshot).                                                              *)
ShowsLastAttempt ==
  \A r \in Requests \ lost :
    Drained(r) => /\ row[r].try = tries[r]
                  /\ IF limited[r] = {} THEN row[r].snapshot = 0
                     ELSE /\ row[r].snapshot \in limited[r]
                          /\ \A n \in limited[r] : row[r].snapshot <= n

(* ... and how the request ended, if it was not a stream: exactly one of   *)
(* the terminal log, the success and the guard's 499 reaches the row, and  *)
(* none does for an end nobody tells (Untold).                             *)
ShowsEnd ==
  \A r \in Requests \ lost :
    Drained(r) /\ tries[r] > 0 /\ stage[r] = "over" =>
      /\ ended[r] \in {"ok", "error", "left"} => row[r].end = ended[r]
      /\ ended[r] \in Untold => row[r].end = Nothing

(* A logged request does not stay open on the log page: its row gets an    *)
(* end, unless one of its messages is lost on the way or not saved, the    *)
(* client left before the guard was first armed, or the request or its     *)
(* answer could not be converted.                                          *)
RowsClose ==
  \A r \in Requests :
    stage[r] = "over" /\ tries[r] > 0 ~>
      (row[r].end # Nothing \/ r \in lost \/ ended[r] \in Untold)

-----------------------------------------------------------------------------
=============================================================================
