----------------------------- MODULE PermitPool -----------------------------
(***************************************************************************)
(* What the concurrency rules promise, without counters: each rule has the *)
(* set of requests it has let in. A request takes a ticket that quotes the *)
(* limit in force when it asked, and is let in exactly when fewer requests *)
(* than that are inside at the moment it tries the door.                   *)
(***************************************************************************)
EXTENDS Integers, FiniteSets

CONSTANTS Requests, Rules, Limits, NoLimit

VARIABLES
  limit,      \* the configured limit of each rule, NoLimit when it does not exist
  ticket,     \* the rule and limit a request has been quoted, if any
  inside      \* the requests each rule has let in

poolVars == <<limit, ticket, inside>>

Ticket   == [rule: Rules, max: Limits]
NoTicket == [rule |-> "none"]

Init ==
  /\ limit \in [Rules -> Limits \cup {NoLimit}]
  /\ ticket = [r \in Requests |-> NoTicket]
  /\ inside = [id \in Rules |-> {}]

Configure(id, n) ==
  /\ limit' = [limit EXCEPT ![id] = n]
  /\ UNCHANGED <<ticket, inside>>

Ask(r, id) ==
  /\ ticket[r] = NoTicket
  /\ \A j \in Rules : r \notin inside[j]
  /\ limit[id] # NoLimit
  /\ ticket' = [ticket EXCEPT ![r] = [rule |-> id, max |-> limit[id]]]
  /\ UNCHANGED <<limit, inside>>

Enter(r, id) ==
  /\ ticket[r] # NoTicket
  /\ ticket[r].rule = id
  /\ Cardinality(inside[id]) < ticket[r].max
  /\ inside' = [inside EXCEPT ![id] = @ \cup {r}]
  /\ ticket' = [ticket EXCEPT ![r] = NoTicket]
  /\ UNCHANGED limit

Refuse(r, id) ==
  /\ ticket[r] # NoTicket
  /\ ticket[r].rule = id
  /\ Cardinality(inside[id]) >= ticket[r].max
  /\ ticket' = [ticket EXCEPT ![r] = NoTicket]
  /\ UNCHANGED <<limit, inside>>

Leave(r, id) ==
  /\ r \in inside[id]
  /\ inside' = [inside EXCEPT ![id] = @ \ {r}]
  /\ UNCHANGED <<limit, ticket>>

Next ==
  \/ \E id \in Rules, n \in Limits \cup {NoLimit} : Configure(id, n)
  \/ \E r \in Requests, id \in Rules :
       Ask(r, id) \/ Enter(r, id) \/ Refuse(r, id) \/ Leave(r, id)

Spec == Init /\ [][Next]_poolVars
=============================================================================
