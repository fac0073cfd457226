-------------------------- MODULE RequestLogProofs --------------------------
(***************************************************************************)
(* Proofs about RequestLog, for any number of requests, attempts and       *)
(* failures: whatever overtakes whatever on the way from the proxy to the  *)
(* database, the row of a request that lost no message shows its last      *)
(* attempt, its first 429 and its end.                                     *)
(***************************************************************************)
EXTENDS RequestLog, SequenceTheorems, TLAPS

Stages == {"fresh", "skipped", "sent", "streaming", "over"}
Logged == {"skipped", "sent", "streaming"}
Answer == [kind : {"response"}, req : Requests, end : Endings]
Fates == Endings \cup Untold \cup {Nothing}
Row == [try : Nat, snapshot : Nat, end : Endings \cup {Nothing}]

TypeOK ==
  /\ stage \in [Requests -> Stages]
  /\ armed \in [Requests -> BOOLEAN]
  /\ tries \in [Requests -> 0..MaxTries]
  /\ limited \in [Requests -> SUBSET (1..MaxTries)]
  /\ ended \in [Requests -> Fates]
  /\ tasks \subseteq Answer
  /\ queue \in Seq(Message) /\ inbox \in Seq(Message)
  /\ up \in BOOLEAN
  /\ row \in [Requests -> Row]
  /\ lost \subseteq Requests
  /\ failures \in Nat
  /\ \A r \in Requests : stage[r] \in Logged => tries[r] > 0

\* What is on its way, the oldest first.
Pipe == inbox \o queue

-----------------------------------------------------------------------------
IsOf(m, k, r) == m.kind = k /\ m.req = r

\* The attempts of r on their way come in their order, after the one the row shows; the last
\* one made is among them or shown.
AttemptsInOrder(s, r, rec, n) ==
  /\ \A i \in 1..Len(s) : IsOf(s[i], "request", r) => rec.try < s[i].try /\ s[i].try <= n
  /\ \A i, j \in 1..Len(s) :
       i < j /\ IsOf(s[i], "request", r) /\ IsOf(s[j], "request", r) => s[i].try < s[j].try
  /\ rec.try = n \/ \E i \in 1..Len(s) : IsOf(s[i], "request", r) /\ s[i].try = n

\* The 429s of r in their order: all of them are on their way, or the first is shown.
SnapshotsInOrder(s, r, rec, L) ==
  /\ \A i \in 1..Len(s) : IsOf(s[i], "snapshot", r) => s[i].try \in L
  /\ \A i, j \in 1..Len(s) :
       i < j /\ IsOf(s[i], "snapshot", r) /\ IsOf(s[j], "snapshot", r) => s[i].try < s[j].try
  /\ rec.snapshot = 0 =>
       \A n \in L : \E i \in 1..Len(s) : IsOf(s[i], "snapshot", r) /\ s[i].try = n
  /\ rec.snapshot # 0 => rec.snapshot \in L /\ \A n \in L : rec.snapshot <= n

\* The row is there, or will be, before the first message that only updates it.
RowFirst(s, r, rec, n) ==
  n > 0 =>
    \A i \in 1..Len(s) : s[i].req = r /\ s[i].kind # "request" =>
      rec.try > 0 \/ \E j \in 1..Len(s) : j < i /\ IsOf(s[j], "request", r)

InOrder(s, r, rec, n, L) ==
  AttemptsInOrder(s, r, rec, n) /\ SnapshotsInOrder(s, r, rec, L) /\ RowFirst(s, r, rec, n)

\* The ends the row of r is to show.
SingleEnd == {"ok", "error", "left"}

\* There is no end to tell, or nobody tells it.
Unanswered(r) == InHandler(r) \/ (stage[r] = "over" /\ ended[r] \in Untold)

\* No end is shown or on its way before there is one to tell, and then only that one, which is
\* shown or will be.
EndTold(s, r) ==
  /\ Unanswered(r) =>
       /\ \A i \in 1..Len(s) : ~IsOf(s[i], "response", r)
       /\ \A m \in tasks : m.req # r
       /\ row[r].end = Nothing
  /\ stage[r] = "over" /\ ended[r] \in SingleEnd =>
       /\ \A i \in 1..Len(s) : IsOf(s[i], "response", r) => s[i].end = ended[r]
       /\ \A m \in tasks : m.req = r => m.end = ended[r]
       /\ tries[r] > 0 => \/ row[r].end = ended[r]
                          \/ \E m \in tasks : m.req = r
                          \/ \E i \in 1..Len(s) : IsOf(s[i], "response", r)

Told(r) ==
  /\ limited[r] \subseteq 1..tries[r]
  /\ InOrder(Pipe, r, row[r], tries[r], limited[r])
  /\ EndTold(Pipe, r)

IInv == TypeOK /\ \A r \in Requests \ lost : Told(r)

-----------------------------------------------------------------------------
(* What is on its way: lemmas about sequences of messages                  *)

LEMMA MessageType ==
  ASSUME NEW m \in Message
  PROVE  /\ m.req \in Requests /\ m.kind \in {"request", "snapshot", "response"}
         /\ m.kind # "response" => m.try \in 1..MaxTries
         /\ m.kind = "response" => m.end \in Endings
BY DEF Message

\* Losing ends, and messages of others, changes nothing: `at` says where what is left was
\* before.
LEMMA Thinned ==
  ASSUME NEW s \in Seq(Message), NEW t \in Seq(Message), NEW r, NEW rec, NEW n \in Nat, NEW L,
         InOrder(s, r, rec, n, L),
         NEW at \in [1..Len(t) -> 1..Len(s)],
         \A i \in 1..Len(t) : t[i] = s[at[i]],
         \A i, j \in 1..Len(t) : i < j <=> at[i] < at[j],
         \A k \in 1..Len(s) : s[k].req = r /\ s[k].kind # "response" =>
           \E i \in 1..Len(t) : at[i] = k
  PROVE  InOrder(t, r, rec, n, L)
<1>1. AttemptsInOrder(t, r, rec, n)
  <2>1. ASSUME NEW i \in 1..Len(t), IsOf(t[i], "request", r)
        PROVE  rec.try < t[i].try /\ t[i].try <= n
    BY <2>1 DEF InOrder, AttemptsInOrder
  <2>2. ASSUME NEW i \in 1..Len(t), NEW j \in 1..Len(t), i < j,
               IsOf(t[i], "request", r), IsOf(t[j], "request", r)
        PROVE  t[i].try < t[j].try
    <3>1. at[i] \in 1..Len(s) /\ at[j] \in 1..Len(s) /\ at[i] < at[j]
      BY <2>2
    <3>2. IsOf(s[at[i]], "request", r) /\ IsOf(s[at[j]], "request", r)
      BY <2>2
    <3>3. s[at[i]].try < s[at[j]].try
      BY <3>1, <3>2 DEF InOrder, AttemptsInOrder
    <3> QED BY <3>3
  <2>3. rec.try = n \/ \E i \in 1..Len(t) : IsOf(t[i], "request", r) /\ t[i].try = n
    <3>1. CASE rec.try # n
      <4>1. PICK k \in 1..Len(s) : IsOf(s[k], "request", r) /\ s[k].try = n
        BY <3>1 DEF InOrder, AttemptsInOrder
      <4>2. PICK i \in 1..Len(t) : at[i] = k
        BY <4>1 DEF IsOf
      <4> QED BY <4>1, <4>2
    <3> QED BY <3>1
  <2> QED BY <2>1, <2>2, <2>3 DEF AttemptsInOrder
<1>2. SnapshotsInOrder(t, r, rec, L)
  <2>1. \A i \in 1..Len(t) : IsOf(t[i], "snapshot", r) => t[i].try \in L
    BY DEF InOrder, SnapshotsInOrder
  <2>2. ASSUME NEW i \in 1..Len(t), NEW j \in 1..Len(t), i < j,
               IsOf(t[i], "snapshot", r), IsOf(t[j], "snapshot", r)
        PROVE  t[i].try < t[j].try
    <3>1. at[i] \in 1..Len(s) /\ at[j] \in 1..Len(s) /\ at[i] < at[j]
      BY <2>2
    <3>2. IsOf(s[at[i]], "snapshot", r) /\ IsOf(s[at[j]], "snapshot", r)
      BY <2>2
    <3>3. s[at[i]].try < s[at[j]].try
      BY <3>1, <3>2 DEF InOrder, SnapshotsInOrder
    <3> QED BY <3>3
  <2>3. ASSUME rec.snapshot = 0, NEW k \in L
        PROVE  \E i \in 1..Len(t) : IsOf(t[i], "snapshot", r) /\ t[i].try = k
    <3>1. PICK m \in 1..Len(s) : IsOf(s[m], "snapshot", r) /\ s[m].try = k
      BY <2>3 DEF InOrder, SnapshotsInOrder
    <3>2. PICK i \in 1..Len(t) : at[i] = m
      BY <3>1 DEF IsOf
    <3> QED BY <3>1, <3>2
  <2> QED BY <2>1, <2>2, <2>3 DEF InOrder, SnapshotsInOrder
<1>3. RowFirst(t, r, rec, n)
  <2> SUFFICES ASSUME n > 0, NEW i \in 1..Len(t), t[i].req = r, t[i].kind # "request",
                      ~(rec.try > 0)
               PROVE  \E j \in 1..Len(t) : j < i /\ IsOf(t[j], "request", r)
    BY DEF RowFirst
  <2>1. PICK k \in 1..Len(s) : k < at[i] /\ IsOf(s[k], "request", r)
    BY DEF InOrder, RowFirst
  <2>2. PICK j \in 1..Len(t) : at[j] = k
    BY <2>1 DEF IsOf
  <2> QED BY <2>1, <2>2
<1> QED BY <1>1, <1>2, <1>3 DEF InOrder

\* A message of another request, or an end, may come at any time.
LEMMA OtherAppended ==
  ASSUME NEW s \in Seq(Message), NEW m \in Message, NEW r, NEW rec, rec.try \in Nat,
         NEW n \in Nat, NEW L, InOrder(s, r, rec, n, L), m.req # r \/ m.kind = "response"
  PROVE  InOrder(Append(s, m), r, rec, n, L)
<1> DEFINE t == Append(s, m)
<1>1. /\ Len(t) = Len(s) + 1 /\ Len(s) \in Nat
      /\ \A i \in 1..Len(s) : t[i] = s[i]
      /\ t[Len(s) + 1] = m
  BY AppendProperties, LenProperties
<1>2. ~IsOf(m, "request", r) /\ ~IsOf(m, "snapshot", r)
  BY DEF IsOf
<1>3. \A i \in 1..Len(t) : i \in 1..Len(s) \/ (i = Len(s) + 1 /\ t[i] = m)
  BY <1>1
<1> HIDE DEF t
<1>4. AttemptsInOrder(t, r, rec, n)
  <2>1. \A i \in 1..Len(t) : IsOf(t[i], "request", r) => i \in 1..Len(s) /\ t[i] = s[i]
    BY <1>1, <1>2, <1>3
  <2>2. rec.try = n \/ \E i \in 1..Len(t) : IsOf(t[i], "request", r) /\ t[i].try = n
    BY <1>1 DEF InOrder, AttemptsInOrder
  <2> QED BY <2>1, <2>2 DEF InOrder, AttemptsInOrder
<1>5. SnapshotsInOrder(t, r, rec, L)
  <2>1. \A i \in 1..Len(t) : IsOf(t[i], "snapshot", r) => i \in 1..Len(s) /\ t[i] = s[i]
    BY <1>1, <1>2, <1>3
  <2>2. ASSUME rec.snapshot = 0, NEW k \in L
        PROVE  \E i \in 1..Len(t) : IsOf(t[i], "snapshot", r) /\ t[i].try = k
    BY <1>1, <2>2 DEF InOrder, SnapshotsInOrder
  <2> QED BY <2>1, <2>2 DEF InOrder, SnapshotsInOrder
<1>6. RowFirst(t, r, rec, n)
  <2> SUFFICES ASSUME n > 0, NEW i \in 1..Len(t), t[i].req = r, t[i].kind # "request",
                      ~(rec.try > 0)
               PROVE  \E j \in 1..Len(t) : j < i /\ IsOf(t[j], "request", r)
    BY DEF RowFirst
  <2>1. CASE i \in 1..Len(s)
    <3>1. PICK j \in 1..Len(s) : j < i /\ IsOf(s[j], "request", r)
      BY <1>1, <2>1 DEF InOrder, RowFirst
    <3> QED BY <1>1, <3>1
  <2>2. CASE i = Len(s) + 1
    <3>1. PICK j \in 1..Len(s) : IsOf(s[j], "request", r)
      BY DEF InOrder, AttemptsInOrder
    <3> QED BY <1>1, <2>2, <3>1
  <2> QED BY <1>3, <2>1, <2>2
<1> QED BY <1>4, <1>5, <1>6 DEF InOrder, t

\* The next attempt is the last one.
LEMMA AttemptAppended ==
  ASSUME NEW s \in Seq(Message), NEW r \in Requests, NEW rec, rec.try \in Nat,
         NEW n \in Nat, n + 1 \in 1..MaxTries, NEW L, L \subseteq 1..n,
         InOrder(s, r, rec, n, L),
         n = 0 => \A i \in 1..Len(s) : ~IsOf(s[i], "response", r)
  PROVE  InOrder(Append(s, Attempt(r, n + 1)), r, rec, n + 1, L)
<1> DEFINE m == Attempt(r, n + 1)
           t == Append(s, m)
<1>m. m \in Message /\ m.kind = "request" /\ m.req = r /\ m.try = n + 1
  BY DEF Attempt, Message
<1> HIDE DEF m
<1>1. /\ Len(t) = Len(s) + 1 /\ Len(s) \in Nat
      /\ \A i \in 1..Len(s) : t[i] = s[i]
      /\ t[Len(s) + 1] = m
  BY <1>m, AppendProperties, LenProperties
<1>2. \A i \in 1..Len(t) : i \in 1..Len(s) \/ (i = Len(s) + 1 /\ t[i] = m)
  BY <1>1
<1>3. \A i \in 1..Len(s) : s[i] \in Message
  BY ElementOfSeq
<1> HIDE DEF t
<1>4. \A i \in 1..Len(s) : IsOf(s[i], "request", r) =>
        rec.try < s[i].try /\ s[i].try <= n /\ s[i].try \in Nat
  <2> SUFFICES ASSUME NEW i \in 1..Len(s), IsOf(s[i], "request", r)
               PROVE  rec.try < s[i].try /\ s[i].try <= n /\ s[i].try \in Nat
    OBVIOUS
  <2>1. s[i].kind = "request" /\ s[i].try \in 1..MaxTries
    BY <1>3, MessageType DEF IsOf
  <2> QED BY <2>1 DEF InOrder, AttemptsInOrder
<1>5. rec.try <= n
  BY <1>4 DEF InOrder, AttemptsInOrder
<1>6. AttemptsInOrder(t, r, rec, n + 1)
  <2>1. ASSUME NEW i \in 1..Len(t), IsOf(t[i], "request", r)
        PROVE  rec.try < t[i].try /\ t[i].try <= n + 1
    BY <1>m, <1>1, <1>2, <1>4, <1>5, <2>1
  <2>2. ASSUME NEW i \in 1..Len(t), NEW j \in 1..Len(t), i < j,
               IsOf(t[i], "request", r), IsOf(t[j], "request", r)
        PROVE  t[i].try < t[j].try
    <3>1. i \in 1..Len(s) /\ t[i] = s[i] /\ s[i].try <= n /\ s[i].try \in Nat
      BY <1>1, <1>2, <1>4, <2>2
    <3>2. CASE j \in 1..Len(s)
      BY <1>1, <2>2, <3>1, <3>2 DEF InOrder, AttemptsInOrder
    <3>3. CASE j = Len(s) + 1
      BY <1>m, <1>1, <3>1, <3>3
    <3> QED BY <1>2, <3>2, <3>3
  <2>3. Len(s) + 1 \in 1..Len(t) /\ IsOf(t[Len(s) + 1], "request", r) /\ t[Len(s) + 1].try = n + 1
    BY <1>m, <1>1 DEF IsOf
  <2> QED BY <2>1, <2>2, <2>3 DEF AttemptsInOrder
<1>7. SnapshotsInOrder(t, r, rec, L)
  <2>1. \A i \in 1..Len(t) : IsOf(t[i], "snapshot", r) => i \in 1..Len(s) /\ t[i] = s[i]
    BY <1>m, <1>1, <1>2 DEF IsOf
  <2>2. ASSUME rec.snapshot = 0, NEW k \in L
        PROVE  \E i \in 1..Len(t) : IsOf(t[i], "snapshot", r) /\ t[i].try = k
    <3>1. PICK i \in 1..Len(s) : IsOf(s[i], "snapshot", r) /\ s[i].try = k
      BY <2>2 DEF InOrder, SnapshotsInOrder
    <3> QED BY <1>1, <3>1
  <2> QED BY <2>1, <2>2 DEF InOrder, SnapshotsInOrder
<1>8. RowFirst(t, r, rec, n + 1)
  <2> SUFFICES ASSUME NEW i \in 1..Len(t), t[i].req = r, t[i].kind # "request", ~(rec.try > 0)
               PROVE  \E j \in 1..Len(t) : j < i /\ IsOf(t[j], "request", r)
    BY DEF RowFirst
  <2>1. i \in 1..Len(s) /\ t[i] = s[i]
    BY <1>m, <1>1, <1>2
  <2>2. n > 0
    <3>1. s[i].kind = "snapshot" \/ s[i].kind = "response"
      BY <1>3, <2>1, MessageType
    <3>2. CASE s[i].kind = "snapshot"
      <4>1. s[i].try \in 1..n
        BY <2>1, <3>2 DEF InOrder, SnapshotsInOrder, IsOf
      <4> QED BY <4>1
    <3>3. CASE s[i].kind = "response"
      BY <2>1, <3>3 DEF IsOf
    <3> QED BY <3>1, <3>2, <3>3
  <2>3. PICK j \in 1..Len(s) : j < i /\ IsOf(s[j], "request", r)
    BY <2>1, <2>2 DEF InOrder, RowFirst
  <2> QED BY <1>1, <2>3
<1> QED BY <1>6, <1>7, <1>8 DEF InOrder, t, m

\* A further 429 is that of the last attempt.
LEMMA SnapshotAppended ==
  ASSUME NEW s \in Seq(Message), NEW r \in Requests, NEW rec, rec.try \in Nat, rec.snapshot \in Nat,
         NEW n \in 1..MaxTries, NEW L, L \subseteq 1..n, n \notin L,
         InOrder(s, r, rec, n, L)
  PROVE  InOrder(Append(s, Snapshot(r, n)), r, rec, n, L \cup {n})
<1> DEFINE m == Snapshot(r, n)
           t == Append(s, m)
<1>m. m \in Message /\ m.kind = "snapshot" /\ m.req = r /\ m.try = n
  BY DEF Snapshot, Message
<1> HIDE DEF m
<1>1. /\ Len(t) = Len(s) + 1 /\ Len(s) \in Nat
      /\ \A i \in 1..Len(s) : t[i] = s[i]
      /\ t[Len(s) + 1] = m
  BY <1>m, AppendProperties, LenProperties
<1>2. \A i \in 1..Len(t) : i \in 1..Len(s) \/ (i = Len(s) + 1 /\ t[i] = m)
  BY <1>1
<1> HIDE DEF t
<1>3. AttemptsInOrder(t, r, rec, n)
  <2>1. \A i \in 1..Len(t) : IsOf(t[i], "request", r) => i \in 1..Len(s) /\ t[i] = s[i]
    BY <1>m, <1>1, <1>2 DEF IsOf
  <2>2. rec.try = n \/ \E i \in 1..Len(t) : IsOf(t[i], "request", r) /\ t[i].try = n
    BY <1>1 DEF InOrder, AttemptsInOrder
  <2> QED BY <2>1, <2>2 DEF InOrder, AttemptsInOrder
<1>4. SnapshotsInOrder(t, r, rec, L \cup {n})
  <2>1. \A i \in 1..Len(t) : IsOf(t[i], "snapshot", r) =>
           \/ i \in 1..Len(s) /\ t[i] = s[i] /\ t[i].try \in L
           \/ i = Len(s) + 1 /\ t[i] = m
    BY <1>1, <1>2 DEF InOrder, SnapshotsInOrder
  <2>2. ASSUME NEW i \in 1..Len(t), NEW j \in 1..Len(t), i < j,
               IsOf(t[i], "snapshot", r), IsOf(t[j], "snapshot", r)
        PROVE  t[i].try < t[j].try
    <3>1. i \in 1..Len(s) /\ t[i] = s[i] /\ s[i].try \in L /\ s[i].try \in 1..n /\ s[i].try # n
      <4>1. i \in 1..Len(s)
        BY <1>1, <1>2, <2>2
      <4>2. t[i] = s[i] /\ s[i].try \in L
        BY <1>1, <2>1, <2>2, <4>1
      <4> QED BY <4>1, <4>2
    <3>2. CASE j \in 1..Len(s)
      BY <1>1, <2>2, <3>1, <3>2 DEF InOrder, SnapshotsInOrder
    <3>3. CASE j = Len(s) + 1
      BY <1>m, <1>1, <3>1, <3>3
    <3> QED BY <1>2, <3>2, <3>3
  <2>3. ASSUME rec.snapshot = 0, NEW k \in L \cup {n}
        PROVE  \E i \in 1..Len(t) : IsOf(t[i], "snapshot", r) /\ t[i].try = k
    <3>1. CASE k \in L
      BY <1>1, <2>3, <3>1 DEF InOrder, SnapshotsInOrder
    <3>2. CASE k = n
      <4>1. Len(s) + 1 \in 1..Len(t) /\ IsOf(t[Len(s) + 1], "snapshot", r)
            /\ t[Len(s) + 1].try = n
        BY <1>m, <1>1 DEF IsOf
      <4> QED BY <3>2, <4>1
    <3> QED BY <2>3, <3>1, <3>2
  <2>4. ASSUME rec.snapshot # 0
        PROVE  rec.snapshot \in L /\ \A k \in L \cup {n} : rec.snapshot <= k
    <3>1. rec.snapshot \in L /\ \A k \in L : rec.snapshot <= k
      BY <2>4 DEF InOrder, SnapshotsInOrder
    <3> QED BY <3>1
  <2>5. \A i \in 1..Len(t) : IsOf(t[i], "snapshot", r) => t[i].try \in L \cup {n}
    BY <1>m, <2>1
  <2> QED BY <2>2, <2>3, <2>4, <2>5 DEF SnapshotsInOrder
<1>5. RowFirst(t, r, rec, n)
  <2> SUFFICES ASSUME n > 0, NEW i \in 1..Len(t), t[i].req = r, t[i].kind # "request",
                      ~(rec.try > 0)
               PROVE  \E j \in 1..Len(t) : j < i /\ IsOf(t[j], "request", r)
    BY DEF RowFirst
  <2>1. CASE i \in 1..Len(s)
    <3>1. PICK j \in 1..Len(s) : j < i /\ IsOf(s[j], "request", r)
      BY <1>1, <2>1 DEF InOrder, RowFirst
    <3> QED BY <1>1, <3>1
  <2>2. CASE i = Len(s) + 1
    <3>1. PICK j \in 1..Len(s) : IsOf(s[j], "request", r)
      BY DEF InOrder, AttemptsInOrder
    <3> QED BY <1>1, <2>2, <3>1
  <2> QED BY <1>2, <2>1, <2>2
<1> QED BY <1>3, <1>4, <1>5 DEF InOrder, t, m

LEMMA TailOf ==
  ASSUME NEW s \in Seq(Message), s # <<>>
  PROVE  /\ Tail(s) \in Seq(Message) /\ Len(s) \in Nat /\ Len(s) > 0
         /\ Len(Tail(s)) = Len(s) - 1
         /\ Head(s) \in Message /\ Head(s) = s[1]
         /\ \A i \in 1..Len(Tail(s)) : Tail(s)[i] = s[i + 1] /\ i + 1 \in 1..Len(s)
         /\ \A k \in 1..Len(s) : k = 1 \/ (k - 1 \in 1..Len(Tail(s)) /\ Tail(s)[k - 1] = s[k])
<1>1. /\ Tail(s) \in Seq(Message) /\ Len(Tail(s)) = Len(s) - 1 /\ Head(s) \in Message
      /\ \A i \in 1..Len(Tail(s)) : Tail(s)[i] = s[i + 1]
  BY HeadTailProperties
<1>2. Len(s) \in Nat /\ Len(s) > 0 /\ Head(s) = s[1]
  BY EmptySeq, LenProperties
<1> QED BY <1>1, <1>2

\* A message that is not saved, or changes nothing the order is about, is just gone.
LEMMA TailInOrder ==
  ASSUME NEW s \in Seq(Message), s # <<>>, NEW r, NEW rec, NEW n \in Nat, NEW L,
         InOrder(s, r, rec, n, L), Head(s).req # r \/ Head(s).kind = "response"
  PROVE  InOrder(Tail(s), r, rec, n, L)
<1> DEFINE at == [i \in 1..Len(Tail(s)) |-> i + 1]
<1>1. at \in [1..Len(Tail(s)) -> 1..Len(s)]
  BY TailOf
<1>2. \A i \in 1..Len(Tail(s)) : Tail(s)[i] = s[at[i]]
  BY TailOf
<1>3. \A i, j \in 1..Len(Tail(s)) : i < j <=> at[i] < at[j]
  OBVIOUS
<1>4. \A k \in 1..Len(s) : s[k].req = r /\ s[k].kind # "response" =>
         \E i \in 1..Len(Tail(s)) : at[i] = k
  <2> SUFFICES ASSUME NEW k \in 1..Len(s), s[k].req = r /\ s[k].kind # "response"
               PROVE  \E i \in 1..Len(Tail(s)) : at[i] = k
    OBVIOUS
  <2>1. k - 1 \in 1..Len(Tail(s))
    BY TailOf
  <2>2. at[k - 1] = k
    BY <2>1
  <2> QED BY <2>1, <2>2
<1>5. Tail(s) \in Seq(Message)
  BY TailOf
<1> HIDE DEF at
<1> QED BY <1>1, <1>2, <1>3, <1>4, <1>5, Thinned

\* The next message of r is saved.
LEMMA SavedInOrder ==
  ASSUME NEW s \in Seq(Message), s # <<>>, NEW r \in Requests, NEW rec \in Row,
         NEW n \in 0..MaxTries, NEW L, L \subseteq 1..n,
         InOrder(s, r, rec, n, L), Head(s).req = r
  PROVE  InOrder(Tail(s), r, Saved(Head(s), rec), n, L)
<1> DEFINE m == Head(s)
           t == Tail(s)
<1>1. /\ t \in Seq(Message) /\ Len(s) \in Nat /\ Len(s) > 0 /\ 1 \in 1..Len(s)
      /\ m \in Message /\ m = s[1] /\ n \in Nat
      /\ \A i \in 1..Len(t) : t[i] = s[i + 1] /\ i + 1 \in 1..Len(s) /\ 1 < i + 1
      /\ \A k \in 1..Len(s) : k = 1 \/ (k - 1 \in 1..Len(t) /\ t[k - 1] = s[k])
  BY TailOf, BoundsAssumption
<1>n. /\ rec.try \in Nat /\ rec.snapshot \in Nat
      /\ m.kind \in {"request", "snapshot", "response"}
      /\ m.kind # "response" => m.try \in 1..MaxTries
  BY <1>1, MessageType DEF Row
<1> HIDE DEF m, t
<1>2. CASE m.kind = "response"
  <2>1. Saved(m, rec).try = rec.try /\ Saved(m, rec).snapshot = rec.snapshot
    BY <1>2 DEF Saved, Row
  <2>2. InOrder(t, r, rec, n, L)
    BY <1>1, <1>2, TailInOrder DEF m, t
  <2> QED BY <2>1, <2>2 DEF InOrder, AttemptsInOrder, SnapshotsInOrder, RowFirst, m, t
<1>3. CASE m.kind = "request"
  <2> DEFINE new == Saved(m, rec)
  <2>1. new.try = m.try /\ new.snapshot = rec.snapshot
    BY <1>3 DEF Saved, Row
  <2>2. IsOf(s[1], "request", r) /\ s[1].try = m.try /\ rec.try < m.try /\ m.try <= n
    <3>1. IsOf(s[1], "request", r)
      BY <1>1, <1>3 DEF IsOf, m
    <3> QED BY <1>1, <3>1 DEF InOrder, AttemptsInOrder
  <2> HIDE DEF new
  <2>3. AttemptsInOrder(t, r, new, n)
    <3>1. ASSUME NEW i \in 1..Len(t), IsOf(t[i], "request", r)
          PROVE  new.try < t[i].try /\ t[i].try <= n
      BY <1>1, <2>1, <2>2, <3>1 DEF InOrder, AttemptsInOrder
    <3>2. ASSUME NEW i \in 1..Len(t), NEW j \in 1..Len(t), i < j,
                 IsOf(t[i], "request", r), IsOf(t[j], "request", r)
          PROVE  t[i].try < t[j].try
      <4>1. i + 1 < j + 1 /\ i + 1 \in 1..Len(s) /\ j + 1 \in 1..Len(s)
        BY <1>1, <3>2
      <4> QED BY <1>1, <3>2, <4>1 DEF InOrder, AttemptsInOrder
    <3>3. new.try = n \/ \E i \in 1..Len(t) : IsOf(t[i], "request", r) /\ t[i].try = n
      <4>1. PICK k \in 1..Len(s) : IsOf(s[k], "request", r) /\ s[k].try = n
        BY <1>3, <1>n, <2>2 DEF InOrder, AttemptsInOrder
      <4> QED BY <1>1, <2>1, <2>2, <4>1
    <3> QED BY <3>1, <3>2, <3>3 DEF AttemptsInOrder
  <2>4. SnapshotsInOrder(t, r, new, L)
    <3>1. \A i \in 1..Len(t) : IsOf(t[i], "snapshot", r) => t[i].try \in L
      BY <1>1 DEF InOrder, SnapshotsInOrder
    <3>2. ASSUME NEW i \in 1..Len(t), NEW j \in 1..Len(t), i < j,
                 IsOf(t[i], "snapshot", r), IsOf(t[j], "snapshot", r)
          PROVE  t[i].try < t[j].try
      <4>1. i + 1 < j + 1 /\ i + 1 \in 1..Len(s) /\ j + 1 \in 1..Len(s)
        BY <1>1, <3>2
      <4> QED BY <1>1, <3>2, <4>1 DEF InOrder, SnapshotsInOrder
    <3>3. ASSUME new.snapshot = 0, NEW k \in L
          PROVE  \E i \in 1..Len(t) : IsOf(t[i], "snapshot", r) /\ t[i].try = k
      <4>1. PICK i \in 1..Len(s) : IsOf(s[i], "snapshot", r) /\ s[i].try = k
        BY <2>1, <3>3 DEF InOrder, SnapshotsInOrder
      <4>2. i # 1
        BY <2>2, <4>1 DEF IsOf
      <4> QED BY <1>1, <4>1, <4>2
    <3> QED BY <2>1, <3>1, <3>2, <3>3 DEF InOrder, SnapshotsInOrder
  <2>5. RowFirst(t, r, new, n)
    BY <1>3, <1>n, <2>1, <2>2 DEF RowFirst
  <2> QED BY <2>3, <2>4, <2>5 DEF InOrder, new, m, t
<1>4. CASE m.kind = "snapshot"
  <2> DEFINE new == Saved(m, rec)
  <2>1. IsOf(s[1], "snapshot", r) /\ s[1].try = m.try /\ m.try \in L /\ n > 0
    <3>1. IsOf(s[1], "snapshot", r)
      BY <1>1, <1>4 DEF IsOf, m
    <3>2. m.try \in L
      BY <1>1, <3>1 DEF InOrder, SnapshotsInOrder
    <3>3. m.try \in 1..n
      BY <3>2
    <3> QED BY <1>1, <3>1, <3>2, <3>3
  <2>2. rec.try > 0
    BY <1>1, <2>1 DEF InOrder, RowFirst, IsOf
  <2>3. /\ new.try = rec.try
        /\ new.snapshot = IF rec.snapshot = 0 THEN m.try ELSE rec.snapshot
    BY <1>4, <2>2 DEF Saved, Row
  <2> HIDE DEF new
  <2>4. AttemptsInOrder(t, r, new, n)
    <3>1. ASSUME NEW i \in 1..Len(t), IsOf(t[i], "request", r)
          PROVE  new.try < t[i].try /\ t[i].try <= n
      BY <1>1, <2>3, <3>1 DEF InOrder, AttemptsInOrder
    <3>2. ASSUME NEW i \in 1..Len(t), NEW j \in 1..Len(t), i < j,
                 IsOf(t[i], "request", r), IsOf(t[j], "request", r)
          PROVE  t[i].try < t[j].try
      <4>1. i + 1 < j + 1 /\ i + 1 \in 1..Len(s) /\ j + 1 \in 1..Len(s)
        BY <1>1, <3>2
      <4> QED BY <1>1, <3>2, <4>1 DEF InOrder, AttemptsInOrder
    <3>3. ASSUME new.try # n
          PROVE  \E i \in 1..Len(t) : IsOf(t[i], "request", r) /\ t[i].try = n
      <4>1. PICK k \in 1..Len(s) : IsOf(s[k], "request", r) /\ s[k].try = n
        BY <2>3, <3>3 DEF InOrder, AttemptsInOrder
      <4>2. k # 1
        BY <2>1, <4>1 DEF IsOf
      <4> QED BY <1>1, <4>1, <4>2
    <3> QED BY <3>1, <3>2, <3>3 DEF AttemptsInOrder
  <2>5. SnapshotsInOrder(t, r, new, L)
    <3>1. \A i \in 1..Len(t) : IsOf(t[i], "snapshot", r) => t[i].try \in L
      BY <1>1 DEF InOrder, SnapshotsInOrder
    <3>2. ASSUME NEW i \in 1..Len(t), NEW j \in 1..Len(t), i < j,
                 IsOf(t[i], "snapshot", r), IsOf(t[j], "snapshot", r)
          PROVE  t[i].try < t[j].try
      <4>1. i + 1 < j + 1 /\ i + 1 \in 1..Len(s) /\ j + 1 \in 1..Len(s)
        BY <1>1, <3>2
      <4> QED BY <1>1, <3>2, <4>1 DEF InOrder, SnapshotsInOrder
    <3>3. new.snapshot # 0
      BY <1>4, <1>n, <2>3
    <3>4. ASSUME NEW k \in L
          PROVE  new.snapshot \in L /\ new.snapshot <= k
      <4>1. CASE rec.snapshot # 0
        BY <2>3, <3>4, <4>1 DEF InOrder, SnapshotsInOrder
      <4>2. CASE rec.snapshot = 0
        <5>1. PICK i \in 1..Len(s) : IsOf(s[i], "snapshot", r) /\ s[i].try = k
          BY <3>4, <4>2 DEF InOrder, SnapshotsInOrder
        <5>2. CASE i = 1
          BY <1>4, <1>n, <2>1, <2>3, <4>2, <5>1, <5>2
        <5>3. CASE i # 1
          <6>1. 1 < i
            BY <5>3
          <6>2. m.try < k
            BY <1>1, <2>1, <5>1, <6>1 DEF InOrder, SnapshotsInOrder
          <6>3. m.try \in Nat /\ k \in Nat
            BY <1>4, <1>n, <3>4
          <6> QED BY <2>1, <2>3, <4>2, <6>2, <6>3
        <5> QED BY <5>2, <5>3
      <4> QED BY <4>1, <4>2
    <3>5. new.snapshot \in L
      BY <2>1, <3>4
    <3> QED BY <3>1, <3>2, <3>3, <3>4, <3>5 DEF SnapshotsInOrder
  <2>6. RowFirst(t, r, new, n)
    BY <2>2, <2>3 DEF RowFirst
  <2> QED BY <2>4, <2>5, <2>6 DEF InOrder, new, m, t
<1> QED BY <1>n, <1>2, <1>3, <1>4

-----------------------------------------------------------------------------
(* Types                                                                   *)

LEMMA SavedType ==
  ASSUME NEW m \in Message, NEW rec \in Row
  PROVE  Saved(m, rec) \in Row
<1>1. m.kind # "response" => m.try \in Nat
  BY MessageType, BoundsAssumption
<1>2. m.kind = "response" => m.end \in Endings
  BY MessageType
<1> QED BY <1>1, <1>2 DEF Saved, Row

LEMMA AmongType ==
  ASSUME NEW s \in Seq(Message)
  PROVE  Among(s) \subseteq Requests
BY ElementOfSeq, MessageType DEF Among

LEMMA MessagesMade ==
  ASSUME NEW r \in Requests
  PROVE  /\ \A e \in Endings : Response(r, e) \in Answer
         /\ \A n \in 1..MaxTries : Attempt(r, n) \in Message /\ Snapshot(r, n) \in Message
BY DEF Response, Attempt, Snapshot, Answer, Message

LEMMA AnswerIsMessage ==
  ASSUME NEW m \in Answer
  PROVE  m \in Message /\ m.kind = "response" /\ m.req \in Requests /\ m.end \in Endings
BY DEF Answer, Message

LEMMA SendType ==
  ASSUME TypeOK, NEW m \in Message, Send(m)
  PROVE  queue' \in Seq(Message)
BY AppendProperties DEF Send, TypeOK

LEMMA TypeInit == Init => TypeOK
<1> SUFFICES ASSUME Init PROVE TypeOK
  OBVIOUS
<1>1. queue \in Seq(Message) /\ inbox \in Seq(Message)
  BY EmptySeq DEF Init
<1>2. row \in [Requests -> Row]
  BY DEF Init, NoRow, Row
<1>3. stage \in [Requests -> Stages] /\ ended \in [Requests -> Fates]
  BY DEF Init, Stages, Fates
<1>5. armed \in [Requests -> BOOLEAN]
  BY DEF Init
<1>6. \A r \in Requests : stage[r] \notin Logged
  BY DEF Init, Logged
<1>4. tries \in [Requests -> 0..MaxTries] /\ limited \in [Requests -> SUBSET (1..MaxTries)]
  BY BoundsAssumption DEF Init
<1> QED BY <1>1, <1>2, <1>3, <1>4, <1>5, <1>6 DEF Init, TypeOK

LEMMA TypeStep == TypeOK /\ [Next]_logVars => TypeOK'
<1> SUFFICES ASSUME TypeOK, [Next]_logVars PROVE TypeOK'
  OBVIOUS
<1>b. MaxTries \in Nat
  BY BoundsAssumption
<1>1. ASSUME NEW r \in Requests, NEW to \in {"sent", "skipped"}, Logs(r, to), Arms(r) \/ UNCHANGED armed
      PROVE  TypeOK'
  <2>1. tries[r] + 1 \in 1..MaxTries
    BY <1>1, <1>b DEF Logs, TypeOK
  <2>2. queue' \in Seq(Message)
    BY <1>1, <2>1, MessagesMade, SendType DEF Logs
  <2>3. tries' \in [Requests -> 0..MaxTries] /\ stage' \in [Requests -> Stages]
    BY <1>1, <1>b, <2>1 DEF Logs, Moves, Stages, TypeOK
  <2>4. ASSUME NEW q \in Requests, stage'[q] \in Logged
        PROVE  tries'[q] > 0
    <3>1. CASE q = r
      BY <1>1, <2>1, <3>1 DEF Logs, TypeOK
    <3>2. CASE q # r
      BY <1>1, <2>4, <3>2 DEF Logs, Moves, TypeOK
    <3> QED BY <3>1, <3>2
  <2>5. armed' \in [Requests -> BOOLEAN]
    BY <1>1 DEF Arms, TypeOK
  <2> QED BY <1>1, <2>2, <2>3, <2>4, <2>5 DEF Logs, TypeOK
<1>2. ASSUME NEW r \in Requests, LogRateLimit(r)
      PROVE  TypeOK'
  <2>1. tries[r] \in 1..MaxTries
    BY <1>2, <1>b DEF LogRateLimit, Logged, TypeOK
  <2>2. queue' \in Seq(Message)
    BY <1>2, <2>1, MessagesMade, SendType DEF LogRateLimit
  <2>3. limited' \in [Requests -> SUBSET (1..MaxTries)]
    BY <1>2, <2>1 DEF LogRateLimit, TypeOK
  <2> QED BY <1>2, <2>2, <2>3 DEF LogRateLimit, TypeOK
<1>3. ASSUME NEW r \in Requests, NEW e \in Endings \cup Untold, Ends(r, e)
      PROVE  /\ stage' \in [Requests -> Stages] /\ ended' \in [Requests -> Fates]
             /\ armed' \in [Requests -> BOOLEAN]
             /\ \A q \in Requests : stage'[q] \in Logged => stage'[q] = stage[q]
  <2>1. e \in Fates /\ "over" \in Stages /\ "over" \notin Logged
    BY DEF Fates, Stages, Logged
  <2> QED BY <1>3, <2>1 DEF Ends, Moves, TypeOK
<1>4. ASSUME NEW r \in Requests, NEW e \in Endings, Ends(r, e), tasks' = tasks \cup {Response(r, e)},
             UNCHANGED <<tries, limited, queue, inbox, up, row, lost, failures>>
      PROVE  TypeOK'
  BY <1>3, <1>4, MessagesMade DEF TypeOK
<1>5. ASSUME NEW r \in Requests, Fail(r) \/ Respond(r)
      PROVE  TypeOK'
  BY <1>4, <1>5 DEF Fail, Respond, Endings
<1>6. ASSUME NEW r \in Requests, NEW e \in {"complete", "client", "upstream"}, StreamEnds(r, e)
      PROVE  TypeOK'
  BY <1>4, <1>6 DEF StreamEnds, Endings
<1>u. ASSUME NEW r \in Requests, NEW e \in Untold, Ends(r, e),
             UNCHANGED <<tries, limited, tasks, queue, inbox, up, row, lost, failures>>
      PROVE  TypeOK'
  BY <1>3, <1>u DEF TypeOK
<1>7. ASSUME NEW r \in Requests, Leave(r)
      PROVE  TypeOK'
  <2>1. "left" \in Endings /\ Response(r, "left") \in Message
    BY MessagesMade, AnswerIsMessage DEF Endings
  <2>2. CASE Ends(r, "left") /\ Send(Response(r, "left"))
    <3>1. queue' \in Seq(Message)
      BY <2>1, <2>2, SendType
    <3> QED BY <1>3, <1>7, <2>1, <2>2, <3>1 DEF Leave, TypeOK
  <2>3. CASE Ends(r, "unseen") /\ UNCHANGED queue
    BY <1>u, <1>7, <2>3 DEF Leave, Untold
  <2> QED BY <1>7, <2>2, <2>3 DEF Leave
<1>17. ASSUME NEW r \in Requests, ReturnUnlogged(r)
       PROVE  TypeOK'
  BY <1>u, <1>17 DEF ReturnUnlogged, Untold
<1>18. ASSUME NEW r \in Requests, LogAttempt(r) \/ LogSkip(r) \/ LogSkipOpen(r)
       PROVE  TypeOK'
  BY <1>1, <1>18 DEF LogAttempt, LogSkip, LogSkipOpen
<1>8. ASSUME NEW r \in Requests, Open(r)
      PROVE  TypeOK'
  <2>1. Response(r, "opened") \in Answer
    BY MessagesMade DEF Endings
  <2>2. stage' \in [Requests -> Stages] /\ armed' \in [Requests -> BOOLEAN]
        /\ \A q \in Requests : stage'[q] \in Logged => stage[q] \in Logged
    BY <1>8 DEF Open, Moves, Stages, Logged, TypeOK
  <2> QED BY <1>8, <2>1, <2>2 DEF Open, TypeOK
<1>9. ASSUME NEW m \in tasks, RunTask(m)
      PROVE  TypeOK'
  <2>1. queue' \in Seq(Message)
    BY <1>9, AnswerIsMessage, SendType DEF RunTask, TypeOK
  <2> QED BY <1>9, <2>1 DEF RunTask, senderVars, TypeOK
<1>10. CASE Forward
  <2>1. Head(queue) \in Message /\ Tail(queue) \in Seq(Message)
    BY <1>10, TailOf DEF Forward, TypeOK
  <2>2. inbox' \in Seq(Message)
    <3>1. inbox' = Append(inbox, Head(queue)) \/ inbox' = inbox
      BY <1>10 DEF Forward
    <3>2. Append(inbox, Head(queue)) \in Seq(Message) /\ inbox \in Seq(Message)
      BY <2>1, AppendProperties DEF TypeOK
    <3> QED BY <3>1, <3>2
  <2>3. lost' \subseteq Requests
    <3>1. lost' = lost \cup {Head(queue).req} \/ lost' = lost
      BY <1>10 DEF Forward
    <3>2. Head(queue).req \in Requests
      BY <2>1, MessageType
    <3> QED BY <3>1, <3>2 DEF TypeOK
  <2> QED BY <1>10, <2>1, <2>2, <2>3 DEF Forward, senderVars, TypeOK
<1>11. CASE Save
  <2>1. Head(inbox) \in Message /\ Tail(inbox) \in Seq(Message)
    BY <1>11, TailOf DEF Save, TypeOK
  <2>2. Head(inbox).req \in Requests /\ row[Head(inbox).req] \in Row
    BY <2>1, MessageType DEF TypeOK
  <2>3. Saved(Head(inbox), row[Head(inbox).req]) \in Row
    BY <2>1, <2>2, SavedType
  <2>4. row' \in [Requests -> Row]
    BY <1>11, <2>3 DEF Save, TypeOK
  <2> QED BY <1>11, <2>1, <2>4 DEF Save, senderVars, TypeOK
<1>12. CASE SaveFails
  <2>1. Head(inbox) \in Message /\ Tail(inbox) \in Seq(Message)
    BY <1>12, TailOf DEF SaveFails, TypeOK
  <2> QED BY <1>12, <2>1, MessageType DEF SaveFails, FailsOnce, senderVars, TypeOK
<1>13. ASSUME NEW n \in 0..Len(inbox), Disconnect(n)
       PROVE  TypeOK'
  <2>1. Len(inbox) \in Nat /\ \A i \in 1..Len(inbox) : inbox[i] \in Message
    BY ElementOfSeq, LenProperties DEF TypeOK
  <2>2. SubSeq(inbox, 1, n) \in Seq(Message) /\ SubSeq(inbox, n + 1, Len(inbox)) \in Seq(Message)
    BY <2>1, SubSeqProperties
  <2>3. inbox' \in Seq(Message) /\ up' = FALSE /\ failures' \in Nat
    BY <1>13, <2>2 DEF Disconnect, FailsOnce, TypeOK
  <2>4. lost' \subseteq Requests
    BY <1>13, <2>2, AmongType DEF Disconnect, TypeOK
  <2> QED BY <1>13, <2>3, <2>4 DEF Disconnect, senderVars, TypeOK
<1>14. CASE ProxyDies
  <2>1. {m.req : m \in tasks} \subseteq Requests /\ Among(queue) \subseteq Requests
    BY AmongType DEF Answer, TypeOK
  <2>2. lost' \subseteq Requests
    BY <1>14, <2>1 DEF ProxyDies, TypeOK
  <2>3. stage' \in [Requests -> Stages]
    BY <1>14 DEF ProxyDies, Stages
  <2>4. armed' \in [Requests -> BOOLEAN] /\ \A r \in Requests : stage'[r] \notin Logged
    BY <1>14 DEF ProxyDies, Logged
  <2>5. queue' = <<>> /\ tasks' = {} /\ up' = FALSE /\ failures' \in Nat
    BY <1>14 DEF ProxyDies, FailsOnce, TypeOK
  <2>6. <<>> \in Seq(Message)
    BY EmptySeq
  <2> QED BY <1>14, <2>2, <2>3, <2>4, <2>5, <2>6 DEF ProxyDies, TypeOK
<1>15. CASE ConsoleDies
  <2>1. inbox' = <<>> /\ up' = FALSE /\ failures' \in Nat
    BY <1>15 DEF ConsoleDies, FailsOnce, TypeOK
  <2>2. lost' \subseteq Requests /\ <<>> \in Seq(Message)
    BY <1>15, EmptySeq, AmongType DEF ConsoleDies, TypeOK
  <2> QED BY <1>15, <2>1, <2>2 DEF ConsoleDies, senderVars, TypeOK
<1>16. CASE Reconnect \/ UNCHANGED logVars
  BY <1>16 DEF Reconnect, logVars, senderVars, TypeOK
<1> QED BY <1>2, <1>5, <1>6, <1>7, <1>8, <1>9, <1>10, <1>11, <1>12, <1>13, <1>14, <1>15, <1>16,
           <1>17, <1>18 DEF Next

-----------------------------------------------------------------------------
(* The pipe                                                                *)

LEMMA PipeType ==
  ASSUME TypeOK
  PROVE  /\ Pipe \in Seq(Message) /\ Len(Pipe) = Len(inbox) + Len(queue)
         /\ Len(inbox) \in Nat /\ Len(queue) \in Nat /\ Len(Pipe) \in Nat
         /\ \A i \in 1..Len(inbox) : Pipe[i] = inbox[i]
         /\ \A i \in 1..Len(queue) : Pipe[Len(inbox) + i] = queue[i]
         /\ \A i \in 1..Len(Pipe) : Pipe[i] = IF i <= Len(inbox) THEN inbox[i]
                                              ELSE queue[i - Len(inbox)]
<1>1. inbox \in Seq(Message) /\ queue \in Seq(Message) /\ Len(inbox) \in Nat /\ Len(queue) \in Nat
  BY LenProperties DEF TypeOK
<1>2. /\ Pipe \in Seq(Message) /\ Len(Pipe) = Len(inbox) + Len(queue)
      /\ \A i \in 1..Len(inbox) + Len(queue) :
           Pipe[i] = IF i <= Len(inbox) THEN inbox[i] ELSE queue[i - Len(inbox)]
  BY <1>1, ConcatProperties DEF Pipe
<1>3. ASSUME NEW i \in 1..Len(queue)
      PROVE  Pipe[Len(inbox) + i] = queue[i]
  <2>1. Len(inbox) + i \in 1..Len(inbox) + Len(queue) /\ ~(Len(inbox) + i <= Len(inbox))
        /\ (Len(inbox) + i) - Len(inbox) = i
    BY <1>1
  <2> QED BY <1>2, <2>1
<1>4. \A i \in 1..Len(inbox) : Pipe[i] = inbox[i]
  BY <1>1, <1>2
<1> QED BY <1>1, <1>2, <1>3, <1>4

LEMMA PipeSent ==
  ASSUME TypeOK, NEW m \in Message, Send(m), UNCHANGED inbox
  PROVE  Pipe' = Append(Pipe, m)
<1>1. inbox \in Seq(Message) /\ queue \in Seq(Message) /\ <<m>> \in Seq(Message)
  BY DEF TypeOK
<1>2. Append(queue, m) = queue \o <<m>>
  BY <1>1, AppendIsConcat
<1>3. inbox \o (queue \o <<m>>) = (inbox \o queue) \o <<m>>
  BY <1>1, ConcatAssociative
<1>4. Append(Pipe, m) = Pipe \o <<m>>
  BY PipeType, AppendIsConcat
<1> QED BY <1>2, <1>3, <1>4 DEF Send, Pipe

LEMMA PipeSaved ==
  ASSUME TypeOK, inbox # <<>>, inbox' = Tail(inbox), UNCHANGED queue
  PROVE  Pipe # <<>> /\ Head(Pipe) = Head(inbox) /\ Pipe' = Tail(Pipe)
<1>1. /\ inbox \in Seq(Message) /\ queue \in Seq(Message) /\ Tail(inbox) \in Seq(Message)
      /\ Len(inbox) > 0 /\ Len(Tail(inbox)) = Len(inbox) - 1 /\ Head(inbox) = inbox[1]
      /\ \A i \in 1..Len(Tail(inbox)) : Tail(inbox)[i] = inbox[i + 1]
  BY TailOf DEF TypeOK
<1>2. Pipe # <<>>
  BY <1>1, PipeType, EmptySeq
<1>3. /\ Tail(Pipe) \in Seq(Message) /\ Len(Tail(Pipe)) = Len(Pipe) - 1 /\ Head(Pipe) = Pipe[1]
      /\ \A i \in 1..Len(Tail(Pipe)) : Tail(Pipe)[i] = Pipe[i + 1]
  BY <1>2, PipeType, TailOf
<1>4. Head(Pipe) = Head(inbox)
  BY <1>1, <1>3, PipeType
<1>5. /\ Tail(inbox) \o queue \in Seq(Message)
      /\ Len(Tail(inbox) \o queue) = Len(Tail(inbox)) + Len(queue)
      /\ \A i \in 1..Len(Tail(inbox)) + Len(queue) : (Tail(inbox) \o queue)[i] =
           IF i <= Len(Tail(inbox)) THEN Tail(inbox)[i] ELSE queue[i - Len(Tail(inbox))]
  BY <1>1, ConcatProperties
<1>6. ASSUME NEW i \in 1..Len(Tail(Pipe))
      PROVE  Tail(Pipe)[i] = (Tail(inbox) \o queue)[i]
  <2>1. CASE i <= Len(Tail(inbox))
    BY <1>1, <1>3, <1>5, <2>1, PipeType
  <2>2. CASE ~(i <= Len(Tail(inbox)))
    <3>1. i - Len(Tail(inbox)) = (i + 1) - Len(inbox)
      BY <1>1, PipeType
    <3> QED BY <1>1, <1>3, <1>5, <2>2, <3>1, PipeType
  <2> QED BY <2>1, <2>2
<1>7. Len(Tail(Pipe)) = Len(Tail(inbox) \o queue)
  <2>1. Len(Pipe) = Len(inbox) + Len(queue) /\ Len(inbox) \in Nat /\ Len(queue) \in Nat
    BY PipeType
  <2> QED BY <1>1, <1>3, <1>5, <2>1
<1>8. Tail(Pipe) = Tail(inbox) \o queue
  BY <1>3, <1>5, <1>6, <1>7, SeqEqual
<1> QED BY <1>2, <1>4, <1>8 DEF Pipe

LEMMA PipePassed ==
  ASSUME TypeOK, queue # <<>>, queue' = Tail(queue), inbox' = Append(inbox, Head(queue))
  PROVE  Pipe' = Pipe
<1>1. /\ inbox \in Seq(Message) /\ queue \in Seq(Message) /\ Tail(queue) \in Seq(Message)
      /\ Head(queue) \in Message /\ Len(queue) > 0
      /\ Len(Tail(queue)) = Len(queue) - 1 /\ Head(queue) = queue[1]
      /\ \A i \in 1..Len(Tail(queue)) : Tail(queue)[i] = queue[i + 1]
  BY TailOf DEF TypeOK
<1> DEFINE a == Append(inbox, Head(queue))
           t == a \o Tail(queue)
<1>2. /\ a \in Seq(Message) /\ Len(a) = Len(inbox) + 1
      /\ \A i \in 1..Len(inbox) : a[i] = inbox[i]
      /\ a[Len(inbox) + 1] = Head(queue)
  BY <1>1, AppendProperties
<1> HIDE DEF a
<1>3. /\ t \in Seq(Message) /\ Len(t) = Len(a) + Len(Tail(queue))
      /\ \A i \in 1..Len(a) + Len(Tail(queue)) :
           t[i] = IF i <= Len(a) THEN a[i] ELSE Tail(queue)[i - Len(a)]
  BY <1>1, <1>2, ConcatProperties
<1>h. Pipe' = t
  BY DEF Pipe, a
<1> HIDE DEF t
<1>n. /\ Len(Pipe) = Len(inbox) + Len(queue) /\ Len(inbox) \in Nat /\ Len(queue) \in Nat
      /\ Len(t) = Len(Pipe) /\ Len(a) + Len(Tail(queue)) = Len(Pipe)
  <2>1. Len(Pipe) = Len(inbox) + Len(queue) /\ Len(inbox) \in Nat /\ Len(queue) \in Nat
    BY PipeType
  <2> QED BY <1>1, <1>2, <1>3, <2>1
<1>4. ASSUME NEW i \in 1..Len(Pipe)
      PROVE  t[i] = Pipe[i]
  <2>1. CASE i <= Len(inbox)
    <3>1. i \in 1..Len(inbox) /\ i <= Len(a)
      BY <1>2, <1>n, <2>1
    <3>2. t[i] = a[i]
      BY <1>3, <1>n, <3>1
    <3> QED BY <1>2, <3>1, <3>2, PipeType
  <2>2. CASE i = Len(inbox) + 1
    <3>1. i <= Len(a) /\ 1 \in 1..Len(queue) /\ Len(inbox) + 1 = i
      BY <1>1, <1>2, <1>n, <2>2
    <3>2. t[i] = a[i]
      BY <1>3, <1>n, <3>1
    <3>3. Pipe[Len(inbox) + 1] = queue[1]
      BY <3>1, PipeType
    <3> QED BY <1>1, <1>2, <3>1, <3>2, <3>3
  <2>3. CASE i > Len(inbox) + 1
    <3>1. /\ i - Len(a) \in 1..Len(Tail(queue))
          /\ (i - Len(a)) + 1 = i - Len(inbox)
      BY <1>1, <1>2, <2>3, PipeType
    <3>2. t[i] = Tail(queue)[i - Len(a)]
      <4>1. ~(i <= Len(a))
        BY <1>2, <1>n, <2>3
      <4> QED BY <1>3, <1>n, <4>1
    <3>3. Pipe[i] = queue[i - Len(inbox)]
      BY <2>3, PipeType
    <3> QED BY <1>1, <3>1, <3>2, <3>3
  <2> QED BY <2>1, <2>2, <2>3, PipeType
<1> QED BY <1>h, <1>n, <1>3, <1>4, PipeType, SeqEqual

-----------------------------------------------------------------------------
(* A request that a step does not touch                                    *)

SameFor(r) ==
  /\ stage'[r] = stage[r] /\ tries'[r] = tries[r] /\ limited'[r] = limited[r]
  /\ ended'[r] = ended[r] /\ row'[r] = row[r]
  /\ \A m : m.req = r => (m \in tasks' <=> m \in tasks)

LEMMA ToldFrame ==
  ASSUME NEW r \in Requests, Told(r), SameFor(r),
         InOrder(Pipe', r, row[r], tries[r], limited[r]),
         \A i \in 1..Len(Pipe') : IsOf(Pipe'[i], "response", r) =>
           \E k \in 1..Len(Pipe) : Pipe[k] = Pipe'[i],
         \A k \in 1..Len(Pipe) : IsOf(Pipe[k], "response", r) =>
           \E i \in 1..Len(Pipe') : Pipe'[i] = Pipe[k]
  PROVE  Told(r)'
<1>1. limited'[r] \subseteq 1..tries'[r]
  BY DEF Told, SameFor
<1>2. InOrder(Pipe', r, row'[r], tries'[r], limited'[r])
  BY DEF SameFor
<1>3. EndTold(Pipe, r)'
  <2>1. ASSUME Unanswered(r)'
        PROVE  /\ \A i \in 1..Len(Pipe') : ~IsOf(Pipe'[i], "response", r)
               /\ \A m \in tasks' : m.req # r
               /\ row'[r].end = Nothing
    <3>1. /\ \A i \in 1..Len(Pipe) : ~IsOf(Pipe[i], "response", r)
          /\ \A m \in tasks : m.req # r
          /\ row[r].end = Nothing
      BY <2>1 DEF Told, EndTold, Unanswered, InHandler, SameFor
    <3>2. \A i \in 1..Len(Pipe') : ~IsOf(Pipe'[i], "response", r)
      BY <3>1
    <3> QED BY <3>1, <3>2 DEF SameFor
  <2>2. ASSUME stage'[r] = "over" /\ ended'[r] \in SingleEnd
        PROVE  /\ \A i \in 1..Len(Pipe') : IsOf(Pipe'[i], "response", r) => Pipe'[i].end = ended'[r]
               /\ \A m \in tasks' : m.req = r => m.end = ended'[r]
               /\ tries'[r] > 0 => \/ row'[r].end = ended'[r]
                                   \/ \E m \in tasks' : m.req = r
                                   \/ \E i \in 1..Len(Pipe') : IsOf(Pipe'[i], "response", r)
    <3>1. /\ \A i \in 1..Len(Pipe) : IsOf(Pipe[i], "response", r) => Pipe[i].end = ended[r]
          /\ \A m \in tasks : m.req = r => m.end = ended[r]
          /\ tries[r] > 0 => \/ row[r].end = ended[r]
                             \/ \E m \in tasks : m.req = r
                             \/ \E i \in 1..Len(Pipe) : IsOf(Pipe[i], "response", r)
      BY <2>2 DEF Told, EndTold, SameFor
    <3>2. ASSUME NEW i \in 1..Len(Pipe'), IsOf(Pipe'[i], "response", r)
          PROVE  Pipe'[i].end = ended'[r]
      <4>1. PICK k \in 1..Len(Pipe) : Pipe[k] = Pipe'[i]
        BY <3>2
      <4>2. Pipe[k].end = ended[r]
        BY <3>1, <3>2, <4>1
      <4> QED BY <4>1, <4>2 DEF SameFor
    <3>3. \A m \in tasks' : m.req = r => m.end = ended'[r]
      BY <3>1 DEF SameFor
    <3>4. ASSUME tries'[r] > 0
          PROVE  \/ row'[r].end = ended'[r]
                 \/ \E m \in tasks' : m.req = r
                 \/ \E i \in 1..Len(Pipe') : IsOf(Pipe'[i], "response", r)
      <4>1. CASE row[r].end = ended[r]
        BY <4>1 DEF SameFor
      <4>2. CASE \E m \in tasks : m.req = r
        BY <4>2 DEF SameFor
      <4>3. CASE \E k \in 1..Len(Pipe) : IsOf(Pipe[k], "response", r)
        BY <4>3
      <4> QED BY <3>1, <3>4, <4>1, <4>2, <4>3 DEF SameFor
    <3> QED BY <3>2, <3>3, <3>4
  <2> QED BY <2>1, <2>2 DEF EndTold
<1> QED BY <1>1, <1>2, <1>3 DEF Told

\* Another request sends something.
LEMMA ToldAppended ==
  ASSUME TypeOK, NEW r \in Requests, Told(r), SameFor(r),
         NEW m \in Message, m.req # r, Pipe' = Append(Pipe, m)
  PROVE  Told(r)'
<1>1. /\ Pipe \in Seq(Message) /\ Len(Pipe') = Len(Pipe) + 1 /\ Len(Pipe) \in Nat
      /\ \A i \in 1..Len(Pipe) : Pipe'[i] = Pipe[i]
      /\ Pipe'[Len(Pipe) + 1] = m
  BY PipeType, AppendProperties
<1>2. InOrder(Pipe', r, row[r], tries[r], limited[r])
  BY <1>1, OtherAppended, BoundsAssumption DEF Told, TypeOK, Row
<1>3. ASSUME NEW i \in 1..Len(Pipe'), IsOf(Pipe'[i], "response", r)
      PROVE  \E k \in 1..Len(Pipe) : Pipe[k] = Pipe'[i]
  <2>1. i # Len(Pipe) + 1
    BY <1>1, <1>3 DEF IsOf
  <2>2. i \in 1..Len(Pipe)
    BY <1>1, <2>1
  <2> QED BY <1>1, <2>2
<1>4. ASSUME NEW k \in 1..Len(Pipe)
      PROVE  \E i \in 1..Len(Pipe') : Pipe'[i] = Pipe[k]
  <2>1. k \in 1..Len(Pipe')
    BY <1>1
  <2> QED BY <1>1, <2>1
<1> QED BY <1>2, <1>3, <1>4, ToldFrame

\* A stretch of the pipe that holds nothing of r falls out.
LEMMA ToldCut ==
  ASSUME TypeOK, TypeOK', NEW r \in Requests, Told(r), SameFor(r),
         NEW a \in 0..Len(Pipe), NEW b \in a..Len(Pipe), Len(Pipe') = Len(Pipe) - (b - a),
         \A i \in 1..Len(Pipe') : Pipe'[i] = IF i <= a THEN Pipe[i] ELSE Pipe[i + (b - a)],
         \A i \in a + 1..b : Pipe[i].req # r
  PROVE  Told(r)'
<1> DEFINE at == [i \in 1..Len(Pipe') |-> IF i <= a THEN i ELSE i + (b - a)]
<1>n. Len(Pipe) \in Nat /\ a \in Nat /\ b \in Nat /\ a <= b /\ b <= Len(Pipe)
  BY PipeType
<1>1. at \in [1..Len(Pipe') -> 1..Len(Pipe)]
  BY <1>n
<1>2. \A i \in 1..Len(Pipe') : Pipe'[i] = Pipe[at[i]]
  OBVIOUS
<1>3. \A i, j \in 1..Len(Pipe') : i < j <=> at[i] < at[j]
  BY <1>n
<1>4. ASSUME NEW k \in 1..Len(Pipe), Pipe[k].req = r
      PROVE  \E i \in 1..Len(Pipe') : at[i] = k
  <2>1. k <= a \/ k > b
    BY <1>n, <1>4
  <2>2. CASE k <= a
    <3>1. k \in 1..Len(Pipe')
      BY <1>n, <2>2
    <3> QED BY <2>2, <3>1
  <2>3. CASE k > b
    <3>1. k - (b - a) \in 1..Len(Pipe') /\ ~(k - (b - a) <= a) /\ (k - (b - a)) + (b - a) = k
      BY <1>n, <2>3
    <3>2. at[k - (b - a)] = k
      BY <3>1
    <3> QED BY <3>1, <3>2
  <2> QED BY <2>1, <2>2, <2>3
<1>t. Pipe \in Seq(Message) /\ Pipe' \in Seq(Message)
  <2>1. inbox' \in Seq(Message) /\ queue' \in Seq(Message)
    BY DEF TypeOK
  <2>2. inbox' \o queue' \in Seq(Message)
    BY <2>1, ConcatProperties
  <2> QED BY <2>2, PipeType DEF Pipe
<1> HIDE DEF at
<1>5. InOrder(Pipe', r, row[r], tries[r], limited[r])
  <2>1. tries[r] \in Nat /\ InOrder(Pipe, r, row[r], tries[r], limited[r])
    BY BoundsAssumption DEF TypeOK, Told
  <2>2. \A k \in 1..Len(Pipe) : Pipe[k].req = r /\ Pipe[k].kind # "response" =>
           \E i \in 1..Len(Pipe') : at[i] = k
    BY <1>4
  <2> DEFINE s == Pipe
             t == Pipe'
             n == tries[r]
             rec == row[r]
             L == limited[r]
  <2>3. /\ s \in Seq(Message) /\ t \in Seq(Message) /\ n \in Nat /\ InOrder(s, r, rec, n, L)
        /\ at \in [1..Len(t) -> 1..Len(s)]
        /\ \A i \in 1..Len(t) : t[i] = s[at[i]]
        /\ \A i, j \in 1..Len(t) : i < j <=> at[i] < at[j]
        /\ \A k \in 1..Len(s) : s[k].req = r /\ s[k].kind # "response" =>
             \E i \in 1..Len(t) : at[i] = k
    BY <1>1, <1>2, <1>3, <1>t, <2>1, <2>2
  <2> HIDE DEF s, t, n, rec, L
  <2>4. InOrder(t, r, rec, n, L)
    BY ONLY <2>3, Thinned
  <2> QED BY <2>4 DEF t, n, rec, L
<1>6. \A i \in 1..Len(Pipe') : \E k \in 1..Len(Pipe) : Pipe[k] = Pipe'[i]
  BY <1>1, <1>2
<1>7. \A k \in 1..Len(Pipe) : IsOf(Pipe[k], "response", r) =>
         \E i \in 1..Len(Pipe') : Pipe'[i] = Pipe[k]
  BY <1>2, <1>4 DEF IsOf
<1> QED BY <1>5, <1>6, <1>7, ToldFrame

-----------------------------------------------------------------------------
(* The steps of the request itself                                         *)

LEMMA AttemptTold ==
  ASSUME TypeOK, NEW r \in Requests, Told(r), NEW to \in {"sent", "skipped"}, Logs(r, to)
  PROVE  Told(r)'
<1> DEFINE m == Attempt(r, tries[r] + 1)
<1>n. tries[r] \in Nat /\ tries[r] + 1 \in 1..MaxTries /\ row[r].try \in Nat
  BY BoundsAssumption DEF Logs, TypeOK, Row
<1>m. m \in Message /\ m.kind = "request"
  BY <1>n, MessagesMade DEF Attempt
<1>1. Pipe' = Append(Pipe, m)
  BY <1>m, PipeSent DEF Logs
<1>2. /\ Pipe \in Seq(Message) /\ Len(Pipe') = Len(Pipe) + 1 /\ Len(Pipe) \in Nat
      /\ \A i \in 1..Len(Pipe) : Pipe'[i] = Pipe[i]
      /\ Pipe'[Len(Pipe) + 1] = m
  BY <1>m, <1>1, PipeType, AppendProperties
<1>3. tries'[r] = tries[r] + 1 /\ limited'[r] = limited[r] /\ row'[r] = row[r]
      /\ InHandler(r)' /\ tasks' = tasks
  BY DEF Logs, Moves, InHandler, TypeOK
<1>4. /\ \A i \in 1..Len(Pipe) : ~IsOf(Pipe[i], "response", r)
      /\ \A t \in tasks : t.req # r
      /\ row[r].end = Nothing
  BY DEF Logs, Told, EndTold, Unanswered
<1>5. limited[r] \subseteq 1..tries[r] /\ limited'[r] \subseteq 1..tries'[r]
  BY <1>n, <1>3 DEF Told
<1>6. InOrder(Pipe', r, row'[r], tries'[r], limited'[r])
  <2>1. InOrder(Append(Pipe, m), r, row[r], tries[r] + 1, limited[r])
    BY <1>n, <1>2, <1>4, <1>5, AttemptAppended DEF Told
  <2> QED BY <1>1, <1>3, <2>1
<1>7. EndTold(Pipe, r)'
  <2>1. \A i \in 1..Len(Pipe') : ~IsOf(Pipe'[i], "response", r)
    <3>1. ~IsOf(m, "response", r)
      BY <1>m DEF IsOf
    <3>2. \A i \in 1..Len(Pipe') : i \in 1..Len(Pipe) \/ i = Len(Pipe) + 1
      BY <1>2
    <3> HIDE DEF m
    <3> QED BY <1>2, <1>4, <3>1, <3>2
  <2> QED BY <1>3, <1>4, <2>1 DEF EndTold, Unanswered, InHandler
<1> QED BY <1>5, <1>6, <1>7 DEF Told

LEMMA SnapshotTold ==
  ASSUME TypeOK, NEW r \in Requests, Told(r), LogRateLimit(r)
  PROVE  Told(r)'
<1> DEFINE m == Snapshot(r, tries[r])
<1>n. tries[r] \in 1..MaxTries /\ row[r].try \in Nat /\ row[r].snapshot \in Nat
  BY BoundsAssumption DEF LogRateLimit, Logged, TypeOK, Row
<1>m. m \in Message /\ m.kind = "snapshot"
  BY <1>n, MessagesMade DEF Snapshot
<1>1. Pipe' = Append(Pipe, m)
  BY <1>m, PipeSent DEF LogRateLimit
<1>2. /\ Pipe \in Seq(Message) /\ Len(Pipe') = Len(Pipe) + 1 /\ Len(Pipe) \in Nat
      /\ \A i \in 1..Len(Pipe) : Pipe'[i] = Pipe[i]
      /\ Pipe'[Len(Pipe) + 1] = m
  BY <1>m, <1>1, PipeType, AppendProperties
<1>3. tries'[r] = tries[r] /\ limited'[r] = limited[r] \cup {tries[r]} /\ row'[r] = row[r]
      /\ InHandler(r)' /\ tasks' = tasks
  BY DEF LogRateLimit, InHandler, TypeOK
<1>4. /\ \A i \in 1..Len(Pipe) : ~IsOf(Pipe[i], "response", r)
      /\ \A t \in tasks : t.req # r
      /\ row[r].end = Nothing
  BY DEF LogRateLimit, InHandler, Told, EndTold, Unanswered
<1>5. limited[r] \subseteq 1..tries[r] /\ limited'[r] \subseteq 1..tries'[r]
  BY <1>n, <1>3 DEF Told
<1>6. InOrder(Pipe', r, row'[r], tries'[r], limited'[r])
  <2>1. InOrder(Append(Pipe, m), r, row[r], tries[r], limited[r] \cup {tries[r]})
    BY <1>n, <1>2, <1>5, SnapshotAppended DEF Told, LogRateLimit
  <2> QED BY <1>1, <1>3, <2>1
<1>7. EndTold(Pipe, r)'
  <2>1. \A i \in 1..Len(Pipe') : ~IsOf(Pipe'[i], "response", r)
    <3>1. ~IsOf(m, "response", r)
      BY <1>m DEF IsOf
    <3>2. \A i \in 1..Len(Pipe') : i \in 1..Len(Pipe) \/ i = Len(Pipe) + 1
      BY <1>2
    <3> HIDE DEF m
    <3> QED BY <1>2, <1>4, <3>1, <3>2
  <2> QED BY <1>3, <1>4, <2>1 DEF EndTold, Unanswered, InHandler
<1> QED BY <1>5, <1>6, <1>7 DEF Told

\* Fail, Respond and StreamEnds leave their message to a task.
LEMMA EndedTold ==
  ASSUME TypeOK, NEW r \in Requests, Told(r), NEW e \in Endings, Ends(r, e),
         InHandler(r) \/ e \notin SingleEnd,
         tasks' = tasks \cup {Response(r, e)},
         UNCHANGED <<tries, limited, queue, inbox, row>>
  PROVE  Told(r)'
<1>1. stage'[r] = "over" /\ ended'[r] = e /\ Pipe' = Pipe
  BY DEF Ends, Moves, Pipe, TypeOK
<1>0. ~Unanswered(r)'
  BY <1>1 DEF Unanswered, InHandler, Endings, Untold
<1>2. Response(r, e).req = r /\ Response(r, e).end = e
  BY DEF Response
<1>3. EndTold(Pipe, r)'
  <2>1. CASE e \notin SingleEnd
    BY <1>0, <1>1, <2>1 DEF EndTold
  <2>2. CASE InHandler(r)
    <3>1. /\ \A i \in 1..Len(Pipe) : ~IsOf(Pipe[i], "response", r)
          /\ \A m \in tasks : m.req # r
      BY <2>2 DEF Told, EndTold, Unanswered
    <3>2. \A m \in tasks' : m.req = r => m.end = e
      BY <1>2, <3>1
    <3>3. Response(r, e) \in tasks'
      OBVIOUS
    <3> QED BY <1>0, <1>1, <1>2, <3>1, <3>2, <3>3 DEF EndTold
  <2> QED BY <2>1, <2>2
<1> QED BY <1>1, <1>3 DEF Told

\* What cannot be converted, and a disconnect that nobody sees, send nothing.
LEMMA UntoldTold ==
  ASSUME TypeOK, NEW r \in Requests, Told(r), NEW e \in Untold, InHandler(r), Ends(r, e),
         UNCHANGED <<tries, limited, tasks, queue, inbox, row>>
  PROVE  Told(r)'
<1>1. stage'[r] = "over" /\ ended'[r] = e /\ Pipe' = Pipe
  BY DEF Ends, Moves, Pipe, TypeOK
<1>2. e \notin SingleEnd
  BY DEF Untold, SingleEnd
<1>3. EndTold(Pipe, r)'
  BY <1>1, <1>2 DEF Told, EndTold, Unanswered
<1> QED BY <1>1, <1>3 DEF Told

LEMMA LeftTold ==
  ASSUME TypeOK, NEW r \in Requests, Told(r), InHandler(r), Ends(r, "left"),
         Send(Response(r, "left")), UNCHANGED <<tries, limited, tasks, inbox, row>>
  PROVE  Told(r)'
<1> DEFINE m == Response(r, "left")
<1>m. m \in Message /\ m.kind = "response" /\ m.req = r /\ m.end = "left"
  BY MessagesMade, AnswerIsMessage DEF Endings, Response
<1>1. Pipe' = Append(Pipe, m)
  BY <1>m, PipeSent
<1>2. /\ Pipe \in Seq(Message) /\ Len(Pipe') = Len(Pipe) + 1 /\ Len(Pipe) \in Nat
      /\ \A i \in 1..Len(Pipe) : Pipe'[i] = Pipe[i]
      /\ Pipe'[Len(Pipe) + 1] = m
  BY <1>m, <1>1, PipeType, AppendProperties
<1>3. /\ stage'[r] = "over" /\ ended'[r] = "left"
      /\ UNCHANGED <<tries, limited, row, tasks>>
  BY DEF Ends, Moves, TypeOK
<1>4. /\ \A i \in 1..Len(Pipe) : ~IsOf(Pipe[i], "response", r)
      /\ \A t \in tasks : t.req # r
  BY DEF Told, EndTold, Unanswered
<1>5. InOrder(Pipe', r, row'[r], tries'[r], limited'[r])
  <2>1. InOrder(Append(Pipe, m), r, row[r], tries[r], limited[r])
    <3>1. row[r].try \in Nat /\ tries[r] \in Nat
      BY BoundsAssumption DEF TypeOK, Row
    <3> HIDE DEF m
    <3> QED BY <1>m, <1>2, <3>1, OtherAppended DEF Told
  <2> QED BY <1>1, <1>3, <2>1
<1>6. EndTold(Pipe, r)'
  <2> HIDE DEF m
  <2>1. \A i \in 1..Len(Pipe') : i \in 1..Len(Pipe) \/ i = Len(Pipe) + 1
    BY <1>2
  <2>2. \A i \in 1..Len(Pipe') : IsOf(Pipe'[i], "response", r) => Pipe'[i].end = "left"
    BY <1>m, <1>2, <1>4, <2>1
  <2>3. Len(Pipe) + 1 \in 1..Len(Pipe') /\ IsOf(Pipe'[Len(Pipe) + 1], "response", r)
    BY <1>m, <1>2 DEF IsOf
  <2>4. ~Unanswered(r)'
    BY <1>3 DEF Unanswered, InHandler, Untold
  <2> QED BY <1>3, <1>4, <2>2, <2>3, <2>4 DEF EndTold
<1> QED BY <1>3, <1>5, <1>6 DEF Told

LEMMA OpenTold ==
  ASSUME TypeOK, NEW r \in Requests, Told(r), Open(r)
  PROVE  Told(r)'
<1>1. stage'[r] = "streaming" /\ Pipe' = Pipe /\ UNCHANGED <<tries, limited, row>>
  BY DEF Open, Moves, Pipe, TypeOK
<1>2. EndTold(Pipe, r)'
  BY <1>1 DEF EndTold, Unanswered, InHandler
<1> QED BY <1>1, <1>2 DEF Told

\* A task of r runs.
LEMMA TaskTold ==
  ASSUME TypeOK, NEW r \in Requests, Told(r), NEW m \in tasks, m.req = r, RunTask(m)
  PROVE  Told(r)'
<1>m. m \in Message /\ m.kind = "response"
  BY AnswerIsMessage DEF TypeOK
<1>1. Pipe' = Append(Pipe, m)
  BY <1>m, PipeSent DEF RunTask
<1>2. /\ Pipe \in Seq(Message) /\ Len(Pipe') = Len(Pipe) + 1 /\ Len(Pipe) \in Nat
      /\ \A i \in 1..Len(Pipe) : Pipe'[i] = Pipe[i]
      /\ Pipe'[Len(Pipe) + 1] = m
  BY <1>m, <1>1, PipeType, AppendProperties
<1>3. tasks' = tasks \ {m} /\ UNCHANGED <<stage, tries, limited, ended, row>>
  BY DEF RunTask, senderVars
<1>4. InOrder(Pipe', r, row'[r], tries'[r], limited'[r])
  <2>1. row[r].try \in Nat /\ tries[r] \in Nat
    BY BoundsAssumption DEF TypeOK, Row
  <2>2. InOrder(Append(Pipe, m), r, row[r], tries[r], limited[r])
    BY <1>m, <1>2, <2>1, OtherAppended DEF Told
  <2> QED BY <1>1, <1>3, <2>2
<1>5. ~Unanswered(r) /\ ~Unanswered(r)'
  <2>1. ~Unanswered(r)
    BY DEF Told, EndTold
  <2> QED BY <1>3, <2>1 DEF Unanswered, InHandler
<1>6. EndTold(Pipe, r)'
  <2> SUFFICES ASSUME stage[r] = "over", ended[r] \in SingleEnd
               PROVE  /\ \A i \in 1..Len(Pipe') : IsOf(Pipe'[i], "response", r) => Pipe'[i].end = ended[r]
                      /\ \A t \in tasks' : t.req = r => t.end = ended[r]
                      /\ \E i \in 1..Len(Pipe') : IsOf(Pipe'[i], "response", r)
    BY <1>3, <1>5 DEF EndTold
  <2>1. /\ \A i \in 1..Len(Pipe) : IsOf(Pipe[i], "response", r) => Pipe[i].end = ended[r]
        /\ \A t \in tasks : t.req = r => t.end = ended[r]
    BY DEF Told, EndTold
  <2>2. \A i \in 1..Len(Pipe') : i \in 1..Len(Pipe) \/ i = Len(Pipe) + 1
    BY <1>2
  <2>3. \A i \in 1..Len(Pipe') : IsOf(Pipe'[i], "response", r) => Pipe'[i].end = ended[r]
    BY <1>2, <2>1, <2>2
  <2>4. Len(Pipe) + 1 \in 1..Len(Pipe') /\ IsOf(Pipe'[Len(Pipe) + 1], "response", r)
    BY <1>m, <1>2 DEF IsOf
  <2> QED BY <1>3, <2>1, <2>3, <2>4
<1> QED BY <1>3, <1>4, <1>6 DEF Told

\* The console saves a message of r.
LEMMA SavedTold ==
  ASSUME TypeOK, NEW r \in Requests, Told(r), Save, Head(inbox).req = r
  PROVE  Told(r)'
<1> DEFINE m == Head(Pipe)
<1>1. Pipe # <<>> /\ m = Head(inbox) /\ Pipe' = Tail(Pipe)
  BY PipeSaved DEF Save
<1>2. /\ Len(Pipe) \in Nat /\ Len(Pipe) > 0 /\ 1 \in 1..Len(Pipe)
      /\ m \in Message /\ m = Pipe[1] /\ m.req = r
      /\ \A i \in 1..Len(Pipe') : Pipe'[i] = Pipe[i + 1] /\ i + 1 \in 1..Len(Pipe)
      /\ \A k \in 1..Len(Pipe) : k = 1 \/ (k - 1 \in 1..Len(Pipe') /\ Pipe'[k - 1] = Pipe[k])
  BY <1>1, PipeType, TailOf
<1>3. row'[r] = Saved(m, row[r]) /\ row[r] \in Row
  BY <1>1, <1>2 DEF Save, TypeOK
<1>4. UNCHANGED <<stage, tries, limited, ended, tasks>>
  BY DEF Save, senderVars
<1>5. InOrder(Pipe', r, row'[r], tries'[r], limited'[r])
  <2>1. InOrder(Tail(Pipe), r, Saved(m, row[r]), tries[r], limited[r])
    BY <1>1, <1>2, <1>3, PipeType, SavedInOrder DEF Told, TypeOK
  <2> QED BY <1>1, <1>3, <1>4, <2>1
<1> HIDE DEF m
<1>6. EndTold(Pipe, r)'
  <2>1. ASSUME Unanswered(r)
        PROVE  /\ \A i \in 1..Len(Pipe') : ~IsOf(Pipe'[i], "response", r)
               /\ \A t \in tasks : t.req # r
               /\ row'[r].end = Nothing
    <3>1. /\ \A i \in 1..Len(Pipe) : ~IsOf(Pipe[i], "response", r)
          /\ \A t \in tasks : t.req # r
          /\ row[r].end = Nothing
      BY <2>1 DEF Told, EndTold
    <3>2. m.kind # "response"
      BY <1>2, <3>1 DEF IsOf
    <3>3. row'[r].end = row[r].end
      BY <1>3, <3>2 DEF Saved, Row
    <3> QED BY <1>2, <3>1, <3>3
  <2>2. ASSUME stage[r] = "over", ended[r] \in SingleEnd
        PROVE  /\ \A i \in 1..Len(Pipe') : IsOf(Pipe'[i], "response", r) => Pipe'[i].end = ended[r]
               /\ \A t \in tasks : t.req = r => t.end = ended[r]
               /\ tries[r] > 0 => \/ row'[r].end = ended[r]
                                  \/ \E t \in tasks : t.req = r
                                  \/ \E i \in 1..Len(Pipe') : IsOf(Pipe'[i], "response", r)
    <3>1. /\ \A i \in 1..Len(Pipe) : IsOf(Pipe[i], "response", r) => Pipe[i].end = ended[r]
          /\ \A t \in tasks : t.req = r => t.end = ended[r]
          /\ tries[r] > 0 => \/ row[r].end = ended[r]
                             \/ \E t \in tasks : t.req = r
                             \/ \E i \in 1..Len(Pipe) : IsOf(Pipe[i], "response", r)
      BY <2>2 DEF Told, EndTold
    <3>2. \A i \in 1..Len(Pipe') : IsOf(Pipe'[i], "response", r) => Pipe'[i].end = ended[r]
      <4> SUFFICES ASSUME NEW i \in 1..Len(Pipe'), IsOf(Pipe'[i], "response", r)
                   PROVE  Pipe'[i].end = ended[r]
        OBVIOUS
      <4>1. i + 1 \in 1..Len(Pipe) /\ Pipe'[i] = Pipe[i + 1] BY <1>2
      <4> QED BY <3>1, <4>1
    <3>3. ASSUME tries[r] > 0
          PROVE  \/ row'[r].end = ended[r]
                 \/ \E t \in tasks : t.req = r
                 \/ \E i \in 1..Len(Pipe') : IsOf(Pipe'[i], "response", r)
      <4>1. CASE m.kind = "response"
        <5>1. m.end = ended[r]
          BY <1>2, <3>1, <4>1 DEF IsOf
        <5>2. row[r].try > 0
          <6>1. row[r].try > 0 \/ \E j \in 1..Len(Pipe) : j < 1
            BY <1>2, <3>3, <4>1 DEF Told, InOrder, RowFirst
          <6> QED BY <1>2, <6>1
        <5>3. row'[r].end = m.end
          BY <1>3, <4>1, <5>2 DEF Saved, Row
        <5> QED BY <5>1, <5>3
      <4>2. CASE m.kind # "response"
        <5>1. row'[r].end = row[r].end
          BY <1>3, <4>2 DEF Saved, Row
        <5>2. ASSUME NEW k \in 1..Len(Pipe), IsOf(Pipe[k], "response", r)
              PROVE  \E i \in 1..Len(Pipe') : IsOf(Pipe'[i], "response", r)
          <6>1. k # 1
            BY <1>2, <4>2, <5>2 DEF IsOf
          <6> QED BY <1>2, <5>2, <6>1
        <5> QED BY <3>1, <3>3, <5>1, <5>2
      <4> QED BY <4>1, <4>2
    <3> QED BY <3>1, <3>2, <3>3
  <2> QED BY <1>4, <2>1, <2>2 DEF EndTold, Unanswered, InHandler
<1>7. limited'[r] \subseteq 1..tries'[r]
  BY <1>4 DEF Told
<1> QED BY <1>5, <1>6, <1>7 DEF Told

-----------------------------------------------------------------------------
(* The steps that lose messages, of other requests                         *)

LEMMA PipeNext ==
  ASSUME TypeOK'
  PROVE  /\ Len(Pipe') = Len(inbox') + Len(queue')
         /\ \A i \in 1..Len(Pipe') : Pipe'[i] = IF i <= Len(inbox') THEN inbox'[i]
                                                ELSE queue'[i - Len(inbox')]
<1>1. inbox' \in Seq(Message) /\ queue' \in Seq(Message)
  BY DEF TypeOK
<1> QED BY <1>1, ConcatProperties DEF Pipe

LEMMA NotAmong ==
  ASSUME NEW s \in Seq(Message), NEW r, r \notin Among(s)
  PROVE  \A i \in 1..Len(s) : s[i].req # r
BY DEF Among

\* The head of what the console has is saved, or refused.
LEMMA HeadTold ==
  ASSUME TypeOK, TypeOK', NEW r \in Requests, Told(r), SameFor(r),
         inbox # <<>>, inbox' = Tail(inbox), UNCHANGED queue, Head(inbox).req # r
  PROVE  Told(r)'
<1>1. Pipe # <<>> /\ Head(Pipe) = Head(inbox) /\ Pipe' = Tail(Pipe)
  BY PipeSaved
<1>2. /\ Len(Pipe) \in Nat /\ Len(Pipe) > 0 /\ Len(Pipe') = Len(Pipe) - 1 /\ Head(Pipe) = Pipe[1]
      /\ \A i \in 1..Len(Pipe') : Pipe'[i] = Pipe[i + 1]
  BY <1>1, PipeType, TailOf
<1>3. 0 \in 0..Len(Pipe) /\ 1 \in 0..Len(Pipe) /\ Len(Pipe') = Len(Pipe) - (1 - 0)
  BY <1>2
<1>4. \A i \in 1..Len(Pipe') : Pipe'[i] = IF i <= 0 THEN Pipe[i] ELSE Pipe[i + (1 - 0)]
  BY <1>2
<1>5. \A i \in 0 + 1..1 : Pipe[i].req # r
  BY <1>1, <1>2
<1> QED BY <1>3, <1>4, <1>5, ToldCut

\* The forwarder has no connection.
LEMMA DroppedTold ==
  ASSUME TypeOK, TypeOK', NEW r \in Requests, Told(r), SameFor(r),
         queue # <<>>, queue' = Tail(queue), UNCHANGED inbox, Head(queue).req # r
  PROVE  Told(r)'
<1> DEFINE a == Len(inbox)
<1>1. /\ Len(queue) \in Nat /\ Len(queue) > 0 /\ Len(queue') = Len(queue) - 1
      /\ Head(queue) = queue[1] /\ \A i \in 1..Len(queue') : queue'[i] = queue[i + 1]
  BY TailOf DEF TypeOK
<1>2. /\ Len(Pipe) = a + Len(queue) /\ a \in Nat /\ Len(Pipe') = a + Len(queue')
  BY PipeType, PipeNext
<1>3. a \in 0..Len(Pipe) /\ a + 1 \in a..Len(Pipe) /\ Len(Pipe') = Len(Pipe) - ((a + 1) - a)
  BY <1>1, <1>2
<1>4. ASSUME NEW i \in 1..Len(Pipe')
      PROVE  Pipe'[i] = IF i <= a THEN Pipe[i] ELSE Pipe[i + ((a + 1) - a)]
  <2>1. CASE i <= a
    <3>1. i \in 1..Len(inbox) /\ i <= Len(inbox')
      BY <1>2, <2>1
    <3>2. Pipe'[i] = inbox[i]
      BY <3>1, PipeNext
    <3>3. Pipe[i] = inbox[i]
      BY <3>1, PipeType
    <3> QED BY <2>1, <3>2, <3>3
  <2>2. CASE ~(i <= a)
    <3>1. i - a \in 1..Len(queue') /\ (i + 1) - a = (i - a) + 1 /\ ~(i + 1 <= a)
          /\ i + 1 \in 1..Len(Pipe) /\ i + ((a + 1) - a) = i + 1
      BY <1>1, <1>2, <2>2
    <3>2. Pipe'[i] = queue'[i - a]
      BY <2>2, PipeNext
    <3>3. Pipe[i + 1] = queue[(i - a) + 1]
      BY <3>1, PipeType
    <3> QED BY <1>1, <2>2, <3>1, <3>2, <3>3
  <2> QED BY <2>1, <2>2
<1>5. \A i \in a + 1..a + 1 : Pipe[i].req # r
  <2>1. 1 \in 1..Len(queue) /\ Pipe[a + 1] = queue[1]
    BY <1>1, PipeType
  <2> QED BY <1>1, <1>2, <2>1
<1> HIDE DEF a
<1> QED BY <1>2, <1>3, <1>4, <1>5, ToldCut

\* A connection dies, or the console: what it had beyond the first n is gone.
LEMMA ClosedTold ==
  ASSUME TypeOK, TypeOK', NEW r \in Requests, Told(r), SameFor(r), UNCHANGED queue,
         NEW n \in 0..Len(inbox), Len(inbox') = n,
         \A i \in 1..n : inbox'[i] = inbox[i],
         \A i \in n + 1..Len(inbox) : inbox[i].req # r
  PROVE  Told(r)'
<1> DEFINE b == Len(inbox)
<1>1. /\ Len(Pipe) = b + Len(queue) /\ b \in Nat /\ Len(queue) \in Nat /\ n \in Nat /\ n <= b
      /\ Len(Pipe') = n + Len(queue)
  BY PipeType, PipeNext
<1>2. n \in 0..Len(Pipe) /\ b \in n..Len(Pipe) /\ Len(Pipe') = Len(Pipe) - (b - n)
  BY <1>1
<1>3. ASSUME NEW i \in 1..Len(Pipe')
      PROVE  Pipe'[i] = IF i <= n THEN Pipe[i] ELSE Pipe[i + (b - n)]
  <2>1. CASE i <= n
    <3>1. i \in 1..n /\ i <= b /\ i \in 1..Len(Pipe)
      BY <1>1, <2>1
    <3>2. Pipe'[i] = inbox'[i] /\ Pipe[i] = inbox[i]
      BY <2>1, <3>1, PipeType, PipeNext
    <3> QED BY <2>1, <3>1, <3>2
  <2>2. CASE ~(i <= n)
    <3>1. i + (b - n) \in 1..Len(Pipe) /\ ~(i + (b - n) <= b) /\ (i + (b - n)) - b = i - n
      BY <1>1, <2>2
    <3>2. Pipe'[i] = queue[i - n]
      BY <2>2, PipeNext
    <3>3. Pipe[i + (b - n)] = queue[i - n]
      BY <3>1, PipeType
    <3> QED BY <2>2, <3>2, <3>3
  <2> QED BY <2>1, <2>2
<1>4. \A i \in n + 1..b : Pipe[i].req # r
  BY <1>1, PipeType
<1> HIDE DEF b
<1> QED BY <1>2, <1>3, <1>4, ToldCut

\* The proxy dies, and with it its queue.
LEMMA EmptiedTold ==
  ASSUME TypeOK, TypeOK', NEW r \in Requests, Told(r), SameFor(r), UNCHANGED inbox,
         queue' = <<>>, \A i \in 1..Len(queue) : queue[i].req # r
  PROVE  Told(r)'
<1> DEFINE a == Len(inbox)
           b == Len(Pipe)
<1>1. /\ b = a + Len(queue) /\ a \in Nat /\ Len(queue) \in Nat /\ Len(Pipe') = a
  BY PipeType, PipeNext
<1>2. a \in 0..b /\ b \in a..b /\ Len(Pipe') = b - (b - a)
  BY <1>1
<1>3. \A i \in 1..Len(Pipe') : Pipe'[i] = IF i <= a THEN Pipe[i] ELSE Pipe[i + (b - a)]
  <2>1. \A i \in 1..Len(Pipe') : Pipe'[i] = inbox[i]
    BY <1>1, PipeNext
  <2> QED BY <1>1, <2>1, PipeType
<1>4. ASSUME NEW i \in a + 1..b
      PROVE  Pipe[i].req # r
  <2>1. i - a \in 1..Len(queue) /\ ~(i <= a) /\ i \in 1..Len(Pipe)
    BY <1>1
  <2>2. Pipe[i] = queue[i - a]
    BY <2>1, PipeType
  <2> QED BY <2>1, <2>2
<1> HIDE DEF a
<1> QED BY <1>2, <1>3, <1>4, ToldCut

-----------------------------------------------------------------------------
(* The invariant                                                           *)

LEMMA InitTold == Init => \A r \in Requests : Told(r)
<1> SUFFICES ASSUME Init, NEW r \in Requests PROVE Told(r)
  OBVIOUS
<1>1. Pipe = <<>> /\ Len(Pipe) = 0
  <2>1. <<>> \in Seq(Message) /\ <<>> \o <<>> = <<>>
    BY EmptySeq, ConcatEmptySeq
  <2> QED BY <2>1 DEF Init, Pipe
<1>2. row[r] = NoRow /\ tries[r] = 0 /\ limited[r] = {} /\ stage[r] = "fresh" /\ tasks = {}
  BY DEF Init
<1>3. InOrder(Pipe, r, row[r], tries[r], limited[r])
  BY <1>1, <1>2 DEF InOrder, AttemptsInOrder, SnapshotsInOrder, RowFirst, NoRow
<1> QED BY <1>1, <1>2, <1>3 DEF Told, EndTold, NoRow

\* Whatever another request does, and whatever it loses.
LEMMA ToldStep ==
  ASSUME TypeOK, TypeOK', [Next]_logVars, NEW r \in Requests, r \notin lost', Told(r)
  PROVE  Told(r)'
<1>1. ASSUME NEW q \in Requests, NEW to \in {"sent", "skipped"}, Logs(q, to)
      PROVE  Told(r)'
  <2>1. CASE q = r
    BY <1>1, <2>1, AttemptTold
  <2>2. CASE q # r
    <3> DEFINE m == Attempt(q, tries[q] + 1)
    <3>1. tries[q] + 1 \in 1..MaxTries
      BY <1>1, BoundsAssumption DEF Logs, TypeOK
    <3>2. m \in Message /\ m.req # r
      BY <2>2, <3>1, MessagesMade DEF Attempt
    <3>3. SameFor(r)
      BY <1>1, <2>2 DEF Logs, Moves, SameFor, TypeOK
    <3>4. Send(m) /\ UNCHANGED inbox
      BY <1>1 DEF Logs
    <3> HIDE DEF m
    <3> QED BY <3>2, <3>3, <3>4, PipeSent, ToldAppended
  <2> QED BY <2>1, <2>2
<1>2. ASSUME NEW q \in Requests, LogRateLimit(q)
      PROVE  Told(r)'
  <2>1. CASE q = r
    BY <1>2, <2>1, SnapshotTold
  <2>2. CASE q # r
    <3> DEFINE m == Snapshot(q, tries[q])
    <3>1. tries[q] \in 1..MaxTries
      BY <1>2, BoundsAssumption DEF LogRateLimit, Logged, TypeOK
    <3>2. m \in Message /\ m.req # r
      BY <2>2, <3>1, MessagesMade DEF Snapshot
    <3>3. SameFor(r)
      BY <1>2, <2>2 DEF LogRateLimit, SameFor, TypeOK
    <3>4. Send(m) /\ UNCHANGED inbox
      BY <1>2 DEF LogRateLimit
    <3> HIDE DEF m
    <3> QED BY <3>2, <3>3, <3>4, PipeSent, ToldAppended
  <2> QED BY <2>1, <2>2
<1>k. ASSUME SameFor(r), UNCHANGED <<queue, inbox>>
      PROVE  Told(r)'
  <2>1. Pipe' = Pipe
    BY <1>k DEF Pipe
  <2>2. InOrder(Pipe', r, row[r], tries[r], limited[r])
    BY <2>1 DEF Told
  <2> QED BY <1>k, <2>1, <2>2, ToldFrame
<1>3. ASSUME NEW q \in Requests, NEW e \in Endings, Ends(q, e),
             InHandler(q) \/ e \notin SingleEnd,
             tasks' = tasks \cup {Response(q, e)},
             UNCHANGED <<tries, limited, queue, inbox, row>>
      PROVE  Told(r)'
  <2>1. CASE q = r
    BY <1>3, <2>1, EndedTold
  <2>2. CASE q # r
    <3>1. SameFor(r)
      BY <1>3, <2>2 DEF Ends, Moves, Response, SameFor, TypeOK
    <3> QED BY <1>3, <1>k, <3>1
  <2> QED BY <2>1, <2>2
<1>4. ASSUME NEW q \in Requests, Fail(q) \/ Respond(q)
      PROVE  Told(r)'
  BY <1>3, <1>4 DEF Fail, Respond, InHandler, Endings
<1>5. ASSUME NEW q \in Requests, NEW e \in {"complete", "client", "upstream"}, StreamEnds(q, e)
      PROVE  Told(r)'
  BY <1>3, <1>5 DEF StreamEnds, Endings, SingleEnd
<1>u. ASSUME NEW q \in Requests, NEW e \in Untold, InHandler(q), Ends(q, e),
             UNCHANGED <<tries, limited, tasks, queue, inbox, row>>
      PROVE  Told(r)'
  <2>1. CASE q = r
    BY <1>u, <2>1, UntoldTold
  <2>2. CASE q # r
    <3>1. SameFor(r)
      BY <1>u, <2>2 DEF Ends, Moves, SameFor, TypeOK
    <3> QED BY <1>k, <1>u, <3>1
  <2> QED BY <2>1, <2>2
<1>l. ASSUME NEW q \in Requests, InHandler(q), Ends(q, "left"), Send(Response(q, "left")),
             UNCHANGED <<tries, limited, tasks, inbox, row>>
      PROVE  Told(r)'
  <2>1. CASE q = r
    BY <1>l, <2>1, LeftTold
  <2>2. CASE q # r
    <3> DEFINE m == Response(q, "left")
    <3>1. m \in Message /\ m.req # r
      BY <2>2, MessagesMade, AnswerIsMessage DEF Endings, Response
    <3>2. SameFor(r)
      BY <1>l, <2>2 DEF Ends, Moves, SameFor, TypeOK
    <3>3. Send(m) /\ UNCHANGED inbox
      BY <1>l
    <3> HIDE DEF m
    <3> QED BY <3>1, <3>2, <3>3, PipeSent, ToldAppended
  <2> QED BY <2>1, <2>2
<1>6. ASSUME NEW q \in Requests, Leave(q) \/ ReturnUnlogged(q)
      PROVE  Told(r)'
  <2>1. CASE ReturnUnlogged(q)
    BY <1>u, <2>1 DEF ReturnUnlogged, Untold
  <2>2. CASE Leave(q)
    BY <1>l, <1>u, <2>2 DEF Leave, Untold
  <2> QED BY <1>6, <2>1, <2>2
<1>16. ASSUME NEW q \in Requests, LogAttempt(q) \/ LogSkip(q) \/ LogSkipOpen(q)
       PROVE  Told(r)'
  BY <1>1, <1>16 DEF LogAttempt, LogSkip, LogSkipOpen
<1>7. ASSUME NEW q \in Requests, Open(q)
      PROVE  Told(r)'
  <2>1. CASE q = r
    BY <1>7, <2>1, OpenTold
  <2>2. CASE q # r
    <3>1. SameFor(r) /\ UNCHANGED <<queue, inbox>>
      BY <1>7, <2>2 DEF Open, Moves, Response, SameFor, TypeOK
    <3> QED BY <1>k, <3>1
  <2> QED BY <2>1, <2>2
<1>8. ASSUME NEW m \in tasks, RunTask(m)
      PROVE  Told(r)'
  <2>1. CASE m.req = r
    BY <1>8, <2>1, TaskTold
  <2>2. CASE m.req # r
    <3>1. m \in Message
      BY <1>8, AnswerIsMessage DEF TypeOK
    <3>2. SameFor(r) /\ Send(m) /\ UNCHANGED inbox
      BY <1>8, <2>2 DEF RunTask, senderVars, SameFor
    <3> QED BY <2>2, <3>1, <3>2, PipeSent, ToldAppended
  <2> QED BY <2>1, <2>2
<1>9. CASE Forward
  <2>1. SameFor(r)
    BY <1>9 DEF Forward, senderVars, SameFor
  <2>2. CASE up
    <3>1. inbox' = Append(inbox, Head(queue)) /\ queue # <<>> /\ queue' = Tail(queue)
      BY <1>9, <2>2 DEF Forward
    <3>2. Pipe' = Pipe
      BY <3>1, PipePassed
    <3>3. InOrder(Pipe', r, row[r], tries[r], limited[r])
      BY <3>2 DEF Told
    <3> QED BY <2>1, <3>2, <3>3, ToldFrame
  <2>3. CASE ~up
    <3>1. /\ queue # <<>> /\ queue' = Tail(queue) /\ UNCHANGED inbox
          /\ lost' = lost \cup {Head(queue).req}
      BY <1>9, <2>3 DEF Forward
    <3> QED BY <2>1, <3>1, DroppedTold
  <2> QED BY <2>2, <2>3
<1>10. CASE Save
  <2>1. inbox # <<>> /\ inbox' = Tail(inbox) /\ UNCHANGED queue
    BY <1>10 DEF Save
  <2>2. CASE Head(inbox).req = r
    BY <1>10, <2>2, SavedTold
  <2>3. CASE Head(inbox).req # r
    <3>1. row'[r] = row[r]
      BY <1>10, <2>3 DEF Save, TypeOK
    <3>2. SameFor(r)
      BY <1>10, <3>1 DEF Save, senderVars, SameFor
    <3> QED BY <2>1, <2>3, <3>2, HeadTold
  <2> QED BY <2>2, <2>3
<1>11. CASE SaveFails
  <2>1. /\ inbox # <<>> /\ inbox' = Tail(inbox) /\ UNCHANGED queue
        /\ Head(inbox).req # r
    BY <1>11 DEF SaveFails
  <2>2. SameFor(r)
    BY <1>11 DEF SaveFails, senderVars, SameFor
  <2> QED BY <2>1, <2>2, HeadTold
<1>12. ASSUME NEW n \in 0..Len(inbox), Disconnect(n)
       PROVE  Told(r)'
  <2>1. SameFor(r) /\ UNCHANGED queue /\ inbox' = SubSeq(inbox, 1, n)
        /\ r \notin Among(SubSeq(inbox, n + 1, Len(inbox)))
    BY <1>12 DEF Disconnect, senderVars, SameFor
  <2> DEFINE t == SubSeq(inbox, n + 1, Len(inbox))
  <2>2. Len(inbox) \in Nat /\ n \in Nat /\ n <= Len(inbox)
        /\ \A i \in 1..Len(inbox) : inbox[i] \in Message
    BY ElementOfSeq, LenProperties DEF TypeOK
  <2>3. Len(inbox') = n /\ \A i \in 1..n : inbox'[i] = inbox[i]
    <3>1. \A i \in 1..n : inbox[i] \in Message
      BY <2>2
    <3>2. /\ Len(SubSeq(inbox, 1, n)) = IF 1 <= n THEN n - 1 + 1 ELSE 0
          /\ \A i \in 1..n - 1 + 1 : SubSeq(inbox, 1, n)[i] = inbox[1 + i - 1]
      BY <2>2, <3>1, SubSeqProperties
    <3> QED BY <2>1, <2>2, <3>2
  <2>4. /\ t \in Seq(Message)
        /\ Len(t) = IF n + 1 <= Len(inbox) THEN Len(inbox) - (n + 1) + 1 ELSE 0
        /\ \A i \in 1..Len(inbox) - (n + 1) + 1 : t[i] = inbox[(n + 1) + i - 1]
    <3>1. \A i \in n + 1..Len(inbox) : inbox[i] \in Message
      BY <2>2
    <3> QED BY <2>2, <3>1, SubSeqProperties
  <2>5. \A i \in 1..Len(t) : t[i].req # r
    BY <2>1, <2>4, NotAmong
  <2> HIDE DEF t
  <2>6. ASSUME NEW i \in n + 1..Len(inbox)
        PROVE  inbox[i].req # r
    <3>1. i - n \in 1..Len(t) /\ i - n \in 1..Len(inbox) - (n + 1) + 1 /\ (n + 1) + (i - n) - 1 = i
      BY <2>2, <2>4
    <3>2. t[i - n] = inbox[i]
      BY <2>4, <3>1
    <3> QED BY <2>5, <3>1, <3>2
  <2> QED BY <2>1, <2>3, <2>6, ClosedTold
<1>13. CASE ProxyDies
  <2>1. /\ UNCHANGED <<tries, limited, ended, inbox, row>> /\ queue' = <<>> /\ tasks' = {}
        /\ \A m \in tasks : m.req # r
        /\ r \notin Among(queue) /\ stage[r] \notin Logged
    BY <1>13 DEF ProxyDies, Logged
  <2>2. stage'[r] = stage[r]
    BY <1>13, <2>1 DEF ProxyDies, Stages, Logged, TypeOK
  <2>3. SameFor(r)
    BY <2>1, <2>2 DEF SameFor
  <2>4. \A i \in 1..Len(queue) : queue[i].req # r
    BY <2>1, NotAmong DEF TypeOK
  <2> QED BY <2>1, <2>3, <2>4, EmptiedTold
<1>14. CASE ConsoleDies
  <2>1. SameFor(r) /\ UNCHANGED queue /\ inbox' = <<>> /\ r \notin Among(inbox)
    BY <1>14 DEF ConsoleDies, senderVars, SameFor
  <2>2. \A i \in 1..Len(inbox) : inbox[i].req # r
    BY <2>1, NotAmong DEF TypeOK
  <2>3. 0 \in 0..Len(inbox) /\ Len(inbox') = 0
    BY <2>1, LenProperties DEF TypeOK
  <2>4. \A i \in 0 + 1..Len(inbox) : inbox[i].req # r
    BY <2>2
  <2>5. \A i \in 1..0 : inbox'[i] = inbox[i]
    OBVIOUS
  <2> QED BY <2>1, <2>3, <2>4, <2>5, ClosedTold
<1>15. CASE Reconnect \/ UNCHANGED logVars
  <2>1. SameFor(r) /\ UNCHANGED <<queue, inbox>>
    BY <1>15 DEF Reconnect, logVars, senderVars, SameFor
  <2> QED BY <1>k, <2>1
<1> QED BY <1>2, <1>4, <1>5, <1>6, <1>7, <1>8, <1>9, <1>10, <1>11, <1>12, <1>13, <1>14, <1>15,
           <1>16 DEF Next

LEMMA LostKept == [Next]_logVars => lost \subseteq lost'
<1> SUFFICES ASSUME [Next]_logVars PROVE lost \subseteq lost'
  OBVIOUS
<1>1. ASSUME NEW r \in Requests,
             \/ LogAttempt(r) \/ LogSkip(r) \/ LogSkipOpen(r) \/ LogRateLimit(r)
             \/ Fail(r) \/ ReturnUnlogged(r) \/ Leave(r) \/ Respond(r) \/ Open(r)
             \/ \E e \in {"complete", "client", "upstream"} : StreamEnds(r, e)
      PROVE  lost' = lost
  BY <1>1 DEF Logs, LogAttempt, LogSkip, LogSkipOpen, LogRateLimit, Fail, ReturnUnlogged, Leave,
              Respond, Open, StreamEnds
<1>2. ASSUME Forward \/ Save \/ SaveFails \/ Reconnect \/ ProxyDies \/ ConsoleDies
             \/ UNCHANGED logVars
      PROVE  lost \subseteq lost'
  BY <1>2 DEF Forward, Save, SaveFails, Reconnect, ProxyDies, ConsoleDies, logVars
<1>3. ASSUME NEW m \in tasks, RunTask(m)
      PROVE  lost' = lost
  BY <1>3 DEF RunTask
<1>4. ASSUME NEW n \in 0..Len(inbox), Disconnect(n)
      PROVE  lost \subseteq lost'
  BY <1>4 DEF Disconnect
<1> QED BY <1>1, <1>2, <1>3, <1>4 DEF Next

LEMMA Inductive == Spec => []IInv
<1>1. Init => IInv
  BY TypeInit, InitTold DEF IInv
<1>2. IInv /\ [Next]_logVars => IInv'
  <2> SUFFICES ASSUME IInv, [Next]_logVars PROVE IInv'
    OBVIOUS
  <2>1. TypeOK /\ TypeOK'
    BY TypeStep DEF IInv
  <2>2. ASSUME NEW r \in Requests, r \notin lost'
        PROVE  Told(r)'
    <3>1. Told(r)
      BY <2>2, LostKept DEF IInv
    <3> QED BY <2>1, <2>2, <3>1, ToldStep
  <2> QED BY <2>1, <2>2 DEF IInv
<1> QED BY <1>1, <1>2, PTL DEF Spec

\* What has drained from the queues is not in the pipe.
LEMMA DrainedPipe ==
  ASSUME TypeOK, NEW r \in Requests, Drained(r)
  PROVE  /\ \A i \in 1..Len(Pipe) : Pipe[i].req # r
         /\ \A m \in tasks : m.req # r
<1>1. /\ \A i \in 1..Len(queue) : queue[i].req # r
      /\ \A i \in 1..Len(inbox) : inbox[i].req # r
  BY DEF Drained, Of
<1>2. ASSUME NEW i \in 1..Len(Pipe)
      PROVE  Pipe[i].req # r
  <2>1. CASE i <= Len(inbox)
    BY <1>1, <2>1, PipeType
  <2>2. CASE ~(i <= Len(inbox))
    <3>1. i - Len(inbox) \in 1..Len(queue)
      BY <2>2, PipeType
    <3>2. Pipe[i] = queue[i - Len(inbox)]
      BY <2>2, PipeType
    <3> QED BY <1>1, <3>1, <3>2
  <2> QED BY <2>1, <2>2
<1> QED BY <1>2 DEF Drained

-----------------------------------------------------------------------------
(* Theorems                                                                *)

\* Every variable keeps its type; a request that is handled or streams was logged before
\* (send_request_log comes before every send, and before a skipped route is left).
THEOREM TypeCorrect == Spec => []TypeOK
<1>1. IInv => TypeOK
  BY DEF IInv
<1> QED BY <1>1, Inductive, PTL

\* However the messages of a request were delayed, overtaken and interleaved with those of
\* others, once they are saved its row shows the last attempt and the first 429 (saveConsoleRequest's
\* upsert, saveConsoleInitialRateLimitSnapshot).
THEOREM RowShowsAttempt == Spec => []ShowsLastAttempt
<1>1. IInv => ShowsLastAttempt
  <2> SUFFICES ASSUME IInv, NEW r \in Requests \ lost, Drained(r)
               PROVE  /\ row[r].try = tries[r]
                      /\ IF limited[r] = {} THEN row[r].snapshot = 0
                         ELSE /\ row[r].snapshot \in limited[r]
                              /\ \A n \in limited[r] : row[r].snapshot <= n
    BY DEF ShowsLastAttempt
  <2>1. \A i \in 1..Len(Pipe) : Pipe[i].req # r
    BY DrainedPipe DEF IInv
  <2>2. \A i \in 1..Len(Pipe) : ~IsOf(Pipe[i], "request", r) /\ ~IsOf(Pipe[i], "snapshot", r)
    BY <2>1 DEF IsOf
  <2>3. row[r].try = tries[r]
    BY <2>2 DEF IInv, Told, InOrder, AttemptsInOrder
  <2>4. SnapshotsInOrder(Pipe, r, row[r], limited[r])
    BY DEF IInv, Told, InOrder
  <2>5. /\ row[r].snapshot = 0 => limited[r] = {}
        /\ row[r].snapshot # 0 => /\ row[r].snapshot \in limited[r]
                                  /\ \A n \in limited[r] : row[r].snapshot <= n
    BY <2>2, <2>4 DEF SnapshotsInOrder
  <2> QED BY <2>3, <2>5
<1> QED BY <1>1, Inductive, PTL

\* ... and how it ended, if it was not a stream: the terminal log, the success and the
\* disconnect guard's 499 neither replace one another nor come before the row is there
\* (proxy_handler's disconnect guard, emit_terminal_response_log), and a row whose end nobody
\* tells shows none.
THEOREM RowShowsEnd == Spec => []ShowsEnd
<1>1. IInv => ShowsEnd
  <2> SUFFICES ASSUME IInv, NEW r \in Requests \ lost, Drained(r), tries[r] > 0, stage[r] = "over"
               PROVE  /\ ended[r] \in SingleEnd => row[r].end = ended[r]
                      /\ ended[r] \in Untold => row[r].end = Nothing
    BY DEF ShowsEnd, SingleEnd
  <2>1. /\ \A i \in 1..Len(Pipe) : ~IsOf(Pipe[i], "response", r)
        /\ \A m \in tasks : m.req # r
    BY DrainedPipe DEF IInv, IsOf
  <2>2. EndTold(Pipe, r)
    BY DEF IInv, Told
  <2> QED BY <2>1, <2>2 DEF EndTold, Unanswered
<1> QED BY <1>1, Inductive, PTL
=============================================================================
