--------------------------- MODULE LogStoreProofs ---------------------------
(***************************************************************************)
(* Proofs about LogStore, for any requests, places and saves at work: what *)
(* the rows keep, what they show and what they cost, which responses meet  *)
(* no row, and what the key has been charged in all, which takes the laws  *)
(* of sums over finite sets, proved here.                                  *)
(***************************************************************************)
EXTENDS LogStore, FiniteSetTheorems, WellFoundedInduction, TLAPS

Try == [origin : Reached, at : Reached, done : BOOLEAN]

TypeOK ==
  /\ rows \in [Requests -> Row \cup {NoRow}]
  /\ key \in Key \cup {NoKey}
  /\ prices \in [Models -> {0, 2}]
  /\ tasks \in [Slots -> Task \cup {Idle}]
  /\ calls \in [Requests -> Nat]
  /\ tried \in [Requests -> Try]
  /\ cleaning \in BOOLEAN /\ due \in BOOLEAN
  /\ driver \in {"sqlite", "postgres"} /\ writer \in {"queue", "tracked", "standalone"}
  /\ came \subseteq Requests /\ lost \subseteq Requests
  /\ answered \in [Requests -> [place : Reached, status : Statuses \cup {0}]]
  /\ admin \in Nat /\ faults \in Nat
  /\ excuses \subseteq {"failed", "pruned", "cleared"}

-----------------------------------------------------------------------------
\* Who calls the saves keeps those of a request in order, and none was cut short.
Orderly == writer # "standalone" /\ "failed" \notin excuses

At(s, r, pcs) == tasks[s] # Idle /\ tasks[s].req = r /\ tasks[s].pc \in pcs
Doing(r, pcs) == \E s \in Slots : At(s, r, pcs)

\* One save of a request at a time.
Alone ==
  writer # "standalone" =>
    \A s1, s2 \in Slots :
      tasks[s1] # Idle /\ tasks[s2] # Idle /\ tasks[s1].req = tasks[s2].req => s1 = s2

\* What a save of r at work brings to its row.
Brings(s, r) ==
  /\ At(s, r, {"insert"}) /\ Orderly => ~tried[r].done /\ tasks[s].place = tried[r].at
  /\ At(s, r, {"resolve", "update"}) =>
       /\ tasks[s].status # 0
       /\ Orderly => tried[r].done /\ tasks[s].place = tried[r].at /\ r \in came
  /\ At(s, r, {"charge", "mark"}) /\ Orderly /\ rows[r] # NoRow => tasks[s].price = rows[r].price

\* What the row of r shows.
Stands(r) ==
  rows[r] # NoRow =>
    /\ r \in came
    /\ rows[r].status # 0 => rows[r].initial # 0
    /\ Orderly =>
         /\ Doing(r, {"insert"}) \/ rows[r].place = tried[r].at
         /\ rows[r].status # 0 =>
              tried[r].done /\ answered[r] = [place |-> rows[r].place, status |-> rows[r].status]
         /\ Doing(r, {"charge", "mark"}) \/ rows[r].charged = rows[r].price

\* If r was tried, it has its record or gets it.
Recorded(r) == Orderly /\ tried[r].origin # NoPlace => r \in came \/ Doing(r, {"insert"})

Kept(r) == Stands(r) /\ Recorded(r) /\ \A s \in Slots : Brings(s, r)

\* Only the retention removes a row, for newer ones.
Newer(r) == {q \in came : q > r}
Outnumbered ==
  excuses \cap {"failed", "cleared"} = {} =>
    /\ \A r \in came : rows[r] = NoRow => Cardinality(Newer(r)) >= Keep
    /\ writer # "standalone" => \A r \in lost : Cardinality(Newer(r)) >= Keep

\* When the key is charged what the rows say.
Settling ==
  driver = "postgres" \/ (writer # "standalone" /\ excuses \cap {"failed", "pruned"} = {})

\* A charge is one statement of PostgreSQL; the three of SQLite meet the row
\* as the statement before left it.
Statement(s) == driver = "postgres" /\ tasks[s] # Idle => tasks[s].pc \notin {"mark", "pay"}
Reads(s) ==
  Settling /\ tasks[s] # Idle /\ rows[tasks[s].req] # NoRow =>
    /\ tasks[s].pc = "mark" => tasks[s].read = rows[tasks[s].req].charged
    /\ tasks[s].pc = "pay" => rows[tasks[s].req].charged = tasks[s].price

\* What the rows say was charged, and what of it the key has not paid yet.
Charged == [r \in Requests |-> Charge(r)]
Owes == [s \in Slots |-> IF Paying(s) THEN Delta(tasks[s]) ELSE 0]

\* What the key has paid for the rows that are there: all of the charge, or what
\* was charged before the payment that is under way.
Free == [r \in Requests |-> IF Doing(r, {"pay"}) THEN 0 ELSE Charge(r)]
Unpaid == [s \in Slots |-> IF Paying(s) THEN tasks[s].read ELSE 0]

\* The account is right, and the key's use covers every charge that may be taken
\* back: the lower bound of 0 in the statement that pays is never reached.
Covered ==
  /\ gone \in Nat
  /\ key # NoKey /\ Settling =>
    /\ key.used + SumOver(Owes, Slots) = gone + SumOver(Charged, Requests)
    /\ key.used >= SumOver(Free, Requests) + SumOver(Unpaid, Slots)

IInv ==
  /\ TypeOK
  /\ Alone
  /\ \A r \in Requests : Kept(r)
  /\ Outnumbered
  /\ \A s \in Slots : Statement(s) /\ Reads(s)
  /\ Covered

-----------------------------------------------------------------------------
(* Types                                                                   *)

LEMMA PriceType ==
  ASSUME TypeOK, NEW a, NEW b
  PROVE  FirstPrice(<<a, b>>) \in Nat
<1> DEFINE names == <<a, b>>
<1>1. ASSUME NEW table \in [Models -> Nat], Priced(table, names) # {}
      PROVE  FirstIn(table, names) \in Nat
  <2> DEFINE priced == Priced(table, names)
  <2>1. priced \subseteq {1, 2}
    BY DEF Priced
  <2>2. \E i \in priced : \A j \in priced : i <= j
    <3>1. CASE 1 \in priced
      BY <2>1, <3>1
    <3>2. CASE 1 \notin priced
      BY <1>1, <2>1, <3>2
    <3> QED BY <3>1, <3>2
  <2> DEFINE i == CHOOSE i \in priced : \A j \in priced : i <= j
  <2>3. i \in priced
    BY <2>2
  <2>4. names[i] \in Models
    BY <2>3 DEF Priced
  <2>5. FirstIn(table, names) = table[names[i]]
    BY DEF FirstIn
  <2> HIDE DEF i, names
  <2> QED BY <2>4, <2>5
<1>2. prices \in [Models -> Nat] /\ Listed \in [Models -> Nat]
  BY DEF TypeOK, Listed
<1> HIDE DEF names
<1>3. FirstPrice(names) \in Nat
  BY <1>1, <1>2 DEF FirstPrice
<1> QED BY <1>3 DEF names

LEMMA KindsAre ==
  /\ NoPlace \in Reached /\ Places \subseteq Reached
  /\ Ok \in Statuses /\ Limited \in Statuses /\ 0 \notin Statuses /\ Statuses \subseteq Nat
  /\ \A o \in Outcomes : o.status \in Statuses /\ o.answer \in Answers
BY DEF Reached, Statuses, Ok, Limited, Outcomes, Answers, UpModel

LEMMA FreshType ==
  ASSUME NEW r \in Requests, NEW pc \in {"insert", "clean", "snapshot", "resolve", "update",
                                         "charge", "mark", "pay"}
  PROVE  Fresh(r, pc) \in Task
BY DEF Fresh, Task, Reached

\* A task goes on, or the slot is free again.
LEMMA GoesType ==
  ASSUME TypeOK, NEW s \in Slots, NEW task \in Task \cup {Idle},
         tasks' = [tasks EXCEPT ![s] = task]
  PROVE  tasks' \in [Slots -> Task \cup {Idle}]
BY DEF TypeOK

LEMMA RemovedType ==
  ASSUME TypeOK, NEW dropped, Remove(dropped)
  PROVE  rows' \in [Requests -> Row \cup {NoRow}]
BY DEF Remove, TypeOK

LEMMA TypeInit == Init => TypeOK
<1> SUFFICES ASSUME Init PROVE TypeOK
  OBVIOUS
<1>1. key \in Key /\ tried \in [Requests -> Try] /\ prices \in [Models -> {0, 2}]
  BY DEF Init, Key, Try, Reached
<1>2. answered \in [Requests -> [place : Reached, status : Statuses \cup {0}]]
  BY DEF Init, NoAnswer, Reached
<1>3. /\ rows \in [Requests -> Row \cup {NoRow}] /\ tasks \in [Slots -> Task \cup {Idle}]
      /\ calls \in [Requests -> Nat]
  BY DEF Init
<1> QED BY <1>1, <1>2, <1>3 DEF Init, TypeOK

LEMMA BegunType ==
  ASSUME TypeOK, NEW s \in Slots, NEW r \in Requests, NEW task \in Task, Begin(s, r, task)
  PROVE  tasks' \in [Slots -> Task \cup {Idle}] /\ calls' \in [Requests -> Nat]
BY GoesType DEF Begin, TypeOK

\* The actions of slot s.
Works(s) ==
  \/ Inserts(s) \/ Cleans(s) \/ Snapshots(s) \/ Resolves(s) \/ Updates(s)
  \/ Charges(s) \/ ReadsCharge(s) \/ MarksCharge(s) \/ Pays(s) \/ Fails(s)

LEMMA AtWork ==
  ASSUME TypeOK, NEW s \in Slots, tasks[s] # Idle
  PROVE  /\ tasks[s] \in Task /\ tasks[s].req \in Requests
         /\ tasks[s].price \in Nat /\ tasks[s].read \in Nat /\ tasks[s].status \in Statuses \cup {0}
         /\ tasks[s].place \in Reached
         /\ rows[tasks[s].req] # NoRow => rows[tasks[s].req] \in Row
<1>1. tasks[s] \in Task
  BY DEF TypeOK
<1>2. tasks[s].req \in Requests
  BY <1>1 DEF Task
<1> QED BY <1>1, <1>2 DEF Task, TypeOK

\* Only the row of the request changes.
LEMMA RowType ==
  ASSUME TypeOK, NEW r \in Requests, NEW row \in Row \cup {NoRow}, rows' = [rows EXCEPT ![r] = row]
  PROVE  rows' \in [Requests -> Row \cup {NoRow}]
BY DEF TypeOK

LEMMA UpsertedType ==
  ASSUME NEW t \in Task, NEW row \in Row
  PROVE  Upserted(t, row) \in Row /\ Upserted(t, row).charged = row.charged
<1>1. t.place \in Reached /\ t.orig \in Reached /\ t.status \in Statuses \cup {0}
  BY DEF Task
<1>2. CASE row.initial = 0
  BY <1>1, <1>2 DEF Upserted, Row
<1>3. CASE row.initial # 0
  BY <1>1, <1>3 DEF Upserted, Row
<1> QED BY <1>2, <1>3

LEMMA RespondedType ==
  ASSUME NEW t \in Task, NEW row \in Row
  PROVE  Responded(t, row) \in Row /\ Responded(t, row).charged = row.charged
<1>1. t.price \in Nat /\ t.status \in Statuses \cup {0} /\ t.answer \in Answers \cup {""}
  BY DEF Task
<1>2. CASE row.initial = 0
  BY <1>1, <1>2 DEF Responded, Row
<1>3. CASE row.initial # 0
  BY <1>1, <1>3 DEF Responded, Row
<1> QED BY <1>2, <1>3

LEMMA InsertsType ==
  ASSUME TypeOK, NEW s \in Slots, Inserts(s)
  PROVE  TypeOK'
<1> DEFINE t == tasks[s]
           r == t.req
           row == IF rows[r] = NoRow THEN Inserted(t) ELSE Upserted(t, rows[r])
<1>t. t \in Task /\ r \in Requests /\ (rows[r] # NoRow => rows[r] \in Row)
  BY AtWork DEF Inserts
<1>1. row \in Row
  <2>1. t.place \in Reached /\ t.orig \in Reached /\ t.status \in Statuses \cup {0}
    BY <1>t DEF Task
  <2>2. Inserted(t) \in Row
    BY <2>1 DEF Inserted, Row
  <2>3. rows[r] # NoRow => Upserted(t, rows[r]) \in Row
    BY <1>t, UpsertedType
  <2> QED BY <2>2, <2>3
<1>2. rows' = [rows EXCEPT ![r] = row]
  BY DEF Inserts
<1>3. tasks' = [tasks EXCEPT ![s] = Fresh(r, "clean")] \/ tasks' = [tasks EXCEPT ![s] = Idle]
  BY DEF Inserts, Ends
<1>4. tasks' \in [Slots -> Task \cup {Idle}]
  BY <1>t, <1>3, FreshType, GoesType
<1> HIDE DEF row
<1>5. rows' \in [Requests -> Row \cup {NoRow}]
  BY <1>t, <1>1, <1>2, RowType
<1>6. came' \subseteq Requests /\ lost' \subseteq Requests
  BY <1>t DEF Inserts, TypeOK
<1>7. cleaning' \in BOOLEAN
  <2>1. cleaning' = TRUE \/ cleaning' = cleaning
    BY DEF Inserts
  <2> QED BY <2>1 DEF TypeOK
<1> QED BY <1>4, <1>5, <1>6, <1>7 DEF Inserts, admins, TypeOK

LEMMA UpdatesType ==
  ASSUME TypeOK, NEW s \in Slots, Updates(s)
  PROVE  TypeOK'
<1> DEFINE t == tasks[s]
           r == t.req
           row == Responded(t, rows[r])
<1>t. t \in Task /\ r \in Requests /\ (rows[r] # NoRow => rows[r] \in Row)
  BY AtWork DEF Updates
<1>1. rows[r] # NoRow => row \in Row
  BY <1>t, RespondedType
<1>2. rows' = IF rows[r] = NoRow THEN rows ELSE [rows EXCEPT ![r] = row]
  BY DEF Updates
<1> HIDE DEF row
<1>3. rows' \in [Requests -> Row \cup {NoRow}]
  BY <1>t, <1>1, <1>2, RowType DEF TypeOK
<1>4. tasks' \in [Slots -> Task \cup {Idle}]
  <2>1. Fresh(r, "charge") \in Task /\ t.price \in Nat
    BY <1>t, FreshType DEF Task
  <2>2. [Fresh(r, "charge") EXCEPT !.price = t.price] \in Task
    BY <2>1 DEF Task
  <2> QED BY <2>2, GoesType DEF Updates
<1>5. answered' \in [Requests -> [place : Reached, status : Statuses \cup {0}]]
  <2>1. [place |-> t.place, status |-> t.status] \in [place : Reached, status : Statuses \cup {0}]
    BY <1>t DEF Task
  <2>2. answered' = answered \/ answered' = [answered EXCEPT ![r] = [place |-> t.place, status |-> t.status]]
    BY DEF Updates
  <2> QED BY <1>t, <2>1, <2>2 DEF TypeOK
<1>6. lost' \subseteq Requests
  BY <1>t DEF Updates, TypeOK
<1> QED BY <1>3, <1>4, <1>5, <1>6 DEF Updates, admins, TypeOK

LEMMA AddsType ==
  ASSUME TypeOK, NEW d \in Int, Adds(d)
  PROVE  key' \in Key \cup {NoKey}
<1>1. CASE key = NoKey
  BY <1>1 DEF Adds
<1>2. CASE key # NoKey
  <2>1. key \in Key /\ key.used \in Nat
    BY <1>2 DEF TypeOK, Key
  <2> DEFINE u == IF key.used + d > 0 THEN key.used + d ELSE 0
  <2>2. u \in Nat
    BY <2>1
  <2>3. key' = [key EXCEPT !.used = u]
    BY <1>2 DEF Adds
  <2> HIDE DEF u
  <2> QED BY <2>1, <2>2, <2>3 DEF Key
<1> QED BY <1>1, <1>2

LEMMA ChargesType ==
  ASSUME TypeOK, NEW s \in Slots, Charges(s)
  PROVE  TypeOK'
<1> DEFINE t == tasks[s]
           r == t.req
<1>t. t \in Task /\ r \in Requests /\ t.price \in Nat /\ (rows[r] # NoRow => rows[r] \in Row)
  BY AtWork DEF Charges
<1>1. tasks' \in [Slots -> Task \cup {Idle}]
  BY GoesType DEF Charges, Ends
<1>2. CASE rows[r] = NoRow
  BY <1>1, <1>2 DEF Charges, histories, TypeOK
<1>3. CASE rows[r] # NoRow
  <2>1. [rows[r] EXCEPT !.charged = t.price] \in Row
    BY <1>t, <1>3 DEF Row
  <2>2. rows' \in [Requests -> Row \cup {NoRow}]
    BY <1>t, <1>3, <2>1, RowType DEF Charges
  <2> DEFINE d == Delta([t EXCEPT !.read = rows[r].charged])
  <2>3. d \in Int
    <3>1. rows[r].charged \in Nat
      BY <1>t, <1>3 DEF Row
    <3>2. [t EXCEPT !.read = rows[r].charged].price = t.price
          /\ [t EXCEPT !.read = rows[r].charged].read = rows[r].charged
      BY <1>t DEF Task
    <3> QED BY <1>t, <3>1, <3>2 DEF Delta
  <2>4. Adds(d)
    BY <1>3 DEF Charges
  <2> HIDE DEF d
  <2>5. key' \in Key \cup {NoKey}
    BY <2>3, <2>4, AddsType
  <2> QED BY <1>1, <2>2, <2>5 DEF Charges, histories, TypeOK
<1> QED BY <1>2, <1>3

LEMMA WorksType ==
  ASSUME TypeOK, NEW s \in Slots, Works(s)
  PROVE  TypeOK'
<1> DEFINE t == tasks[s]
           r == t.req
<1>t. t # Idle /\ t \in Task /\ r \in Requests /\ (rows[r] # NoRow => rows[r] \in Row)
  <2>1. t # Idle
    BY DEF Works, Inserts, Cleans, Snapshots, Resolves, Updates, Charges, ReadsCharge, MarksCharge,
           Pays, Fails
  <2> QED BY <2>1, AtWork
<1>f. t.price \in Nat /\ t.read \in Nat /\ t.status \in Statuses \cup {0} /\ t.place \in Reached
  BY <1>t DEF Task
<1>e. Ends(s) => tasks' \in [Slots -> Task \cup {Idle}]
  BY GoesType DEF Ends
<1>1. CASE Cleans(s)
  BY <1>1, <1>e, RemovedType DEF Cleans, admins, TypeOK
<1>2. CASE Snapshots(s)
  <2>2. rows[r] # NoRow => [rows[r] EXCEPT !.snap = SnapshotKept(@, calls[r])] \in Row
    <3>1. rows[r] # NoRow => SnapshotKept(rows[r].snap, calls[r]) \in Nat
      BY <1>t DEF SnapshotKept, Row, TypeOK
    <3> QED BY <1>t, <3>1 DEF Row
  <2>3. rows' \in [Requests -> Row \cup {NoRow}]
    <3>1. CASE rows[r] = NoRow
      BY <1>2, <3>1 DEF Snapshots, TypeOK
    <3>2. CASE rows[r] # NoRow
      <4>1. rows' = [rows EXCEPT ![r] = [rows[r] EXCEPT !.snap = SnapshotKept(@, calls[r])]]
        BY <1>2, <3>2 DEF Snapshots
      <4> QED BY <1>t, <2>2, <3>2, <4>1, RowType
    <3> QED BY <3>1, <3>2
  <2> QED BY <1>2, <1>e, <2>3 DEF Snapshots, histories, admins, TypeOK
<1>3. CASE Resolves(s)
  <2> DEFINE p == IF rows[r] = NoRow THEN 0 ELSE FirstPrice(<<t.answer, ReqModel>>)
  <2>1. p \in Nat
    BY PriceType
  <2>2. tasks' = [tasks EXCEPT ![s] = [t EXCEPT !.pc = "update", !.price = p]]
    BY <1>3 DEF Resolves
  <2> HIDE DEF p
  <2>3. [t EXCEPT !.pc = "update", !.price = p] \in Task
    BY <1>t, <2>1 DEF Task
  <2>4. tasks' \in [Slots -> Task \cup {Idle}]
    BY <2>2, <2>3, GoesType
  <2> QED BY <1>3, <2>4 DEF Resolves, histories, admins, TypeOK
<1>4. CASE ReadsCharge(s)
  <2>1. CASE rows[r] = NoRow
    BY <1>4, <1>e, <2>1 DEF ReadsCharge, histories, admins, TypeOK
  <2>2. CASE rows[r] # NoRow
    <3>1. rows[r].charged \in Nat
      BY <1>t, <2>2 DEF Row
    <3>2. [t EXCEPT !.read = rows[r].charged, !.pc = "mark"] \in Task
      BY <1>t, <3>1 DEF Task
    <3>3. tasks' = [tasks EXCEPT ![s] = [t EXCEPT !.read = rows[r].charged, !.pc = "mark"]]
      BY <1>4, <2>2 DEF ReadsCharge, TypeOK
    <3>4. tasks' \in [Slots -> Task \cup {Idle}]
      BY <3>2, <3>3, GoesType
    <3> QED BY <1>4, <3>4 DEF ReadsCharge, histories, admins, TypeOK
  <2> QED BY <2>1, <2>2
<1>5. CASE MarksCharge(s)
  <2>1. rows' \in [Requests -> Row \cup {NoRow}]
    <3>1. CASE rows[r] = NoRow
      BY <1>5, <3>1 DEF MarksCharge, TypeOK
    <3>2. CASE rows[r] # NoRow
      <4>1. [rows[r] EXCEPT !.charged = t.price] \in Row
        BY <1>t, <1>f, <3>2 DEF Row
      <4>2. rows' = [rows EXCEPT ![r] = [rows[r] EXCEPT !.charged = t.price]]
        BY <1>5, <3>2 DEF MarksCharge
      <4> QED BY <1>t, <4>1, <4>2, RowType
    <3> QED BY <3>1, <3>2
  <2>2. tasks' \in [Slots -> Task \cup {Idle}]
    <3>1. [t EXCEPT !.pc = "pay"] \in Task
      BY <1>t DEF Task
    <3>2. Ends(s) \/ tasks' = [tasks EXCEPT ![s] = [t EXCEPT !.pc = "pay"]]
      BY <1>5 DEF MarksCharge, Goes
    <3> QED BY <1>e, <3>1, <3>2, GoesType
  <2>3. excuses' \subseteq {"failed", "pruned", "cleared"}
    BY <1>5 DEF MarksCharge, TypeOK
  <2> QED BY <1>5, <2>1, <2>2, <2>3 DEF MarksCharge, histories, admins, TypeOK
<1>6. CASE Pays(s)
  <2>1. Delta(t) \in Int
    BY <1>f DEF Delta
  <2>2. key' \in Key \cup {NoKey}
    BY <1>6, <2>1, AddsType DEF Pays
  <2> QED BY <1>6, <1>e, <2>2 DEF Pays, histories, TypeOK
<1>7. CASE Fails(s)
  BY <1>7, <1>e DEF Fails, histories, admins, TypeOK
<1> QED BY <1>1, <1>2, <1>3, <1>4, <1>5, <1>6, <1>7, InsertsType, UpdatesType, ChargesType DEF Works

\* The task and the memory a new attempt, or an answer, leaves.
Attempt(r, place) ==
  LET first == tried[r].origin = NoPlace
      origin == IF first THEN place ELSE tried[r].origin
  IN [Fresh(r, "insert") EXCEPT !.place = place, !.orig = IF place = origin THEN NoPlace ELSE origin,
                                !.status = IF first THEN 0 ELSE Limited]
Tried(r, place) ==
  [tried[r] EXCEPT !.origin = IF tried[r].origin = NoPlace THEN place ELSE tried[r].origin,
                   !.at = place]
Answering(r, outcome) ==
  [Fresh(r, "resolve") EXCEPT !.place = tried[r].at, !.status = outcome.status,
                              !.answer = outcome.answer]

LEMMA BeginsAttempt ==
  ASSUME TypeOK, NEW s \in Slots, NEW r \in Requests, NEW place \in Places, BeginRequest(s, r, place)
  PROVE  /\ Begin(s, r, Attempt(r, place)) /\ Attempt(r, place) \in Task
         /\ Attempt(r, place).req = r /\ Attempt(r, place).pc = "insert"
         /\ Attempt(r, place).place = place
         /\ tried' = [tried EXCEPT ![r] = Tried(r, place)] /\ Tried(r, place) \in Try
         /\ Tried(r, place).at = place /\ Tried(r, place).done = tried[r].done
<1>1. Begin(s, r, Attempt(r, place)) /\ tried' = [tried EXCEPT ![r] = Tried(r, place)]
  BY DEF BeginRequest, Attempt, Tried
<1>2. tried[r] \in Try /\ place \in Reached
  BY KindsAre DEF TypeOK
<1>3. Tried(r, place) \in Try /\ Tried(r, place).at = place /\ Tried(r, place).done = tried[r].done
  BY <1>2 DEF Tried, Try
<1> DEFINE origin == IF tried[r].origin = NoPlace THEN place ELSE tried[r].origin
           orig == IF place = origin THEN NoPlace ELSE origin
           status == IF tried[r].origin = NoPlace THEN 0 ELSE Limited
<1>4. orig \in Reached /\ status \in Statuses \cup {0}
  BY <1>2, KindsAre DEF Try
<1>5. Attempt(r, place) = [Fresh(r, "insert") EXCEPT !.place = place, !.orig = orig, !.status = status]
  BY DEF Attempt
<1> HIDE DEF orig, status, origin
<1>6. Fresh(r, "insert") \in Task /\ Fresh(r, "insert").req = r /\ Fresh(r, "insert").pc = "insert"
  BY FreshType DEF Fresh
<1>7. /\ Attempt(r, place) \in Task /\ Attempt(r, place).req = r
      /\ Attempt(r, place).pc = "insert" /\ Attempt(r, place).place = place
  BY <1>2, <1>4, <1>5, <1>6 DEF Task
<1> QED BY <1>1, <1>3, <1>7

LEMMA BeginsAnswer ==
  ASSUME TypeOK, NEW s \in Slots, NEW r \in Requests, NEW outcome \in Outcomes,
         BeginResponse(s, r, outcome)
  PROVE  /\ Begin(s, r, Answering(r, outcome)) /\ Answering(r, outcome) \in Task
         /\ Answering(r, outcome).req = r /\ Answering(r, outcome).pc = "resolve"
         /\ Answering(r, outcome).place = tried[r].at /\ Answering(r, outcome).status # 0
         /\ tried' = [tried EXCEPT ![r] = [tried[r] EXCEPT !.done = TRUE]]
<1>1. /\ Begin(s, r, Answering(r, outcome))
      /\ tried' = [tried EXCEPT ![r] = [tried[r] EXCEPT !.done = TRUE]]
  BY DEF BeginResponse, Answering
<1>2. outcome.status \in Statuses /\ outcome.status # 0 /\ outcome.answer \in Answers
      /\ tried[r].at \in Reached
  BY KindsAre DEF TypeOK, Try
<1>3. Fresh(r, "resolve") \in Task /\ Fresh(r, "resolve").req = r /\ Fresh(r, "resolve").pc = "resolve"
  BY FreshType DEF Fresh
<1>4. /\ Answering(r, outcome) \in Task /\ Answering(r, outcome).req = r
      /\ Answering(r, outcome).pc = "resolve" /\ Answering(r, outcome).place = tried[r].at
      /\ Answering(r, outcome).status # 0
  BY <1>2, <1>3 DEF Answering, Task
<1> QED BY <1>1, <1>4

\* The key and prices, as an administrator leaves them.
Manages ==
  \/ CleanupDue \/ Clears \/ DeletesKey
  \/ \E m \in Models, p \in {0, 2} : EditsPrice(m, p)

LEMMA ManagesType ==
  ASSUME TypeOK, Manages
  PROVE  TypeOK'
<1>1. CASE CleanupDue
  BY <1>1 DEF CleanupDue, histories, admins, TypeOK
<1>2. CASE Clears
  BY <1>2, RemovedType DEF Clears, Administers, others, TypeOK
<1>3. CASE DeletesKey
  BY <1>3 DEF DeletesKey, Administers, others, histories, TypeOK
<1>5. ASSUME NEW m \in Models, NEW p \in {0, 2}, EditsPrice(m, p)
      PROVE  TypeOK'
  BY <1>5 DEF EditsPrice, Administers, others, histories, TypeOK
<1> QED BY <1>1, <1>2, <1>3, <1>5 DEF Manages

LEMMA DoneType ==
  ASSUME TypeOK, NEW r \in Requests
  PROVE  [tried[r] EXCEPT !.done = TRUE] \in Try
<1>1. tried[r] \in Try
  BY DEF TypeOK
<1> QED BY <1>1 DEF Try

LEMMA RestartsType ==
  ASSUME TypeOK, Restarts
  PROVE  TypeOK'
<1>1. tried' \in [Requests -> Try]
  <2>1. \A r \in Requests : [tried[r] EXCEPT !.done = TRUE] \in Try
    BY DoneType
  <2> QED BY <2>1 DEF Restarts
<1>2. tasks' \in [Slots -> Task \cup {Idle}]
  BY DEF Restarts
<1>3. faults' \in Nat /\ excuses' \subseteq {"failed", "pruned", "cleared"}
  BY DEF Restarts, TypeOK
<1>4. cleaning' = FALSE /\ due' = TRUE
      /\ UNCHANGED <<rows, calls, driver, writer, histories, admins>>
  BY DEF Restarts
<1> QED BY <1>1, <1>2, <1>3, <1>4 DEF histories, admins, TypeOK

LEMMA BeginsType ==
  ASSUME TypeOK, NEW s \in Slots, NEW r \in Requests
  PROVE  /\ BeginSnapshot(s, r) => TypeOK'
         /\ \A place \in Places : BeginRequest(s, r, place) => TypeOK'
         /\ \A outcome \in Outcomes : BeginResponse(s, r, outcome) => TypeOK'
<1>1. ASSUME BeginSnapshot(s, r)
      PROVE  TypeOK'
  <2>1. tasks' \in [Slots -> Task \cup {Idle}] /\ calls' \in [Requests -> Nat]
    BY <1>1, FreshType, BegunType DEF BeginSnapshot
  <2> QED BY <1>1, <2>1 DEF BeginSnapshot, histories, admins, TypeOK
<1>2. ASSUME NEW place \in Places, BeginRequest(s, r, place)
      PROVE  TypeOK'
  <2>1. tasks' \in [Slots -> Task \cup {Idle}] /\ calls' \in [Requests -> Nat]
    BY <1>2, BeginsAttempt, BegunType
  <2>2. tried' \in [Requests -> Try]
    BY <1>2, BeginsAttempt DEF TypeOK
  <2>3. UNCHANGED <<rows, cleaning, due, driver, writer, faults, excuses, histories, admins>>
    BY <1>2 DEF BeginRequest
  <2> QED BY <2>1, <2>2, <2>3 DEF histories, admins, TypeOK
<1>3. ASSUME NEW outcome \in Outcomes, BeginResponse(s, r, outcome)
      PROVE  TypeOK'
  <2>1. tasks' \in [Slots -> Task \cup {Idle}] /\ calls' \in [Requests -> Nat]
    BY <1>3, BeginsAnswer, BegunType
  <2>2. tried' \in [Requests -> Try]
    <3>1. [tried[r] EXCEPT !.done = TRUE] \in Try
      BY DoneType
    <3>2. tried' = [tried EXCEPT ![r] = [tried[r] EXCEPT !.done = TRUE]]
      BY <1>3, BeginsAnswer
    <3> QED BY <3>1, <3>2 DEF TypeOK
  <2> QED BY <1>3, <2>1, <2>2 DEF BeginResponse, histories, admins, TypeOK
<1> QED BY <1>1, <1>2, <1>3

Begins ==
  \E s \in Slots, r \in Requests :
    \/ BeginSnapshot(s, r)
    \/ \E place \in Places : BeginRequest(s, r, place)
    \/ \E outcome \in Outcomes : BeginResponse(s, r, outcome)

\* To begin leaves the rows, the account and the history alone.
LEMMA BeginsLeaves ==
  ASSUME Begins
  PROVE  /\ UNCHANGED <<rows, driver, writer, excuses, gone, came, lost>>
         /\ UNCHANGED <<key, prices, admin>>
<1>1. PICK s \in Slots, r \in Requests :
        \/ BeginSnapshot(s, r)
        \/ \E place \in Places : BeginRequest(s, r, place)
        \/ \E outcome \in Outcomes : BeginResponse(s, r, outcome)
  BY DEF Begins
<1>2. CASE BeginSnapshot(s, r)
  BY <1>2 DEF BeginSnapshot, histories, admins
<1>3. ASSUME NEW place \in Places, BeginRequest(s, r, place)
      PROVE  /\ UNCHANGED <<rows, driver, writer, excuses, gone, came, lost>>
             /\ UNCHANGED <<key, prices, admin>>
  BY <1>3 DEF BeginRequest, histories, admins
<1>4. ASSUME NEW outcome \in Outcomes, BeginResponse(s, r, outcome)
      PROVE  /\ UNCHANGED <<rows, driver, writer, excuses, gone, came, lost>>
             /\ UNCHANGED <<key, prices, admin>>
  BY <1>4 DEF BeginResponse, histories, admins
<1> QED BY <1>1, <1>2, <1>3, <1>4

LEMMA Steps ==
  ASSUME [Next]_vars
  PROVE  (\E s \in Slots : Works(s)) \/ Begins \/ Manages \/ Restarts \/ UNCHANGED vars
BY DEF Next, Works, Begins, Manages

LEMMA TypeStep == TypeOK /\ [Next]_vars => TypeOK'
<1> SUFFICES ASSUME TypeOK, [Next]_vars PROVE TypeOK'
  OBVIOUS
<1>1. CASE UNCHANGED vars
  BY <1>1 DEF vars, TypeOK
<1>2. CASE Begins
  BY <1>2, BeginsType DEF Begins
<1> QED BY <1>1, <1>2, Steps, WorksType, ManagesType, RestartsType

-----------------------------------------------------------------------------
(* One save of a request at a time                                         *)

\* A save goes on, for its request, or is over.
GoesOn(s) == tasks'[s] = Idle \/ (tasks[s] # Idle /\ tasks'[s].req = tasks[s].req)

LEMMA WorksOn ==
  ASSUME TypeOK, NEW s \in Slots, Works(s)
  PROVE  /\ tasks[s] # Idle /\ tasks[s].req \in Requests
         /\ GoesOn(s) /\ \A q \in Slots \ {s} : tasks'[q] = tasks[q]
         /\ UNCHANGED <<tried, calls, writer, prices, admin>>
<1> DEFINE t == tasks[s]
<1>1. t # Idle
  BY DEF Works, Inserts, Cleans, Snapshots, Resolves, Updates, Charges, ReadsCharge, MarksCharge,
         Pays, Fails
<1>2. t \in Task /\ t.req \in Requests
  BY <1>1, AtWork
<1>3. ASSUME Ends(s)
      PROVE  GoesOn(s) /\ \A q \in Slots \ {s} : tasks'[q] = tasks[q]
  BY <1>3 DEF Ends, GoesOn, TypeOK
<1>4. ASSUME NEW task, task.req = t.req, tasks' = [tasks EXCEPT ![s] = task]
      PROVE  GoesOn(s) /\ \A q \in Slots \ {s} : tasks'[q] = tasks[q]
  BY <1>1, <1>4 DEF GoesOn, TypeOK
<1>5. UNCHANGED <<tried, calls, writer, prices, admin>>
  BY DEF Works, Inserts, Cleans, Snapshots, Resolves, Updates, Charges, ReadsCharge, MarksCharge,
         Pays, Fails, histories, admins
<1>6. CASE Cleans(s) \/ Snapshots(s) \/ Charges(s) \/ Pays(s) \/ Fails(s)
  BY <1>1, <1>2, <1>3, <1>5, <1>6 DEF Cleans, Snapshots, Charges, Pays, Fails
<1>7. CASE Inserts(s)
  <2>1. Ends(s) \/ tasks' = [tasks EXCEPT ![s] = Fresh(t.req, "clean")]
    BY <1>7 DEF Inserts
  <2>2. Fresh(t.req, "clean").req = t.req
    BY DEF Fresh
  <2> QED BY <1>1, <1>2, <1>3, <1>4, <1>5, <2>1, <2>2
<1>8. CASE Resolves(s)
  <2> DEFINE p == IF rows[t.req] = NoRow THEN 0 ELSE FirstPrice(<<t.answer, ReqModel>>)
             task == [t EXCEPT !.pc = "update", !.price = p]
  <2>1. tasks' = [tasks EXCEPT ![s] = task]
    BY <1>8 DEF Resolves
  <2> HIDE DEF p
  <2>2. task.req = t.req
    BY <1>2 DEF Task
  <2> HIDE DEF task
  <2> QED BY <1>1, <1>2, <1>4, <1>5, <2>1, <2>2
<1>9. CASE Updates(s)
  <2> DEFINE task == [Fresh(t.req, "charge") EXCEPT !.price = t.price]
  <2>1. tasks' = [tasks EXCEPT ![s] = task]
    BY <1>9 DEF Updates
  <2>2. task.req = t.req
    BY DEF Fresh
  <2> HIDE DEF task
  <2> QED BY <1>1, <1>2, <1>4, <1>5, <2>1, <2>2
<1>10. CASE ReadsCharge(s)
  <2> DEFINE task == [t EXCEPT !.read = rows[t.req].charged, !.pc = "mark"]
  <2>1. Ends(s) \/ tasks' = [tasks EXCEPT ![s] = task]
    BY <1>10 DEF ReadsCharge, TypeOK
  <2>2. task.req = t.req
    BY <1>2 DEF Task
  <2> HIDE DEF task
  <2> QED BY <1>1, <1>2, <1>3, <1>4, <1>5, <2>1, <2>2
<1>11. CASE MarksCharge(s)
  <2> DEFINE task == [t EXCEPT !.pc = "pay"]
  <2>1. Ends(s) \/ tasks' = [tasks EXCEPT ![s] = task]
    BY <1>11 DEF MarksCharge, Goes
  <2>2. task.req = t.req
    BY <1>2 DEF Task
  <2> HIDE DEF task
  <2> QED BY <1>1, <1>2, <1>3, <1>4, <1>5, <2>1, <2>2
<1> QED BY <1>6, <1>7, <1>8, <1>9, <1>10, <1>11 DEF Works

\* Where the saves of a request are kept in order, one begins when there is no other.
LEMMA BegunAlone ==
  ASSUME TypeOK, NEW s \in Slots, NEW r \in Requests, NEW task \in Task, Begin(s, r, task)
  PROVE  /\ tasks[s] = Idle /\ tasks'[s] = task /\ \A q \in Slots \ {s} : tasks'[q] = tasks[q]
         /\ writer # "standalone" => \A q \in Slots : tasks[q] # Idle => tasks[q].req # r
<1>1. tasks[s] = Idle /\ tasks'[s] = task /\ \A q \in Slots \ {s} : tasks'[q] = tasks[q]
  BY DEF Begin, TypeOK
<1>2. ASSUME writer # "standalone", NEW q \in Slots, tasks[q] # Idle
      PROVE  tasks[q].req # r
  <2>1. Working = {} \/ WorkingFor(r) = {}
    BY <1>2 DEF Begin, MayStart, TypeOK
  <2> QED BY <1>2, <2>1 DEF Working, WorkingFor
<1> QED BY <1>1, <1>2

LEMMA ManagesFrame ==
  ASSUME Manages
  PROVE  UNCHANGED <<tasks, tried, writer, came, lost, answered>>
<1>1. ASSUME DeletesKey PROVE UNCHANGED <<tasks, tried, writer, came, lost, answered>>
  BY <1>1 DEF DeletesKey, others, histories
<1>2. ASSUME NEW m, NEW p, EditsPrice(m, p)
      PROVE  UNCHANGED <<tasks, tried, writer, came, lost, answered>>
  BY <1>2 DEF EditsPrice, others, histories
<1>3. ASSUME CleanupDue \/ Clears
      PROVE  UNCHANGED <<tasks, tried, writer, came, lost, answered>>
  BY <1>3 DEF CleanupDue, Clears, others, histories
<1> QED BY <1>1, <1>2, <1>3 DEF Manages

LEMMA AloneStep ==
  ASSUME TypeOK, Alone, [Next]_vars
  PROVE  Alone'
<1>1. ASSUME \A s \in Slots : GoesOn(s), UNCHANGED writer
      PROVE  Alone'
  BY <1>1 DEF Alone, GoesOn
<1>2. ASSUME NEW s \in Slots, Works(s)
      PROVE  Alone'
  <2>1. \A q \in Slots : GoesOn(q)
    BY <1>2, WorksOn DEF GoesOn
  <2> QED BY <1>1, <1>2, <2>1, WorksOn
<1>3. ASSUME NEW s \in Slots, NEW r \in Requests, NEW task \in Task, task.req = r, Begin(s, r, task),
             UNCHANGED writer
      PROVE  Alone'
  BY <1>3, BegunAlone DEF Alone
<1>4. ASSUME NEW s \in Slots, NEW r \in Requests, BeginSnapshot(s, r)
      PROVE  Alone'
  <2>1. Fresh(r, "snapshot") \in Task /\ Fresh(r, "snapshot").req = r
    BY FreshType DEF Fresh
  <2> QED BY <1>3, <1>4, <2>1 DEF BeginSnapshot
<1>5. ASSUME NEW s \in Slots, NEW r \in Requests, NEW place \in Places, BeginRequest(s, r, place)
      PROVE  Alone'
  <2>1. UNCHANGED writer
    BY <1>5 DEF BeginRequest
  <2> QED BY <1>3, <1>5, <2>1, BeginsAttempt
<1>6. ASSUME NEW s \in Slots, NEW r \in Requests, NEW outcome \in Outcomes, BeginResponse(s, r, outcome)
      PROVE  Alone'
  <2>1. UNCHANGED writer
    BY <1>6 DEF BeginResponse
  <2> QED BY <1>3, <1>6, <2>1, BeginsAnswer
<1>7. CASE Manages
  BY <1>7, ManagesFrame DEF Alone
<1>8. CASE Restarts \/ UNCHANGED vars
  <2>1. CASE Restarts
    BY <1>1, <2>1 DEF Restarts, GoesOn
  <2>2. CASE UNCHANGED vars
    BY <2>2 DEF vars, Alone
  <2> QED BY <1>8, <2>1, <2>2
<1> QED BY <1>2, <1>4, <1>5, <1>6, <1>7, <1>8, Steps DEF Begins

-----------------------------------------------------------------------------
(* A request that a step leaves alone, and the slot it is about            *)

Bearing == {"insert", "resolve", "update", "charge", "mark"}

RowSame(r) ==
  \/ rows'[r] = NoRow
  \/ /\ rows[r] # NoRow
     /\ rows'[r].place = rows[r].place /\ rows'[r].status = rows[r].status
     /\ rows'[r].initial = rows[r].initial
     /\ rows'[r].charged = rows[r].charged /\ rows'[r].price = rows[r].price

SameFor(r) ==
  /\ RowSame(r)
  /\ tried'[r] = tried[r] /\ answered'[r] = answered[r] /\ (r \in came => r \in came')
  /\ writer' = writer /\ excuses \subseteq excuses'
  /\ \A q \in Slots : tasks'[q] # Idle /\ tasks'[q].req = r /\ tasks'[q].pc \in Bearing =>
       tasks'[q] = tasks[q]
  /\ \A q \in Slots : At(q, r, {"insert", "charge", "mark"}) => tasks'[q] = tasks[q]

LEMMA SameKept ==
  ASSUME NEW r \in Requests, Kept(r), SameFor(r)
  PROVE  Kept(r)'
<1>1. Orderly' => Orderly
  BY DEF Orderly, SameFor
<1>2. /\ Doing(r, {"insert"}) => Doing(r, {"insert"})'
      /\ Doing(r, {"charge", "mark"}) => Doing(r, {"charge", "mark"})'
  BY DEF Doing, At, SameFor
<1>3. Stands(r)'
  <2> SUFFICES ASSUME rows'[r] # NoRow
               PROVE  /\ r \in came'
                      /\ rows'[r].status # 0 => rows'[r].initial # 0
                      /\ Orderly' =>
                           /\ Doing(r, {"insert"})' \/ rows'[r].place = tried'[r].at
                           /\ rows'[r].status # 0 =>
                                /\ tried'[r].done
                                /\ answered'[r] = [place |-> rows'[r].place, status |-> rows'[r].status]
                           /\ Doing(r, {"charge", "mark"})' \/ rows'[r].charged = rows'[r].price
    BY DEF Stands
  <2>1. /\ rows[r] # NoRow
        /\ rows'[r].place = rows[r].place /\ rows'[r].status = rows[r].status
        /\ rows'[r].initial = rows[r].initial
        /\ rows'[r].charged = rows[r].charged /\ rows'[r].price = rows[r].price
        /\ tried'[r] = tried[r] /\ answered'[r] = answered[r] /\ (r \in came => r \in came')
    BY DEF SameFor, RowSame
  <2>2. r \in came' /\ (rows'[r].status # 0 => rows'[r].initial # 0)
    BY <2>1 DEF Kept, Stands
  <2>3. ASSUME Orderly'
        PROVE  /\ Doing(r, {"insert"})' \/ rows'[r].place = tried'[r].at
               /\ rows'[r].status # 0 =>
                    /\ tried'[r].done
                    /\ answered'[r] = [place |-> rows'[r].place, status |-> rows'[r].status]
               /\ Doing(r, {"charge", "mark"})' \/ rows'[r].charged = rows'[r].price
    BY <1>1, <1>2, <2>1, <2>3 DEF Kept, Stands
  <2> QED BY <2>2, <2>3
<1>4. Recorded(r)'
  BY <1>1, <1>2 DEF Kept, Recorded, SameFor
<1>5. ASSUME NEW q \in Slots
      PROVE  Brings(q, r)'
  <2>1. CASE tasks'[q] # Idle /\ tasks'[q].req = r /\ tasks'[q].pc \in Bearing
    <3>1. tasks'[q] = tasks[q] /\ tried'[r] = tried[r] /\ (r \in came => r \in came')
      BY <2>1 DEF SameFor
    <3>2. rows'[r] # NoRow => rows[r] # NoRow /\ rows'[r].price = rows[r].price
      BY DEF SameFor, RowSame
    <3>3. Brings(q, r)
      BY DEF Kept
    <3> QED BY <1>1, <3>1, <3>2, <3>3 DEF Brings, At
  <2>2. CASE ~(tasks'[q] # Idle /\ tasks'[q].req = r /\ tasks'[q].pc \in Bearing)
    BY <2>2 DEF Brings, At, Bearing
  <2> QED BY <2>1, <2>2
<1> QED BY <1>3, <1>4, <1>5 DEF Kept

\* Once a statement failed, only what holds of every writer.
LEMMA FailedKept ==
  ASSUME NEW r \in Requests, Kept(r), UNCHANGED <<rows, came>>, "failed" \in excuses',
         \A q \in Slots : tasks'[q] = Idle \/ tasks'[q] = tasks[q]
  PROVE  Kept(r)'
<1>1. ~Orderly'
  BY DEF Orderly
<1>2. Stands(r)'
  BY <1>1 DEF Kept, Stands
<1>3. \A q \in Slots : Brings(q, r)'
  BY <1>1 DEF Kept, Brings, At
<1> QED BY <1>1, <1>2, <1>3 DEF Kept, Recorded

\* The step of slot s for its own request: the other slots are about others, or none keeps
\* order.
LEMMA OwnKept ==
  ASSUME Alone, NEW s \in Slots, NEW r \in Requests, tasks[s] # Idle, tasks[s].req = r, Kept(r),
         \A q \in Slots \ {s} : tasks'[q] = tasks[q],
         UNCHANGED writer, excuses \subseteq excuses',
         Stands(r)', Recorded(r)', Brings(s, r)'
  PROVE  Kept(r)'
<1>1. Orderly' => Orderly /\ writer # "standalone"
  BY DEF Orderly
<1>2. ASSUME NEW q \in Slots, q # s
      PROVE  Brings(q, r)'
  <2>1. tasks'[q] = tasks[q]
    BY <1>2
  <2>2. Orderly' => ~(tasks[q] # Idle /\ tasks[q].req = r)
    BY <1>1, <1>2 DEF Alone
  <2>3. At(q, r, {"resolve", "update"}) => tasks[q].status # 0
    BY DEF Kept, Brings
  <2> QED BY <2>1, <2>2, <2>3 DEF Brings, At
<1> QED BY <1>2 DEF Kept

\* What an ordered writer lets the other slots be about.
LEMMA OnlySlot ==
  ASSUME Alone, NEW s \in Slots, NEW r, tasks[s] # Idle, tasks[s].req = r, Orderly,
         NEW pcs, tasks[s].pc \notin pcs
  PROVE  ~Doing(r, pcs)
BY DEF Alone, Orderly, Doing, At

LEMMA OtherSame ==
  ASSUME NEW s \in Slots, NEW r \in Requests, tasks[s] # Idle, tasks[s].req # r, GoesOn(s),
         \A q \in Slots \ {s} : tasks'[q] = tasks[q],
         rows'[r] = rows[r], tried'[r] = tried[r], answered'[r] = answered[r],
         came \subseteq came', UNCHANGED writer, excuses \subseteq excuses'
  PROVE  SameFor(r)
<1>1. RowSame(r)
  BY DEF RowSame
<1>2. ASSUME NEW q \in Slots, tasks'[q] # Idle, tasks'[q].req = r
      PROVE  tasks'[q] = tasks[q]
  BY <1>2 DEF GoesOn
<1>3. ASSUME NEW q \in Slots, At(q, r, {"insert", "charge", "mark"})
      PROVE  tasks'[q] = tasks[q]
  BY <1>3 DEF At
<1> QED BY <1>1, <1>2, <1>3 DEF SameFor

LEMMA InsertsKept ==
  ASSUME TypeOK, Alone, NEW s \in Slots, Inserts(s), NEW r \in Requests, Kept(r)
  PROVE  Kept(r)'
<1> DEFINE t == tasks[s]
<1>1. /\ t # Idle /\ t.pc = "insert" /\ t \in Task /\ t.req \in Requests /\ GoesOn(s)
      /\ \A q \in Slots \ {s} : tasks'[q] = tasks[q]
      /\ UNCHANGED <<tried, writer, excuses, answered>>
  BY AtWork, WorksOn DEF Works, Inserts
<1>2. came' = came \cup {t.req}
      /\ rows' = [rows EXCEPT ![t.req] = IF @ = NoRow THEN Inserted(t) ELSE Upserted(t, @)]
  BY DEF Inserts
<1>3. CASE t.req # r
  <2>1. rows'[r] = rows[r]
    BY <1>1, <1>2, <1>3 DEF TypeOK
  <2> QED BY <1>1, <1>2, <1>3, <2>1, OtherSame, SameKept
<1>4. CASE t.req = r
  <2>1. r \in came' /\ Recorded(r)'
    BY <1>2, <1>4 DEF Recorded
  <2>2. \/ rows[r] = NoRow /\ rows'[r] = Inserted(t)
        \/ rows[r] # NoRow /\ rows[r] \in Row /\ rows'[r] = Upserted(t, rows[r])
    BY <1>2, <1>4 DEF TypeOK
  <2>3. /\ rows'[r].place = t.place
        /\ \/ rows'[r].status = 0 /\ rows'[r].charged = 0 /\ rows'[r].price = 0
           \/ /\ rows[r] # NoRow /\ rows'[r].status = rows[r].status
              /\ rows'[r].charged = rows[r].charged /\ rows'[r].price = rows[r].price
              /\ rows[r].initial # 0 => rows'[r].initial = rows[r].initial
    <3>1. CASE rows'[r] = Inserted(t)
      <4>1. Inserted(t).place = t.place /\ Inserted(t).status = 0 /\ Inserted(t).charged = 0
            /\ Inserted(t).price = 0
        BY DEF Inserted
      <4> QED BY <3>1, <4>1
    <3>2. CASE rows[r] # NoRow /\ rows[r] \in Row /\ rows'[r] = Upserted(t, rows[r])
      BY <3>2 DEF Upserted, Row
    <3> QED BY <2>2, <3>1, <3>2
  <2>4. Orderly => ~tried[r].done /\ t.place = tried[r].at /\ ~Doing(r, {"charge", "mark"})
    BY <1>1, <1>4, OnlySlot DEF Kept, Brings, At
  <2>5. Orderly' => Orderly
    BY <1>1 DEF Orderly
  <2>6. rows'[r].status # 0 => rows'[r].initial # 0
    BY <2>3 DEF Kept, Stands
  <2>7. Orderly => rows'[r].status = 0 /\ rows'[r].charged = rows'[r].price
    BY <2>3, <2>4 DEF Kept, Stands
  <2>8. Stands(r)'
    BY <1>1, <2>1, <2>3, <2>4, <2>5, <2>6, <2>7 DEF Stands
  <2>9. Brings(s, r)'
    <3>1. tasks'[s] = Idle \/ tasks'[s].pc = "clean"
      <4>1. Ends(s) \/ tasks' = [tasks EXCEPT ![s] = Fresh(t.req, "clean")]
        BY DEF Inserts
      <4>2. Fresh(t.req, "clean").pc = "clean"
        BY DEF Fresh
      <4> QED BY <4>1, <4>2 DEF Ends, TypeOK
    <3> QED BY <3>1 DEF Brings, At
  <2> QED BY <1>1, <1>4, <2>1, <2>8, <2>9, OwnKept
<1> QED BY <1>3, <1>4

LEMMA ResolvesKept ==
  ASSUME TypeOK, Alone, NEW s \in Slots, Resolves(s), NEW r \in Requests, Kept(r)
  PROVE  Kept(r)'
<1> DEFINE t == tasks[s]
<1>1. /\ t # Idle /\ t.pc = "resolve" /\ t \in Task /\ t.req \in Requests /\ GoesOn(s)
      /\ \A q \in Slots \ {s} : tasks'[q] = tasks[q]
      /\ UNCHANGED <<rows, tried, writer, excuses, came, answered>>
  BY AtWork, WorksOn DEF Works, Resolves, histories
<1>2. CASE t.req # r
  BY <1>1, <1>2, OtherSame, SameKept
<1>3. CASE t.req = r
  <2> DEFINE p == IF rows[r] = NoRow THEN 0 ELSE FirstPrice(<<t.answer, ReqModel>>)
  <2>1. tasks'[s] = [t EXCEPT !.pc = "update", !.price = p]
    BY <1>3 DEF Resolves, TypeOK
  <2> HIDE DEF p
  <2>2. tasks'[s].pc = "update" /\ tasks'[s].status = t.status /\ tasks'[s].place = t.place
    BY <1>1, <2>1 DEF Task
  <2>3. Orderly' <=> Orderly
    BY <1>1 DEF Orderly
  <2>4. Brings(s, r)'
    BY <1>1, <1>3, <2>2, <2>3 DEF Kept, Brings, At
  <2>5. ASSUME NEW pcs, "resolve" \notin pcs, Doing(r, pcs)
        PROVE  Doing(r, pcs)'
    <3>1. PICK q \in Slots : At(q, r, pcs)
      BY <2>5 DEF Doing
    <3>2. q # s
      BY <1>1, <2>5, <3>1 DEF At
    <3> QED BY <1>1, <3>1, <3>2 DEF Doing, At
  <2>6. /\ Doing(r, {"insert"}) => Doing(r, {"insert"})'
        /\ Doing(r, {"charge", "mark"}) => Doing(r, {"charge", "mark"})'
    BY <2>5
  <2>7. Stands(r)' /\ Recorded(r)'
    BY <1>1, <2>3, <2>6 DEF Kept, Stands, Recorded
  <2> QED BY <1>1, <1>3, <2>4, <2>7, OwnKept
<1> QED BY <1>2, <1>3

LEMMA UpdatesKept ==
  ASSUME TypeOK, Alone, NEW s \in Slots, Updates(s), NEW r \in Requests, Kept(r)
  PROVE  Kept(r)'
<1> DEFINE t == tasks[s]
<1>1. /\ t # Idle /\ t.pc = "update" /\ t \in Task /\ t.req \in Requests /\ GoesOn(s)
      /\ \A q \in Slots \ {s} : tasks'[q] = tasks[q]
      /\ UNCHANGED <<tried, writer, excuses, came>>
  BY AtWork, WorksOn DEF Works, Updates
<1>2. CASE t.req # r
  <2>1. rows'[r] = rows[r] /\ answered'[r] = answered[r]
    BY <1>1, <1>2 DEF Updates, TypeOK
  <2> QED BY <1>1, <1>2, <2>1, OtherSame, SameKept
<1>3. CASE t.req = r
  <2>1. tasks'[s].pc = "charge" /\ tasks'[s].req = r /\ tasks'[s].price = t.price
    <3>1. tasks'[s] = [Fresh(r, "charge") EXCEPT !.price = t.price]
      BY <1>3 DEF Updates, TypeOK
    <3> QED BY <3>1 DEF Fresh
  <2>2. Orderly' <=> Orderly
    BY <1>1 DEF Orderly
  <2>3. t.status # 0
        /\ (Orderly => tried[r].done /\ t.place = tried[r].at /\ r \in came /\ ~Doing(r, {"insert"}))
    BY <1>1, <1>3, OnlySlot DEF Kept, Brings, At
  <2>4. CASE rows[r] = NoRow
    <3>1. rows' = rows
      BY <1>3, <2>4 DEF Updates
    <3>2. Stands(r)' /\ Brings(s, r)'
      BY <2>1, <2>4, <3>1 DEF Stands, Brings, At
    <3>3. Recorded(r)'
      BY <1>1, <2>2, <2>3 DEF Recorded
    <3> QED BY <1>1, <1>3, <3>2, <3>3, OwnKept
  <2>5. CASE rows[r] # NoRow
    <3>1. rows[r] \in Row /\ rows'[r] = Responded(t, rows[r])
          /\ answered'[r] = [place |-> t.place, status |-> t.status]
      BY <1>3, <2>5 DEF Updates, TypeOK
    <3>2. /\ rows'[r].place = rows[r].place /\ rows'[r].status = t.status
          /\ rows'[r].price = t.price /\ rows'[r].initial # 0
      <4>1. CASE rows[r].initial = 0
        BY <2>3, <3>1, <4>1 DEF Responded, Row
      <4>2. CASE rows[r].initial # 0
        BY <2>3, <3>1, <4>2 DEF Responded, Row
      <4> QED BY <4>1, <4>2
    <3>3. r \in came' /\ (Orderly => rows[r].place = tried[r].at)
      BY <1>1, <2>3, <2>5 DEF Kept, Stands
    <3>4. Doing(r, {"charge", "mark"})'
      <4>1. tasks'[s] # Idle
        <5>1. tasks'[s] = [Fresh(r, "charge") EXCEPT !.price = t.price]
          BY <1>3 DEF Updates, TypeOK
        <5>2. Fresh(r, "charge") \in Task /\ t.price \in Nat
          BY <1>1, FreshType DEF Task
        <5>3. [Fresh(r, "charge") EXCEPT !.price = t.price] \in Task
          BY <5>2 DEF Task
        <5> QED BY <5>1, <5>3, NothingAssumption
      <4> QED BY <2>1, <4>1 DEF Doing, At
    <3>5. Stands(r)'
      BY <1>1, <2>2, <2>3, <3>1, <3>2, <3>3, <3>4 DEF Stands
    <3>6. Brings(s, r)'
      BY <2>1, <3>2 DEF Brings, At
    <3>7. Recorded(r)'
      BY <3>3 DEF Recorded
    <3> QED BY <1>1, <1>3, <3>5, <3>6, <3>7, OwnKept
  <2> QED BY <2>4, <2>5
<1> QED BY <1>2, <1>3

LEMMA ChargedRow ==
  ASSUME NEW row \in Row, NEW n, NEW new, new = [row EXCEPT !.charged = n]
  PROVE  /\ new.place = row.place /\ new.status = row.status /\ new.initial = row.initial
         /\ new.price = row.price /\ new.charged = n
BY DEF Row

\* Both drivers come to this: the charge of the row becomes that of its answer.
LEMMA ChargeKept ==
  ASSUME TypeOK, Alone, NEW s \in Slots, NEW r \in Requests, Kept(r),
         tasks[s] # Idle, tasks[s].req = r, tasks[s].pc \in {"charge", "mark"},
         \A q \in Slots \ {s} : tasks'[q] = tasks[q],
         tasks'[s] = Idle \/ tasks'[s].pc = "pay",
         rows' = IF rows[r] = NoRow THEN rows ELSE [rows EXCEPT ![r].charged = tasks[s].price],
         UNCHANGED <<tried, answered, came, writer>>, excuses \subseteq excuses'
  PROVE  Kept(r)'
<1> DEFINE t == tasks[s]
<1>1. Orderly' => Orderly
  BY DEF Orderly
<1>2. Orderly => ~Doing(r, {"insert"})
  BY OnlySlot
<1>3. Brings(s, r)'
  BY DEF Brings, At
<1>4. Recorded(r)'
  BY <1>1, <1>2 DEF Kept, Recorded
<1>5. Stands(r)'
  <2>1. CASE rows[r] = NoRow
    BY <2>1 DEF Stands
  <2>2. CASE rows[r] # NoRow
    <3>1. /\ rows'[r].place = rows[r].place /\ rows'[r].status = rows[r].status
          /\ rows'[r].initial = rows[r].initial /\ rows'[r].price = rows[r].price
          /\ rows'[r].charged = t.price
      <4>1. rows[r] \in Row /\ rows'[r] = [rows[r] EXCEPT !.charged = t.price]
        BY <2>2 DEF TypeOK
      <4> QED BY ONLY <4>1, ChargedRow
    <3>2. Orderly => t.price = rows[r].price
      BY <2>2 DEF Kept, Brings, At
    <3>3. Orderly => rows[r].place = tried[r].at
      BY <1>2, <2>2 DEF Kept, Stands
    <3>4. r \in came /\ (rows[r].status # 0 => rows[r].initial # 0)
          /\ (Orderly /\ rows[r].status # 0 =>
                tried[r].done /\ answered[r] = [place |-> rows[r].place, status |-> rows[r].status])
      BY <2>2 DEF Kept, Stands
    <3> QED BY <1>1, <3>1, <3>2, <3>3, <3>4 DEF Stands
  <2> QED BY <2>1, <2>2
<1> QED BY <1>3, <1>4, <1>5, OwnKept

LEMMA ChargesKept ==
  ASSUME TypeOK, Alone, NEW s \in Slots, Charges(s) \/ MarksCharge(s), NEW r \in Requests, Kept(r)
  PROVE  Kept(r)'
<1> DEFINE t == tasks[s]
<1>1. /\ t # Idle /\ t.pc \in {"charge", "mark"} /\ t \in Task /\ t.req \in Requests /\ GoesOn(s)
      /\ \A q \in Slots \ {s} : tasks'[q] = tasks[q]
      /\ UNCHANGED <<tried, writer, came, answered>>
  BY AtWork, WorksOn DEF Works, Charges, MarksCharge, histories
<1>2. rows' = IF rows[t.req] = NoRow THEN rows ELSE [rows EXCEPT ![t.req].charged = t.price]
  BY DEF Charges, MarksCharge
<1>3. excuses \subseteq excuses'
  BY DEF Charges, MarksCharge
<1>4. tasks'[s] = Idle \/ tasks'[s].pc = "pay"
  <2>1. Ends(s) \/ Goes(s, "pay")
    BY DEF Charges, MarksCharge
  <2>2. CASE Ends(s)
    BY <2>2 DEF Ends, TypeOK
  <2>3. CASE Goes(s, "pay")
    <3>1. tasks'[s] = [t EXCEPT !.pc = "pay"]
      BY <2>3 DEF Goes, TypeOK
    <3> QED BY <1>1, <3>1 DEF Task
  <2> QED BY <2>1, <2>2, <2>3
<1>5. CASE t.req = r
  BY <1>1, <1>2, <1>3, <1>4, <1>5, ChargeKept
<1>6. CASE t.req # r
  <2>1. rows'[r] = rows[r]
    BY <1>2, <1>6 DEF TypeOK
  <2> QED BY <1>1, <1>3, <1>6, <2>1, OtherSame, SameKept
<1> QED BY <1>5, <1>6

LEMMA ReadsChargeKept ==
  ASSUME TypeOK, Alone, NEW s \in Slots, ReadsCharge(s), NEW r \in Requests, Kept(r)
  PROVE  Kept(r)'
<1> DEFINE t == tasks[s]
<1>1. /\ t # Idle /\ t.pc = "charge" /\ t \in Task /\ t.req \in Requests /\ GoesOn(s)
      /\ \A q \in Slots \ {s} : tasks'[q] = tasks[q]
      /\ UNCHANGED <<rows, tried, writer, excuses, came, answered>>
  BY AtWork, WorksOn DEF Works, ReadsCharge, histories
<1>2. CASE t.req # r
  BY <1>1, <1>2, OtherSame, SameKept
<1>3. CASE t.req = r
  <2>1. Orderly' <=> Orderly
    BY <1>1 DEF Orderly
  <2>2. Orderly => ~Doing(r, {"insert"})
    BY <1>1, <1>3, OnlySlot
  <2>3. Recorded(r)'
    BY <1>1, <2>1, <2>2 DEF Kept, Recorded
  <2>4. CASE rows[r] = NoRow
    <3>1. tasks'[s] = Idle
      BY <1>3, <2>4 DEF ReadsCharge, Ends, TypeOK
    <3>2. Stands(r)' /\ Brings(s, r)'
      BY <1>1, <2>4, <3>1 DEF Stands, Brings, At
    <3> QED BY <1>1, <1>3, <2>3, <3>2, OwnKept
  <2>5. CASE rows[r] # NoRow
    <3>1. tasks'[s] = [t EXCEPT !.read = rows[r].charged, !.pc = "mark"]
      BY <1>3, <2>5 DEF ReadsCharge, TypeOK
    <3>2. tasks'[s].pc = "mark" /\ tasks'[s].req = r /\ tasks'[s].price = t.price
          /\ tasks'[s] # Idle
      <4>1. rows[r].charged \in Nat
        BY <2>5 DEF TypeOK, Row
      <4>2. tasks'[s] \in Task
        BY <1>1, <3>1, <4>1 DEF Task
      <4>3. tasks'[s].pc = "mark" /\ tasks'[s].req = r /\ tasks'[s].price = t.price
        BY <1>1, <1>3, <3>1 DEF Task
      <4> QED BY <4>2, <4>3, NothingAssumption
    <3>3. Brings(s, r)'
      BY <1>1, <1>3, <2>1, <3>2 DEF Kept, Brings, At
    <3>4. Doing(r, {"charge", "mark"})'
      BY <3>2 DEF Doing, At
    <3>5. Orderly => rows[r].place = tried[r].at
      BY <2>2, <2>5 DEF Kept, Stands
    <3>6. Stands(r)'
      BY <1>1, <2>1, <2>5, <3>4, <3>5 DEF Kept, Stands
    <3> QED BY <1>1, <1>3, <2>3, <3>3, <3>6, OwnKept
  <2> QED BY <2>4, <2>5
<1> QED BY <1>2, <1>3

\* What a slot does that bears on no row: the retention, a snapshot, the payment.
LEMMA SparesKept ==
  ASSUME TypeOK, NEW s \in Slots, Cleans(s) \/ Snapshots(s) \/ Pays(s), NEW r \in Requests, Kept(r)
  PROVE  Kept(r)'
<1>1. /\ tasks[s] # Idle /\ tasks[s].pc \in {"clean", "snapshot", "pay"} /\ tasks'[s] = Idle
      /\ \A q \in Slots \ {s} : tasks'[q] = tasks[q]
      /\ UNCHANGED <<tried, writer, excuses, came, answered>>
  BY WorksOn DEF Works, Cleans, Snapshots, Pays, Ends, histories, TypeOK
<1>2. RowSame(r)
  <2>1. CASE Cleans(s)
    BY <2>1 DEF Cleans, Remove, RowSame
  <2>2. CASE Snapshots(s)
    <3> DEFINE q == tasks[s].req
    <3>1. rows'[r] = rows[r]
          \/ (rows[r] # NoRow /\ \E n : rows'[r] = [rows[r] EXCEPT !.snap = n])
      <4>1. CASE rows[q] = NoRow \/ q # r
        BY <2>2, <4>1 DEF Snapshots, TypeOK
      <4>2. CASE rows[q] # NoRow /\ q = r
        <5>1. rows'[r] = [rows[r] EXCEPT !.snap = SnapshotKept(rows[r].snap, calls[r])]
          BY <2>2, <4>2 DEF Snapshots, TypeOK
        <5> QED BY <4>2, <5>1
      <4> QED BY <4>1, <4>2
    <3>2. CASE rows'[r] = rows[r]
      BY <3>2 DEF RowSame
    <3>3. ASSUME rows[r] # NoRow, NEW n, rows'[r] = [rows[r] EXCEPT !.snap = n]
          PROVE  RowSame(r)
      <4>1. rows[r] \in Row
        BY <3>3 DEF TypeOK
      <4> QED BY <3>3, <4>1 DEF RowSame, Row
    <3> QED BY <3>1, <3>2, <3>3
  <2>3. CASE Pays(s)
    BY <2>3 DEF Pays, RowSame
  <2> QED BY <2>1, <2>2, <2>3
<1>3. SameFor(r)
  BY <1>1, <1>2 DEF SameFor, At, Bearing
<1> QED BY <1>3, SameKept

LEMMA WorksKept ==
  ASSUME TypeOK, Alone, NEW s \in Slots, Works(s), NEW r \in Requests, Kept(r)
  PROVE  Kept(r)'
<1>1. CASE Fails(s)
  <2>1. \A q \in Slots : tasks'[q] = Idle \/ tasks'[q] = tasks[q]
    BY <1>1 DEF Fails, Ends, TypeOK
  <2> QED BY <1>1, <2>1, FailedKept DEF Fails, histories
<1> QED BY <1>1, InsertsKept, ResolvesKept, UpdatesKept, ChargesKept, ReadsChargeKept, SparesKept
        DEF Works

-----------------------------------------------------------------------------
(* A save begins                                                           *)

LEMMA BegunKept ==
  ASSUME TypeOK, NEW s \in Slots, NEW r \in Requests, NEW task \in Task, Begin(s, r, task), Kept(r),
         UNCHANGED writer, excuses \subseteq excuses',
         Stands(r)', Recorded(r)', Brings(s, r)'
  PROVE  Kept(r)'
<1>1. Orderly' => Orderly /\ writer # "standalone"
  BY DEF Orderly
<1>2. ASSUME NEW q \in Slots, q # s
      PROVE  Brings(q, r)'
  <2>1. tasks'[q] = tasks[q]
    BY <1>2, BegunAlone
  <2>2. Orderly' => ~(tasks[q] # Idle /\ tasks[q].req = r)
    BY <1>1, BegunAlone
  <2>3. At(q, r, {"resolve", "update"}) => tasks[q].status # 0
    BY DEF Kept, Brings
  <2> QED BY <2>1, <2>2, <2>3 DEF Brings, At
<1> QED BY <1>2 DEF Kept

LEMMA BegunOther ==
  ASSUME TypeOK, NEW s \in Slots, NEW q \in Requests, NEW task \in Task, Begin(s, q, task),
         task.req = q, NEW r \in Requests, Kept(r), r # q \/ task.pc \notin Bearing,
         UNCHANGED <<rows, answered, came, writer, excuses>>, tried'[r] = tried[r]
  PROVE  Kept(r)'
<1>1. RowSame(r)
  BY DEF RowSame
<1>2. tasks[s] = Idle /\ tasks'[s] = task /\ \A p \in Slots \ {s} : tasks'[p] = tasks[p]
  BY BegunAlone
<1>3. SameFor(r)
  BY <1>1, <1>2 DEF SameFor, At
<1> QED BY <1>3, SameKept

LEMMA BeginsKept ==
  ASSUME TypeOK, Begins, NEW r \in Requests, Kept(r)
  PROVE  Kept(r)'
<1>1. ASSUME NEW s \in Slots, NEW q \in Requests, BeginSnapshot(s, q)
      PROVE  Kept(r)'
  <2>1. Fresh(q, "snapshot") \in Task /\ Fresh(q, "snapshot").req = q
        /\ Fresh(q, "snapshot").pc \notin Bearing
    BY FreshType DEF Fresh, Bearing
  <2>2. /\ Begin(s, q, Fresh(q, "snapshot"))
        /\ UNCHANGED <<rows, answered, came, writer, excuses, tried>>
    BY <1>1 DEF BeginSnapshot, histories
  <2> QED BY <2>1, <2>2, BegunOther
<1>2. ASSUME NEW s \in Slots, NEW q \in Requests, NEW place \in Places, BeginRequest(s, q, place)
      PROVE  Kept(r)'
  <2> DEFINE task == Attempt(q, place)
  <2>1. /\ Begin(s, q, task) /\ task \in Task /\ task.req = q /\ task.pc = "insert"
        /\ task.place = place /\ tried' = [tried EXCEPT ![q] = Tried(q, place)]
        /\ Tried(q, place).at = place /\ Tried(q, place).done = tried[q].done
    BY <1>2, BeginsAttempt
  <2>2. UNCHANGED <<rows, answered, came, writer, excuses>> /\ ~tried[q].done
    BY <1>2 DEF BeginRequest, histories
  <2> HIDE DEF task
  <2>3. CASE q # r
    <3>1. tried'[r] = tried[r]
      BY <2>1, <2>3 DEF TypeOK
    <3> QED BY <2>1, <2>2, <2>3, <3>1, BegunOther
  <2>4. CASE q = r
    <3>1. tried'[r].at = place /\ tried'[r].done = FALSE
      BY <2>1, <2>2, <2>4 DEF TypeOK, Try
    <3>2. tasks'[s] = task /\ task # Idle
      BY <2>1, BegunAlone, NothingAssumption
    <3>3. Doing(r, {"insert"})'
      BY <2>1, <2>4, <3>2 DEF Doing, At
    <3>4. Orderly' <=> Orderly
      BY <2>2 DEF Orderly
    <3>5. Orderly => ~Doing(r, {"charge", "mark"})
      BY <2>1, <2>4, BegunAlone DEF Orderly, Doing, At
    <3>6. Stands(r)'
      BY <2>2, <2>4, <3>3, <3>4, <3>5 DEF Kept, Stands
    <3>7. Recorded(r)'
      BY <3>3 DEF Recorded
    <3>8. Brings(s, r)'
      BY <2>1, <3>1, <3>2 DEF Brings, At
    <3> QED BY <2>1, <2>2, <2>4, <3>6, <3>7, <3>8, BegunKept
  <2> QED BY <2>3, <2>4
<1>3. ASSUME NEW s \in Slots, NEW q \in Requests, NEW outcome \in Outcomes, BeginResponse(s, q, outcome)
      PROVE  Kept(r)'
  <2> DEFINE task == Answering(q, outcome)
  <2>1. /\ Begin(s, q, task) /\ task \in Task /\ task.req = q /\ task.pc = "resolve"
        /\ task.place = tried[q].at /\ task.status # 0
        /\ tried' = [tried EXCEPT ![q] = [tried[q] EXCEPT !.done = TRUE]]
    BY <1>3, BeginsAnswer
  <2>2. UNCHANGED <<rows, answered, came, writer, excuses>> /\ tried[q].origin # NoPlace
    BY <1>3 DEF BeginResponse, histories
  <2> HIDE DEF task
  <2>3. CASE q # r
    <3>1. tried'[r] = tried[r]
      BY <2>1, <2>3 DEF TypeOK
    <3> QED BY <2>1, <2>2, <2>3, <3>1, BegunOther
  <2>4. CASE q = r
    <3>1. /\ tried'[r].at = tried[r].at /\ tried'[r].done = TRUE
          /\ tried'[r].origin = tried[r].origin
      BY <2>1, <2>4 DEF TypeOK, Try
    <3>2. tasks'[s] = task /\ task # Idle
      BY <2>1, BegunAlone, NothingAssumption
    <3>3. Orderly' <=> Orderly
      BY <2>2 DEF Orderly
    <3>4. Orderly => ~Doing(r, {"charge", "mark"}) /\ ~Doing(r, {"insert"})
      BY <2>1, <2>4, BegunAlone DEF Orderly, Doing, At
    <3>5. Orderly => r \in came
      BY <2>2, <2>4, <3>4 DEF Kept, Recorded
    <3>6. Stands(r)'
      BY <2>2, <3>1, <3>3, <3>4 DEF Kept, Stands
    <3>7. Recorded(r)'
      BY <2>2, <3>3, <3>5 DEF Recorded
    <3>8. Brings(s, r)'
      BY <2>1, <2>2, <2>4, <3>1, <3>2, <3>3, <3>5 DEF Brings, At
    <3> QED BY <2>1, <2>2, <2>4, <3>6, <3>7, <3>8, BegunKept
  <2> QED BY <2>3, <2>4
<1> QED BY <1>1, <1>2, <1>3 DEF Begins

LEMMA ManagesKept ==
  ASSUME Manages, NEW r \in Requests, Kept(r)
  PROVE  Kept(r)'
<1>1. RowSame(r) /\ excuses \subseteq excuses'
  <2>1. CASE Clears
    BY <2>1 DEF Clears, Remove, RowSame
  <2>2. CASE CleanupDue \/ DeletesKey
    BY <2>2 DEF CleanupDue, DeletesKey, RowSame
  <2>3. ASSUME NEW m, NEW p, EditsPrice(m, p)
        PROVE  RowSame(r) /\ excuses \subseteq excuses'
    BY <2>3 DEF EditsPrice, RowSame
  <2> QED BY <2>1, <2>2, <2>3 DEF Manages
<1>2. SameFor(r)
  BY <1>1, ManagesFrame DEF SameFor
<1> QED BY <1>2, SameKept

LEMMA KeptStep ==
  ASSUME TypeOK, Alone, [Next]_vars, NEW r \in Requests, Kept(r)
  PROVE  Kept(r)'
<1>1. CASE Restarts
  <2>1. UNCHANGED <<rows, came>> /\ "failed" \in excuses' /\ \A q \in Slots : tasks'[q] = Idle
    BY <1>1 DEF Restarts, histories
  <2> QED BY <2>1, FailedKept
<1>2. CASE UNCHANGED vars
  <2>1. SameFor(r)
    BY <1>2 DEF vars, SameFor, RowSame
  <2> QED BY <2>1, SameKept
<1> QED BY <1>1, <1>2, Steps, WorksKept, BeginsKept, ManagesKept

-----------------------------------------------------------------------------
(* The retention                                                           *)

LEMMA NewerFinite ==
  ASSUME TypeOK, NEW r
  PROVE  IsFiniteSet(Newer(r)) /\ Cardinality(Newer(r)) \in Nat
<1>1. Newer(r) \subseteq Requests
  BY DEF Newer, TypeOK
<1> QED BY <1>1, BoundsAssumption, FS_Subset, FS_CardinalityType

LEMMA NewerGrows ==
  ASSUME TypeOK, TypeOK', came \subseteq came', NEW r, Cardinality(Newer(r)) >= Keep
  PROVE  Cardinality(Newer(r)') >= Keep
<1>1. Newer(r) \subseteq Newer(r)' /\ Newer(r)' \subseteq Requests
  BY DEF Newer, TypeOK
<1>2. IsFiniteSet(Newer(r)')
  BY <1>1, BoundsAssumption, FS_Subset
<1>3. Cardinality(Newer(r)) <= Cardinality(Newer(r)')
  BY <1>1, <1>2, FS_Subset
<1>4. Cardinality(Newer(r)) \in Nat /\ Cardinality(Newer(r)') \in Nat /\ Keep \in Nat
  BY <1>2, NewerFinite, FS_CardinalityType, BoundsAssumption
<1> QED BY <1>3, <1>4

\* What cleanupOldRows drops has Keep newer rows above it.
LEMMA DroppedOutnumbered ==
  ASSUME TypeOK, \A q \in Requests : Stands(q), NEW r \in Requests, rows[r] # NoRow, r \notin Retained
  PROVE  Cardinality(Newer(r)) >= Keep
<1> DEFINE above == {q \in Requests : q > r /\ rows[q] # NoRow}
<1>1. ~(Cardinality(above) < Keep)
  BY DEF Retained
<1>2. above \subseteq Newer(r)
  BY DEF Stands, Newer
<1>3. IsFiniteSet(above) /\ Cardinality(above) <= Cardinality(Newer(r))
  BY <1>2, NewerFinite, FS_Subset
<1>4. Cardinality(above) \in Nat /\ Cardinality(Newer(r)) \in Nat /\ Keep \in Nat
  BY <1>3, NewerFinite, FS_CardinalityType, BoundsAssumption
<1> QED BY <1>1, <1>3, <1>4

LEMMA OutnumberedStep ==
  ASSUME TypeOK, TypeOK', Alone, \A r \in Requests : Kept(r), Outnumbered, [Next]_vars
  PROVE  Outnumbered'
<1>1. ASSUME came \subseteq came', excuses \subseteq excuses', UNCHANGED writer, lost' \subseteq lost,
             excuses' \cap {"failed", "cleared"} = {} =>
               \A r \in came' : rows'[r] = NoRow => r \in came /\ rows[r] = NoRow
      PROVE  Outnumbered'
  <2> SUFFICES ASSUME excuses' \cap {"failed", "cleared"} = {}
               PROVE  /\ \A r \in came' : rows'[r] = NoRow => Cardinality(Newer(r)') >= Keep
                      /\ writer' # "standalone" => \A r \in lost' : Cardinality(Newer(r)') >= Keep
    BY DEF Outnumbered
  <2>1. excuses \cap {"failed", "cleared"} = {}
    BY <1>1
  <2>2. ASSUME NEW r \in came', rows'[r] = NoRow
        PROVE  Cardinality(Newer(r)') >= Keep
    <3>1. Cardinality(Newer(r)) >= Keep
      BY <1>1, <2>1, <2>2 DEF Outnumbered
    <3> QED BY <1>1, <3>1, NewerGrows
  <2>3. ASSUME writer' # "standalone", NEW r \in lost'
        PROVE  Cardinality(Newer(r)') >= Keep
    <3>1. Cardinality(Newer(r)) >= Keep
      BY <1>1, <2>1, <2>3 DEF Outnumbered
    <3> QED BY <1>1, <3>1, NewerGrows
  <2> QED BY <2>2, <2>3
<1>2. ASSUME NEW s \in Slots, Inserts(s)
      PROVE  Outnumbered'
  <2> DEFINE t == tasks[s]
  <2>1. t # Idle /\ t \in Task /\ t.req \in Requests
    BY <1>2, AtWork DEF Inserts
  <2>2. /\ rows' = [rows EXCEPT ![t.req] = IF @ = NoRow THEN Inserted(t) ELSE Upserted(t, @)]
        /\ came' = came \cup {t.req} /\ lost' \subseteq lost /\ UNCHANGED <<excuses, writer>>
    BY <1>2 DEF Inserts
  <2>3. rows'[t.req] # NoRow
    <3>1. CASE rows[t.req] = NoRow
      <4>1. rows'[t.req] = Inserted(t) /\ Inserted(t) \in Row
        BY <2>1, <2>2, <3>1 DEF Inserted, Row, Task, TypeOK
      <4> QED BY <4>1, NothingAssumption
    <3>2. CASE rows[t.req] # NoRow
      <4>1. rows[t.req] \in Row
        BY <2>1, <3>2 DEF TypeOK
      <4>2. Upserted(t, rows[t.req]) \in Row
        BY <2>1, <4>1, UpsertedType
      <4>3. rows'[t.req] = Upserted(t, rows[t.req])
        BY <2>1, <2>2, <3>2 DEF TypeOK
      <4> QED BY <4>2, <4>3, NothingAssumption
    <3> QED BY <3>1, <3>2
  <2>4. \A r \in came' : rows'[r] = NoRow => r \in came /\ rows[r] = NoRow
    BY <2>1, <2>2, <2>3 DEF TypeOK
  <2> QED BY <1>1, <2>2, <2>4
<1>3. ASSUME NEW s \in Slots, Cleans(s)
      PROVE  Outnumbered'
  <2>1. /\ rows' = [r \in Requests |-> IF r \in {q \in Requests : rows[q] # NoRow} \ Retained
                                       THEN NoRow ELSE rows[r]]
        /\ UNCHANGED <<came, lost, excuses, writer>>
    BY <1>3 DEF Cleans, Remove
  <2>2. Newer(1)' = Newer(1) /\ \A r : Newer(r)' = Newer(r)
    BY <2>1 DEF Newer
  <2>3. ASSUME excuses \cap {"failed", "cleared"} = {}, NEW r \in came, rows'[r] = NoRow
        PROVE  Cardinality(Newer(r)) >= Keep
    <3>1. r \in Requests
      BY DEF TypeOK
    <3>2. CASE rows[r] = NoRow
      BY <2>3, <3>2 DEF Outnumbered
    <3>3. CASE rows[r] # NoRow
      <4>1. r \notin Retained
        BY <2>1, <2>3, <3>1, <3>3
      <4> QED BY <3>1, <3>3, <4>1, DroppedOutnumbered DEF Kept
    <3> QED BY <3>2, <3>3
  <2> QED BY <2>1, <2>2, <2>3 DEF Outnumbered
<1>4. ASSUME NEW s \in Slots, Updates(s)
      PROVE  Outnumbered'
  <2> DEFINE t == tasks[s]
  <2>1. t # Idle /\ t.pc = "update" /\ t \in Task /\ t.req \in Requests
    BY <1>4, AtWork DEF Updates
  <2>2. CASE rows[t.req] # NoRow
    <3>1. /\ rows' = [rows EXCEPT ![t.req] = Responded(t, rows[t.req])]
          /\ UNCHANGED <<lost, came, excuses, writer>>
      BY <1>4, <2>2 DEF Updates
    <3>2. Responded(t, rows[t.req]) \in Row
      <4>1. rows[t.req] \in Row
        BY <2>1, <2>2 DEF TypeOK
      <4> QED BY <2>1, <4>1, RespondedType
    <3>3. \A r \in came' : rows'[r] = NoRow => r \in came /\ rows[r] = NoRow
      BY <2>1, <2>2, <3>1, <3>2, NothingAssumption DEF TypeOK
    <3> QED BY <1>1, <3>1, <3>3
  <2>3. CASE rows[t.req] = NoRow
    <3>1. UNCHANGED <<rows, came, excuses, writer>> /\ lost' = lost \cup {t.req}
      BY <1>4, <2>3 DEF Updates
    <3>2. \A r : Newer(r)' = Newer(r)
      BY <3>1 DEF Newer
    <3>3. Orderly => t.req \in came
      BY <2>1 DEF Kept, Brings, At
    <3> QED BY <2>3, <3>1, <3>2, <3>3 DEF Outnumbered, Orderly
  <2> QED BY <2>2, <2>3
<1>5. ASSUME NEW s \in Slots, Snapshots(s) \/ Charges(s) \/ MarksCharge(s)
      PROVE  Outnumbered'
  <2> DEFINE q == tasks[s].req
  <2>1. q \in Requests /\ tasks[s].price \in Nat
    BY <1>5, AtWork DEF Snapshots, Charges, MarksCharge
  <2>2. UNCHANGED <<came, lost, writer>> /\ excuses \subseteq excuses'
    BY <1>5 DEF Snapshots, Charges, MarksCharge, histories
  <2>3. ASSUME rows[q] # NoRow
        PROVE  rows'[q] # NoRow /\ \A r \in Requests \ {q} : rows'[r] = rows[r]
    <3>1. rows[q] \in Row
      BY <2>1, <2>3 DEF TypeOK
    <3>2. \/ rows' = [rows EXCEPT ![q].snap = SnapshotKept(@, calls[q])]
          \/ rows' = [rows EXCEPT ![q].charged = tasks[s].price]
      BY <1>5, <2>3 DEF Snapshots, Charges, MarksCharge
    <3>3. SnapshotKept(rows[q].snap, calls[q]) \in Nat
      BY <2>1, <3>1 DEF SnapshotKept, Row, TypeOK
    <3>4. [rows[q] EXCEPT !.snap = SnapshotKept(@, calls[q])] \in Row
      BY <3>1, <3>3 DEF Row
    <3>5. [rows[q] EXCEPT !.charged = tasks[s].price] \in Row
      BY <2>1, <3>1 DEF Row
    <3>6. rows'[q] \in Row
      BY <2>1, <3>2, <3>4, <3>5 DEF TypeOK
    <3> QED BY <2>1, <3>2, <3>6, NothingAssumption DEF TypeOK
  <2>4. rows[q] = NoRow => rows' = rows
    BY <1>5 DEF Snapshots, Charges, MarksCharge
  <2>5. \A r \in came' : rows'[r] = NoRow => r \in came /\ rows[r] = NoRow
    BY <2>1, <2>2, <2>3, <2>4 DEF TypeOK
  <2> QED BY <1>1, <2>2, <2>5
<1>6. ASSUME NEW s \in Slots, Resolves(s) \/ ReadsCharge(s) \/ Pays(s) \/ Fails(s)
      PROVE  Outnumbered'
  <2>1. UNCHANGED <<rows, came, lost, writer>> /\ excuses \subseteq excuses'
    BY <1>6 DEF Resolves, ReadsCharge, Pays, Fails, histories
  <2> QED BY <1>1, <2>1
<1>7. CASE Begins
  <2>1. UNCHANGED <<rows, came, lost, writer, excuses>>
    BY <1>7, BeginsLeaves
  <2> QED BY <1>1, <2>1
<1>8. CASE Manages
  <2>1. CASE Clears
    BY <2>1 DEF Clears, Outnumbered
  <2>2. CASE CleanupDue \/ DeletesKey
    <3>1. UNCHANGED <<rows, came, lost, writer, excuses>>
      BY <2>2 DEF CleanupDue, DeletesKey,
                  others, histories
    <3> QED BY <1>1, <3>1
  <2>3. ASSUME NEW m, NEW p, EditsPrice(m, p)
        PROVE  Outnumbered'
    <3>1. UNCHANGED <<rows, came, lost, writer, excuses>>
      BY <2>3 DEF EditsPrice, others, histories
    <3> QED BY <1>1, <3>1
  <2> QED BY <1>8, <2>1, <2>2, <2>3 DEF Manages
<1>9. CASE Restarts
  BY <1>9 DEF Restarts, Outnumbered
<1>10. CASE UNCHANGED vars
  BY <1>1, <1>10 DEF vars
<1> QED BY <1>2, <1>3, <1>4, <1>5, <1>6, <1>7, <1>8, <1>9, <1>10, Steps DEF Works

-----------------------------------------------------------------------------
(* Sums over finite sets. The recursion MapThenFoldSet stands for exists:  *)
(* a set of sizes where it does not has a least one (Least). The same      *)
(* argument, with a set for the hypothesis, is induction (SetInduction).   *)

Pick(T) == CHOOSE x \in T : TRUE
IsIter(it, f, S) ==
  it = [s \in SUBSET S |-> IF s = {} THEN 0 ELSE f[Pick(s)] + it[s \ {Pick(s)}]]

LEMMA SumIs == ASSUME NEW f, NEW S PROVE SumOver(f, S) = (CHOOSE it : IsIter(it, f, S))[S]
BY DEF SumOver, MapThenFoldSet, IsIter, Pick

Less == OpToRel(<, Nat)
LEMMA LessIs == \A m, n \in Nat : <<m, n>> \in Less <=> m < n
BY DEF Less, OpToRel

LEMMA LessFounded == IsWellFoundedOn(Less, Nat)
BY NatLessThanWellFounded DEF Less

LEMMA Least == ASSUME NEW T, T \subseteq Nat, T # {} PROVE \E n \in T : \A m \in T : n <= m
<1>1. \E n \in T : \A m \in T : ~(<<m, n>> \in Less)
  BY LessFounded, WFMin
<1>2. PICK n \in T : \A m \in T : ~(<<m, n>> \in Less)
  BY <1>1
<1>3. n \in Nat /\ \A m \in T : m \in Nat
  OBVIOUS
<1>4. ASSUME NEW m \in T PROVE ~(m < n)
  <2>1. ~(<<m, n>> \in Less) /\ m \in Nat
    BY <1>2
  <2>2. <<m, n>> \in Less <=> m < n
    BY ONLY <1>3, <2>1, LessIs
  <2> QED BY <2>1, <2>2
<1>5. \A m \in T : n <= m
  <2> SUFFICES ASSUME NEW m \in T PROVE n <= m
    OBVIOUS
  <2>1. ~(m < n) /\ m \in Nat /\ n \in Nat
    BY <1>3, <1>4
  <2> QED BY <2>1
<1> QED BY <1>5

\* Induction over the subsets of a finite set: what holds of a set when it holds
\* of its proper subsets holds of all.
LEMMA SetInduction ==
  ASSUME NEW S, IsFiniteSet(S), NEW Good,
         \A U \in SUBSET S : (\A V \in SUBSET U : V # U => V \in Good) => U \in Good
  PROVE  \A U \in SUBSET S : U \in Good
<1> DEFINE Bad == {n \in Nat : \E U \in SUBSET S : Cardinality(U) = n /\ U \notin Good}
<1>1. SUFFICES ASSUME NEW U \in SUBSET S, U \notin Good PROVE FALSE
  OBVIOUS
<1>2. ASSUME NEW V \in SUBSET S PROVE IsFiniteSet(V) /\ Cardinality(V) \in Nat
  BY <1>2, FS_Subset, FS_CardinalityType
<1>3. Cardinality(U) \in Bad
  BY <1>1, <1>2
<1>4. \E n \in Bad : \A m \in Bad : n <= m
  <2>1. Bad \subseteq Nat /\ Bad # {}
    BY <1>3
  <2> HIDE DEF Bad
  <2> QED BY <2>1, Least
<1>5. PICK n \in Bad : \A m \in Bad : n <= m
  BY <1>4
<1>6. PICK W \in SUBSET S : Cardinality(W) = n /\ W \notin Good
  BY <1>5
<1>7. ASSUME NEW V \in SUBSET W, V # W PROVE V \in Good
  <2>1. IsFiniteSet(W) /\ IsFiniteSet(V) /\ Cardinality(V) \in Nat /\ Cardinality(W) \in Nat
    BY <1>2
  <2>2. Cardinality(V) < n
    BY <1>6, <1>7, <2>1, FS_Subset
  <2>3. Cardinality(V) \notin Bad
    BY <1>5, <1>6, <2>1, <2>2
  <2> QED BY <2>1, <2>3
<1> QED BY <1>6, <1>7

\* The part of the recursion over sets of at most n elements.
Part(S, n) == {s \in SUBSET S : Cardinality(s) <= n}
IsPart(it, f, S, n) ==
  it = [s \in Part(S, n) |-> IF s = {} THEN 0 ELSE f[Pick(s)] + it[s \ {Pick(s)}]]

LEMMA PartExists ==
  ASSUME NEW S, IsFiniteSet(S), NEW f, NEW k \in Nat
  PROVE  \E it : IsPart(it, f, S, k)
<1> DEFINE Bad == {n \in Nat : ~\E it : IsPart(it, f, S, n)}
<1>1. SUFFICES ASSUME Bad # {} PROVE FALSE
  OBVIOUS
<1>2. \E n \in Bad : \A m \in Bad : n <= m
  <2>1. Bad \subseteq Nat
    OBVIOUS
  <2> HIDE DEF Bad
  <2> QED BY <1>1, <2>1, Least
<1>3. PICK n \in Bad : \A m \in Bad : n <= m
  BY <1>2
<1>4. ASSUME NEW V \in SUBSET S
      PROVE  /\ IsFiniteSet(V) /\ Cardinality(V) \in Nat /\ (Cardinality(V) = 0 <=> V = {})
             /\ V # {} => Pick(V) \in V /\ Cardinality(V \ {Pick(V)}) = Cardinality(V) - 1
  <2>1. IsFiniteSet(V) /\ Cardinality(V) \in Nat /\ (Cardinality(V) = 0 <=> V = {})
    BY FS_Subset, FS_CardinalityType, FS_EmptySet
  <2>2. V # {} => Pick(V) \in V
    BY DEF Pick
  <2> QED BY <2>1, <2>2, FS_RemoveElement
<1>5. CASE n = 0
  <2> DEFINE it == [s \in Part(S, 0) |-> 0]
  <2>1. \A s \in Part(S, 0) : s = {}
    <3> TAKE s \in Part(S, 0)
    <3>1. s \in SUBSET S /\ Cardinality(s) <= 0
      BY DEF Part
    <3>2. Cardinality(s) \in Nat /\ (Cardinality(s) = 0 <=> s = {})
      BY <1>4, <3>1
    <3>3. Cardinality(s) = 0
      BY <3>1, <3>2
    <3> QED BY <3>2, <3>3
  <2>2. IsPart(it, f, S, 0)
    BY <2>1 DEF IsPart
  <2> QED BY <1>3, <1>5, <2>2
<1>6. CASE n # 0
  <2>1. n - 1 \in Nat /\ n - 1 \notin Bad /\ n \in Nat
    <3>1. n \in Nat
      BY <1>3
    <3>2. n - 1 \in Nat /\ ~(n <= n - 1)
      BY <1>6, <3>1
    <3> QED BY <1>3, <3>1, <3>2
  <2>2. PICK g : IsPart(g, f, S, n - 1)
    BY <2>1
  <2> DEFINE h == [s \in Part(S, n) |-> IF s = {} THEN 0 ELSE f[Pick(s)] + g[s \ {Pick(s)}]]
  <2>3. ASSUME NEW s \in Part(S, n), s # {}
        PROVE  h[s \ {Pick(s)}] = g[s \ {Pick(s)}]
    <3> DEFINE u == s \ {Pick(s)}
    <3>1. s \in SUBSET S /\ Cardinality(s) <= n
      BY DEF Part
    <3>2. u \in SUBSET S /\ Cardinality(u) = Cardinality(s) - 1 /\ Cardinality(s) \in Nat
      BY <1>4, <2>3, <3>1
    <3>3. Cardinality(u) <= n - 1 /\ Cardinality(u) <= n
      BY <2>1, <3>1, <3>2
    <3>4. u \in Part(S, n - 1) /\ u \in Part(S, n)
      BY <3>2, <3>3 DEF Part
    <3> HIDE DEF u
    <3>5. h[u] = IF u = {} THEN 0 ELSE f[Pick(u)] + g[u \ {Pick(u)}]
      BY <3>4
    <3>6. g[u] = IF u = {} THEN 0 ELSE f[Pick(u)] + g[u \ {Pick(u)}]
      BY <2>2, <3>4 DEF IsPart
    <3>7. h[u] = g[u]
      BY <3>5, <3>6
    <3> QED BY <3>7 DEF u
  <2>4. h = [s \in Part(S, n) |-> IF s = {} THEN 0 ELSE f[Pick(s)] + h[s \ {Pick(s)}]]
    BY <2>3
  <2> HIDE DEF h
  <2>5. IsPart(h, f, S, n)
    BY <2>4 DEF IsPart
  <2> QED BY <1>3, <2>5
<1> QED BY <1>5, <1>6

LEMMA IterExists ==
  ASSUME NEW S, IsFiniteSet(S), NEW f
  PROVE  \E it : IsIter(it, f, S)
<1>1. Cardinality(S) \in Nat
  BY FS_CardinalityType
<1>2. Part(S, Cardinality(S)) = SUBSET S
  BY FS_Subset DEF Part
<1>3. PICK it : IsPart(it, f, S, Cardinality(S))
  BY <1>1, PartExists
<1> QED BY <1>2, <1>3 DEF IsPart, IsIter

Iter(f, S) == CHOOSE it : IsIter(it, f, S)

LEMMA IterIs ==
  ASSUME NEW S, IsFiniteSet(S), NEW f, NEW U \in SUBSET S
  PROVE  Iter(f, S)[U] = IF U = {} THEN 0 ELSE f[Pick(U)] + Iter(f, S)[U \ {Pick(U)}]
<1>1. IsIter(Iter(f, S), f, S)
  BY IterExists DEF Iter
<1> QED BY <1>1 DEF IsIter

LEMMA SumOfPart ==
  ASSUME NEW S, IsFiniteSet(S), NEW f, NEW T \in SUBSET S
  PROVE  SumOver(f, T) = Iter(f, S)[T]
<1> DEFINE Good == {U \in SUBSET T : Iter(f, T)[U] = Iter(f, S)[U]}
<1>1. IsFiniteSet(T)
  BY FS_Subset
<1>2. ASSUME NEW U \in SUBSET T, \A V \in SUBSET U : V # U => V \in Good
      PROVE  U \in Good
  <2>1. CASE U = {}
    BY <1>1, <2>1, IterIs
  <2>2. CASE U # {}
    <3>1. Pick(U) \in U
      BY <2>2 DEF Pick
    <3>2. Iter(f, T)[U \ {Pick(U)}] = Iter(f, S)[U \ {Pick(U)}]
      BY <1>2, <3>1
    <3>3. /\ Iter(f, T)[U] = f[Pick(U)] + Iter(f, T)[U \ {Pick(U)}]
          /\ Iter(f, S)[U] = f[Pick(U)] + Iter(f, S)[U \ {Pick(U)}]
      BY <1>1, <2>2, IterIs
    <3> QED BY <3>2, <3>3
  <2> QED BY <2>1, <2>2
<1> HIDE DEF Good
<1>3. T \in Good
  BY <1>1, <1>2, SetInduction
<1> QED BY <1>3, SumIs DEF Good, Iter

LEMMA SumStep ==
  ASSUME NEW S, IsFiniteSet(S), NEW f
  PROVE  /\ S = {} => SumOver(f, S) = 0
         /\ S # {} => Pick(S) \in S /\ SumOver(f, S) = f[Pick(S)] + SumOver(f, S \ {Pick(S)})
<1>1. SumOver(f, S) = Iter(f, S)[S] /\ SumOver(f, S \ {Pick(S)}) = Iter(f, S)[S \ {Pick(S)}]
  BY SumOfPart
<1>2. S # {} => Pick(S) \in S
  BY DEF Pick
<1> QED BY <1>1, <1>2, IterIs

LEMMA SumType ==
  ASSUME NEW D, IsFiniteSet(D), NEW f \in [D -> Int], NEW S \in SUBSET D
  PROVE  SumOver(f, S) \in Int
<1> DEFINE Good == {U \in SUBSET D : SumOver(f, U) \in Int}
<1>1. ASSUME NEW U \in SUBSET D, \A V \in SUBSET U : V # U => V \in Good
      PROVE  U \in Good
  <2>1. IsFiniteSet(U)
    BY FS_Subset
  <2>2. CASE U = {}
    <3>1. SumOver(f, U) = 0
      BY <2>1, <2>2, SumStep
    <3> QED BY <3>1
  <2>3. CASE U # {}
    <3>1. Pick(U) \in U /\ SumOver(f, U) = f[Pick(U)] + SumOver(f, U \ {Pick(U)})
      BY <2>1, <2>3, SumStep
    <3>2. SumOver(f, U \ {Pick(U)}) \in Int
      BY <1>1, <3>1
    <3>3. f[Pick(U)] \in Int
      BY <3>1
    <3>4. SumOver(f, U) \in Int
      BY <3>1, <3>2, <3>3
    <3> QED BY <3>4
  <2> QED BY <2>2, <2>3
<1> HIDE DEF Good
<1>2. \A U \in SUBSET D : (\A V \in SUBSET U : V # U => V \in Good) => U \in Good
  BY <1>1
<1>3. \A U \in SUBSET D : U \in Good
  BY ONLY IsFiniteSet(D), <1>2, SetInduction
<1> QED BY <1>3 DEF Good

\* Any element may be the first.
LEMMA SumRemove ==
  ASSUME NEW D, IsFiniteSet(D), NEW f \in [D -> Int], NEW S \in SUBSET D, NEW x \in S
  PROVE  SumOver(f, S) = f[x] + SumOver(f, S \ {x})
<1> DEFINE Good == {U \in SUBSET D : \A y \in U : SumOver(f, U) = f[y] + SumOver(f, U \ {y})}
<1>1. ASSUME NEW U \in SUBSET D, \A V \in SUBSET U : V # U => V \in Good
      PROVE  U \in Good
  <2> SUFFICES ASSUME NEW y \in U PROVE SumOver(f, U) = f[y] + SumOver(f, U \ {y})
    OBVIOUS
  <2> DEFINE p == Pick(U)
  <2>1. IsFiniteSet(U)
    BY FS_Subset
  <2>2. p \in U /\ SumOver(f, U) = f[p] + SumOver(f, U \ {p})
    BY <2>1, SumStep
  <2> HIDE DEF p
  <2>3. CASE y = p
    BY <2>2, <2>3
  <2>4. CASE y # p
    <3>1. U \ {p} \in Good /\ U \ {y} \in Good
      BY <1>1, <2>2
    <3>2. y \in U \ {p} /\ p \in U \ {y}
      BY <2>2, <2>4
    <3>3. SumOver(f, U \ {p}) = f[y] + SumOver(f, (U \ {p}) \ {y})
      BY <3>1, <3>2
    <3>4. SumOver(f, U \ {y}) = f[p] + SumOver(f, (U \ {y}) \ {p})
      BY <3>1, <3>2
    <3>5. (U \ {p}) \ {y} = (U \ {y}) \ {p}
      OBVIOUS
    <3>6. SumOver(f, (U \ {y}) \ {p}) \in Int /\ f[p] \in Int /\ f[y] \in Int
      BY <2>2, SumType
    <3> DEFINE rest == SumOver(f, (U \ {y}) \ {p})
    <3>7. f[p] + (f[y] + rest) = f[y] + (f[p] + rest)
      BY <3>6
    <3> QED BY <2>2, <3>3, <3>4, <3>5, <3>7
  <2> QED BY <2>3, <2>4
<1> HIDE DEF Good
<1>2. S \in Good
  BY <1>1, SetInduction
<1> QED BY <1>2 DEF Good

LEMMA SumPlus ==
  ASSUME NEW D, IsFiniteSet(D), NEW f \in [D -> Int], NEW g \in [D -> Int], NEW h \in [D -> Int],
         \A x \in D : h[x] = f[x] + g[x], NEW S \in SUBSET D
  PROVE  SumOver(h, S) = SumOver(f, S) + SumOver(g, S)
<1> DEFINE Good == {U \in SUBSET D : SumOver(h, U) = SumOver(f, U) + SumOver(g, U)}
<1>1. ASSUME NEW U \in SUBSET D, \A V \in SUBSET U : V # U => V \in Good
      PROVE  U \in Good
  <2>1. IsFiniteSet(U)
    BY FS_Subset
  <2>2. CASE U = {}
    <3>1. SumOver(h, U) = 0 /\ SumOver(f, U) = 0 /\ SumOver(g, U) = 0
      BY <2>1, <2>2, SumStep
    <3> QED BY <3>1
  <2>3. CASE U # {}
    <3> DEFINE p == Pick(U)
    <3>1. p \in U /\ SumOver(h, U) = h[p] + SumOver(h, U \ {p})
          /\ SumOver(f, U) = f[p] + SumOver(f, U \ {p}) /\ SumOver(g, U) = g[p] + SumOver(g, U \ {p})
      BY <2>1, <2>3, SumStep
    <3> HIDE DEF p
    <3>2. SumOver(h, U \ {p}) = SumOver(f, U \ {p}) + SumOver(g, U \ {p})
      BY <1>1, <3>1
    <3>3. /\ f[p] \in Int /\ g[p] \in Int /\ h[p] = f[p] + g[p]
          /\ SumOver(f, U \ {p}) \in Int /\ SumOver(g, U \ {p}) \in Int
      BY <3>1, SumType
    <3>4. SumOver(h, U) = SumOver(f, U) + SumOver(g, U)
      BY <3>1, <3>2, <3>3
    <3> QED BY <3>4
  <2> QED BY <2>2, <2>3
<1> HIDE DEF Good
<1>2. S \in Good
  BY <1>1, SetInduction
<1> QED BY <1>2 DEF Good

LEMMA SumNat ==
  ASSUME NEW D, IsFiniteSet(D), NEW f \in [D -> Int], NEW S \in SUBSET D, \A x \in S : f[x] >= 0
  PROVE  SumOver(f, S) >= 0
<1> DEFINE Good == {U \in SUBSET S : SumOver(f, U) >= 0}
<1>1. IsFiniteSet(S)
  BY FS_Subset
<1>2. ASSUME NEW U \in SUBSET S, \A V \in SUBSET U : V # U => V \in Good
      PROVE  U \in Good
  <2>1. IsFiniteSet(U)
    BY <1>1, FS_Subset
  <2>2. CASE U = {}
    <3>1. SumOver(f, U) = 0
      BY <2>1, <2>2, SumStep
    <3> QED BY <3>1
  <2>3. CASE U # {}
    <3> DEFINE p == Pick(U)
    <3>1. p \in U /\ SumOver(f, U) = f[p] + SumOver(f, U \ {p})
      BY <2>1, <2>3, SumStep
    <3> HIDE DEF p
    <3>2. SumOver(f, U \ {p}) >= 0
      BY <1>2, <3>1
    <3>3. f[p] \in Int /\ f[p] >= 0 /\ SumOver(f, U \ {p}) \in Int
      BY <3>1, SumType
    <3>4. SumOver(f, U) >= 0
      BY <3>1, <3>2, <3>3
    <3> QED BY <3>4
  <2> QED BY <2>2, <2>3
<1> HIDE DEF Good
<1>3. S \in Good
  BY <1>1, <1>2, SetInduction
<1> QED BY <1>3 DEF Good

\* Sums of functions that agree on the set.
LEMMA SumSame ==
  ASSUME NEW S, IsFiniteSet(S), NEW f, NEW g, \A x \in S : f[x] = g[x]
  PROVE  SumOver(f, S) = SumOver(g, S)
<1> DEFINE Good == {U \in SUBSET S : SumOver(f, U) = SumOver(g, U)}
<1>1. ASSUME NEW U \in SUBSET S, \A V \in SUBSET U : V # U => V \in Good
      PROVE  U \in Good
  <2>1. IsFiniteSet(U)
    BY FS_Subset
  <2>2. CASE U = {}
    BY <2>1, <2>2, SumStep
  <2>3. CASE U # {}
    <3> DEFINE p == Pick(U)
    <3>1. p \in U /\ SumOver(f, U) = f[p] + SumOver(f, U \ {p}) /\ SumOver(g, U) = g[p] + SumOver(g, U \ {p})
      BY <2>1, <2>3, SumStep
    <3> HIDE DEF p
    <3>2. SumOver(f, U \ {p}) = SumOver(g, U \ {p})
      BY <1>1, <3>1
    <3>3. SumOver(f, U) = SumOver(g, U)
      BY <3>1, <3>2
    <3> QED BY <3>3
  <2> QED BY <2>2, <2>3
<1> HIDE DEF Good
<1>2. S \in Good
  BY <1>1, SetInduction
<1> QED BY <1>2 DEF Good

\* One term changes.
LEMMA SumChange ==
  ASSUME NEW D, IsFiniteSet(D), NEW f \in [D -> Int], NEW g \in [D -> Int], NEW x \in D,
         \A y \in D \ {x} : g[y] = f[y]
  PROVE  SumOver(g, D) = SumOver(f, D) - f[x] + g[x]
<1>1. SumOver(g, D) = g[x] + SumOver(g, D \ {x}) /\ SumOver(f, D) = f[x] + SumOver(f, D \ {x})
  BY SumRemove
<1>2. SumOver(g, D \ {x}) = SumOver(f, D \ {x})
  BY FS_Subset, SumSame
<1>3. f[x] \in Int /\ g[x] \in Int /\ SumOver(f, D \ {x}) \in Int
  BY SumType
<1> QED BY <1>1, <1>2, <1>3

\* Terms that grow make a sum that grows.
LEMMA SumGrows ==
  ASSUME NEW D, IsFiniteSet(D), NEW f \in [D -> Int], NEW g \in [D -> Int],
         \A y \in D : f[y] <= g[y]
  PROVE  SumOver(f, D) <= SumOver(g, D)
<1> DEFINE h == [y \in D |-> g[y] - f[y]]
<1>1. h \in [D -> Int] /\ (\A y \in D : h[y] >= 0)
  OBVIOUS
<1>2. \A y \in D : g[y] = f[y] + h[y]
  OBVIOUS
<1> HIDE DEF h
<1>3. SumOver(g, D) = SumOver(f, D) + SumOver(h, D)
  BY <1>1, <1>2, SumPlus
<1>4. SumOver(h, D) >= 0 /\ SumOver(h, D) \in Int /\ SumOver(f, D) \in Int
  BY <1>1, SumNat, SumType
<1> QED BY <1>3, <1>4

LEMMA SumMember ==
  ASSUME NEW D, IsFiniteSet(D), NEW f \in [D -> Int], \A y \in D : f[y] >= 0, NEW x \in D
  PROVE  f[x] <= SumOver(f, D)
<1>1. SumOver(f, D) = f[x] + SumOver(f, D \ {x})
  BY SumRemove
<1>2. SumOver(f, D \ {x}) >= 0 /\ SumOver(f, D \ {x}) \in Int /\ f[x] \in Int
  <2>1. D \ {x} \in SUBSET D /\ \A y \in D \ {x} : f[y] >= 0
    OBVIOUS
  <2> QED BY <2>1, SumNat, SumType
<1> QED BY <1>1, <1>2

\* A sum of nothing.
LEMMA SumNothing ==
  ASSUME NEW D, IsFiniteSet(D), NEW f \in [D -> Int], \A x \in D : f[x] = 0
  PROVE  SumOver(f, D) = 0
<1>1. \A x \in D : f[x] = f[x] + f[x]
  OBVIOUS
<1>2. SumOver(f, D) = SumOver(f, D) + SumOver(f, D)
  BY <1>1, SumPlus
<1>3. SumOver(f, D) \in Int
  <2>1. D \in SUBSET D
    OBVIOUS
  <2> QED BY <2>1, SumType
<1> DEFINE n == SumOver(f, D)
<1>4. n \in Int /\ n = n + n
  BY <1>2, <1>3
<1> HIDE DEF n
<1>5. n = 0
  BY <1>4
<1> QED BY <1>5 DEF n

-----------------------------------------------------------------------------
(* What the key pays for                                                   *)

LEMMA KeptDriver ==
  ASSUME [Next]_vars
  PROVE  UNCHANGED <<driver, writer>> /\ excuses \subseteq excuses'
<1>1. ASSUME NEW s \in Slots, Works(s)
      PROVE  UNCHANGED <<driver, writer>> /\ excuses \subseteq excuses'
  BY <1>1 DEF Works, Inserts, Cleans, Snapshots, Resolves, Updates, Charges, ReadsCharge, MarksCharge,
              Pays, Fails
<1>2. CASE Begins
  BY <1>2 DEF Begins, BeginSnapshot, BeginRequest, BeginResponse
<1>3. CASE Manages
  <2>1. CASE CleanupDue \/ Clears
    BY <2>1 DEF CleanupDue, Clears, others
  <2>2. CASE DeletesKey
    BY <2>2 DEF DeletesKey, others
  <2>3. ASSUME NEW m, NEW p, EditsPrice(m, p)
        PROVE  UNCHANGED <<driver, writer>> /\ excuses \subseteq excuses'
    BY <2>3 DEF EditsPrice, others
  <2> QED BY <1>3, <2>1, <2>2, <2>3 DEF Manages
<1>4. CASE Restarts
  BY <1>4 DEF Restarts
<1>5. CASE UNCHANGED vars
  BY <1>5 DEF vars
<1> QED BY <1>1, <1>2, <1>3, <1>4, <1>5, Steps

\* What the task of slot s becomes.
LEMMA WorksPc ==
  ASSUME TypeOK, NEW s \in Slots, Works(s)
  PROVE  \/ tasks'[s] = Idle
         \/ tasks'[s].pc \notin {"mark", "pay"}
         \/ /\ ReadsCharge(s) /\ tasks'[s].pc = "mark" /\ rows[tasks[s].req] # NoRow
            /\ tasks'[s].read = rows[tasks[s].req].charged
         \/ /\ MarksCharge(s) /\ tasks[s].pc = "mark" /\ tasks'[s] = [tasks[s] EXCEPT !.pc = "pay"]
            /\ Delta(tasks[s]) # 0
<1> DEFINE t == tasks[s]
<1>1. t # Idle /\ t \in Task
  BY WorksOn, AtWork
<1>2. CASE Inserts(s)
  <2>1. tasks'[s] = Idle \/ tasks'[s] = Fresh(t.req, "clean")
    BY <1>2 DEF Inserts, Ends, TypeOK
  <2>2. Fresh(t.req, "clean").pc = "clean"
    BY DEF Fresh
  <2> QED BY <2>1, <2>2
<1>3. CASE Cleans(s) \/ Snapshots(s) \/ Charges(s) \/ Pays(s) \/ Fails(s)
  BY <1>3 DEF Cleans, Snapshots, Charges, Pays, Fails, Ends, TypeOK
<1>4. CASE Resolves(s)
  <2> DEFINE p == IF rows[t.req] = NoRow THEN 0 ELSE FirstPrice(<<t.answer, ReqModel>>)
  <2>1. tasks'[s] = [t EXCEPT !.pc = "update", !.price = p]
    BY <1>4 DEF Resolves, TypeOK
  <2> HIDE DEF p
  <2>2. tasks'[s].pc = "update"
    BY <1>1, <2>1 DEF Task
  <2> QED BY <2>2
<1>5. CASE Updates(s)
  <2>1. tasks'[s] = [Fresh(t.req, "charge") EXCEPT !.price = t.price]
    BY <1>5 DEF Updates, TypeOK
  <2>2. tasks'[s].pc = "charge"
    BY <2>1 DEF Fresh
  <2> QED BY <2>2
<1>6. CASE ReadsCharge(s)
  <2>1. CASE rows[t.req] = NoRow
    BY <1>6, <2>1 DEF ReadsCharge, Ends, TypeOK
  <2>2. CASE rows[t.req] # NoRow
    <3>1. tasks'[s] = [t EXCEPT !.read = rows[t.req].charged, !.pc = "mark"]
      BY <1>6, <2>2 DEF ReadsCharge, TypeOK
    <3>2. tasks'[s].pc = "mark" /\ tasks'[s].read = rows[t.req].charged
      BY <1>1, <3>1 DEF Task
    <3> QED BY <1>6, <2>2, <3>2
  <2> QED BY <2>1, <2>2
<1>7. CASE MarksCharge(s)
  <2>1. CASE Delta(t) = 0
    BY <1>7, <2>1 DEF MarksCharge, Ends, TypeOK
  <2>2. CASE Delta(t) # 0
    BY <1>7, <2>2 DEF MarksCharge, Goes, TypeOK
  <2> QED BY <2>1, <2>2
<1> QED BY <1>2, <1>3, <1>4, <1>5, <1>6, <1>7 DEF Works

\* A save begins with a task that neither marks nor pays.
LEMMA BegunAs ==
  ASSUME TypeOK, Begins
  PROVE  /\ UNCHANGED <<rows, gone, key>>
         /\ \E s \in Slots, r \in Requests, task \in Task :
              Begin(s, r, task) /\ task.pc \notin {"mark", "pay"}
<1>1. UNCHANGED <<rows, gone, key>>
  BY BeginsLeaves
<1>2. PICK s \in Slots, r \in Requests :
        \/ BeginSnapshot(s, r)
        \/ \E place \in Places : BeginRequest(s, r, place)
        \/ \E outcome \in Outcomes : BeginResponse(s, r, outcome)
  BY DEF Begins
<1>3. \E task \in Task : Begin(s, r, task) /\ task.pc \notin {"mark", "pay"}
  <2>1. CASE BeginSnapshot(s, r)
    <3>1. Fresh(r, "snapshot") \in Task /\ Fresh(r, "snapshot").pc = "snapshot"
      BY FreshType DEF Fresh
    <3> QED BY <2>1, <3>1 DEF BeginSnapshot
  <2>2. ASSUME NEW place \in Places, BeginRequest(s, r, place)
        PROVE  \E task \in Task : Begin(s, r, task) /\ task.pc \notin {"mark", "pay"}
    BY <2>2, BeginsAttempt
  <2>3. ASSUME NEW outcome \in Outcomes, BeginResponse(s, r, outcome)
        PROVE  \E task \in Task : Begin(s, r, task) /\ task.pc \notin {"mark", "pay"}
    BY <2>3, BeginsAnswer
  <2> QED BY <1>2, <2>1, <2>2, <2>3
<1> QED BY <1>1, <1>3

LEMMA StatementStep ==
  ASSUME TypeOK, [Next]_vars, NEW q \in Slots, Statement(q)
  PROVE  Statement(q)'
<1>1. driver' = driver
  BY KeptDriver
<1>2. ASSUME tasks'[q] = Idle \/ tasks'[q] = tasks[q] \/ tasks'[q].pc \notin {"mark", "pay"}
      PROVE  Statement(q)'
  BY <1>1, <1>2 DEF Statement
<1>3. ASSUME NEW s \in Slots, Works(s)
      PROVE  Statement(q)'
  <2>1. CASE q # s
    BY <1>2, <1>3, <2>1, WorksOn
  <2>2. CASE q = s
    <3>1. ReadsCharge(s) => driver = "sqlite"
      BY DEF ReadsCharge
    <3>2. MarksCharge(s) => tasks[s] # Idle
      BY DEF MarksCharge
    <3> QED BY <1>1, <1>2, <1>3, <2>2, <3>1, <3>2, WorksPc DEF Statement
  <2> QED BY <2>1, <2>2
<1>4. ASSUME NEW s \in Slots, NEW r \in Requests, NEW task \in Task, Begin(s, r, task),
             task.pc \notin {"mark", "pay"}
      PROVE  Statement(q)'
  BY <1>2, <1>4, BegunAlone
<1>5. CASE Begins
  BY <1>4, <1>5, BegunAs
<1>6. CASE Manages
  BY <1>2, <1>6, ManagesFrame
<1>7. CASE Restarts
  BY <1>2, <1>7 DEF Restarts
<1>8. CASE UNCHANGED vars
  BY <1>2, <1>8 DEF vars
<1> QED BY <1>3, <1>5, <1>6, <1>7, <1>8, Steps

\* A step of slot s writes to the row of its request, or removes rows.
LEMMA RowsElsewhere ==
  ASSUME TypeOK, NEW s \in Slots, Works(s), NEW r \in Requests, r # tasks[s].req
  PROVE  rows'[r] = NoRow \/ rows'[r] = rows[r]
<1>1. CASE Inserts(s)
  BY <1>1 DEF Inserts, TypeOK
<1>2. CASE Cleans(s)
  BY <1>2 DEF Cleans, Remove
<1>3. CASE Snapshots(s)
  BY <1>3 DEF Snapshots, TypeOK
<1>4. CASE Updates(s)
  BY <1>4 DEF Updates, TypeOK
<1>5. CASE Charges(s) \/ MarksCharge(s)
  BY <1>5 DEF Charges, MarksCharge, TypeOK
<1>6. CASE Resolves(s) \/ ReadsCharge(s) \/ Pays(s) \/ Fails(s)
  BY <1>6 DEF Resolves, ReadsCharge, Pays, Fails
<1> QED BY <1>1, <1>2, <1>3, <1>4, <1>5, <1>6 DEF Works

\* The rows that a step of nobody's leaves.
LEMMA RowsManaged ==
  ASSUME Manages, NEW r \in Requests
  PROVE  rows'[r] = NoRow \/ rows'[r] = rows[r]
<1>1. CASE Clears
  BY <1>1 DEF Clears, Remove
<1>2. CASE CleanupDue \/ DeletesKey
  BY <1>2 DEF CleanupDue, DeletesKey
<1>3. ASSUME NEW m, NEW p, EditsPrice(m, p)
      PROVE  rows'[r] = rows[r]
  BY <1>3 DEF EditsPrice
<1> QED BY <1>1, <1>2, <1>3 DEF Manages

LEMMA SettlingLasts ==
  ASSUME [Next]_vars
  PROVE  Settling' => Settling
BY KeptDriver DEF Settling

LEMMA ReadsStep ==
  ASSUME TypeOK, Alone, [Next]_vars, NEW q \in Slots, Statement(q), Reads(q)
  PROVE  Reads(q)'
<1> DEFINE r == tasks'[q].req
<1> SUFFICES ASSUME Settling', tasks'[q] # Idle, rows'[r] # NoRow
             PROVE  /\ tasks'[q].pc = "mark" => tasks'[q].read = rows'[r].charged
                    /\ tasks'[q].pc = "pay" => rows'[r].charged = tasks'[q].price
  BY DEF Reads
<1>1. Settling /\ UNCHANGED <<driver, writer>>
  BY SettlingLasts, KeptDriver
<1>2. SUFFICES ASSUME tasks'[q].pc \in {"mark", "pay"}
               PROVE  /\ tasks'[q].pc = "mark" => tasks'[q].read = rows'[r].charged
                      /\ tasks'[q].pc = "pay" => rows'[r].charged = tasks'[q].price
  OBVIOUS
<1>3. writer # "standalone"
  <2>1. Statement(q)'
    BY StatementStep
  <2> QED BY <1>1, <1>2, <2>1 DEF Statement, Settling
<1>4. ASSUME tasks'[q] = tasks[q], rows'[r] = rows[r]
      PROVE  /\ tasks'[q].pc = "mark" => tasks'[q].read = rows'[r].charged
             /\ tasks'[q].pc = "pay" => rows'[r].charged = tasks'[q].price
  BY <1>1, <1>4 DEF Reads
<1>5. ASSUME NEW s \in Slots, Works(s)
      PROVE  /\ tasks'[q].pc = "mark" => tasks'[q].read = rows'[r].charged
             /\ tasks'[q].pc = "pay" => rows'[r].charged = tasks'[q].price
  <2>1. CASE q # s
    <3>1. tasks'[q] = tasks[q] /\ tasks[s] # Idle /\ tasks[q] # Idle /\ tasks[q].req \in Requests
      BY <1>5, <2>1, WorksOn, AtWork
    <3>2. tasks[q].req # tasks[s].req
      BY <1>3, <2>1, <3>1 DEF Alone
    <3> QED BY <1>4, <1>5, <3>1, <3>2, RowsElsewhere
  <2>2. CASE q = s
    <3>1. tasks[s] # Idle /\ tasks[s] \in Task /\ tasks[s].req \in Requests /\ r = tasks[s].req
      BY <1>5, <2>2, WorksOn, AtWork DEF GoesOn
    <3>2. CASE ReadsCharge(s) /\ tasks'[s].pc = "mark" /\ tasks'[s].read = rows[tasks[s].req].charged
      <4>1. rows' = rows
        BY <3>2 DEF ReadsCharge
      <4> QED BY <2>2, <3>1, <3>2, <4>1
    <3>3. CASE MarksCharge(s) /\ tasks'[s] = [tasks[s] EXCEPT !.pc = "pay"]
      <4>1. rows' = IF rows[r] = NoRow THEN rows ELSE [rows EXCEPT ![r].charged = tasks[s].price]
        BY <3>1, <3>3 DEF MarksCharge
      <4>2. rows[r] \in Row /\ rows'[r] = [rows[r] EXCEPT !.charged = tasks[s].price]
        BY <3>1, <4>1 DEF TypeOK
      <4>3. rows'[r].charged = tasks[s].price
        BY <4>2 DEF Row
      <4>4. tasks'[s].price = tasks[s].price /\ tasks'[s].pc = "pay"
        BY <3>1, <3>3 DEF Task
      <4> QED BY <2>2, <4>3, <4>4
    <3> QED BY <1>2, <1>5, <2>2, <3>2, <3>3, WorksPc
  <2> QED BY <2>1, <2>2
<1>6. ASSUME NEW s \in Slots, NEW p \in Requests, NEW task \in Task, Begin(s, p, task),
             task.pc \notin {"mark", "pay"}, rows' = rows
      PROVE  /\ tasks'[q].pc = "mark" => tasks'[q].read = rows'[r].charged
             /\ tasks'[q].pc = "pay" => rows'[r].charged = tasks'[q].price
  BY <1>2, <1>4, <1>6, BegunAlone
<1>7. CASE Begins
  BY <1>6, <1>7, BegunAs
<1>8. CASE Manages
  <2>1. tasks' = tasks /\ tasks[q].req \in Requests
    BY <1>8, ManagesFrame, AtWork
  <2> QED BY <1>4, <1>8, <2>1, RowsManaged
<1>9. CASE Restarts
  BY <1>9 DEF Restarts
<1>10. CASE UNCHANGED vars
  BY <1>4, <1>10 DEF vars
<1> QED BY <1>5, <1>7, <1>8, <1>9, <1>10, Steps

SumsTyped ==
  /\ Charged \in [Requests -> Int] /\ (\A r \in Requests : Charged[r] >= 0)
  /\ Free \in [Requests -> Int] /\ (\A r \in Requests : Free[r] >= 0)
  /\ Owes \in [Slots -> Int]
  /\ Unpaid \in [Slots -> Int] /\ (\A s \in Slots : Unpaid[s] >= 0)

LEMMA SumTypes == TypeOK => SumsTyped
<1> SUFFICES ASSUME TypeOK PROVE SumsTyped
  OBVIOUS
<1>1. ASSUME NEW r \in Requests PROVE Charge(r) \in Nat
  <2>1. rows[r] # NoRow => rows[r] \in Row
    BY DEF TypeOK
  <2> QED BY <2>1 DEF Charge, Row
<1>2. ASSUME NEW s \in Slots, Paying(s) PROVE Delta(tasks[s]) \in Int /\ tasks[s].read \in Nat
  <2>1. tasks[s].price \in Nat /\ tasks[s].read \in Nat
    BY <1>2, AtWork DEF Paying
  <2> QED BY <2>1 DEF Delta
<1>3. Charged \in [Requests -> Int] /\ (\A r \in Requests : Charged[r] >= 0)
  BY <1>1 DEF Charged
<1>4. Free \in [Requests -> Int] /\ (\A r \in Requests : Free[r] >= 0)
  BY <1>1 DEF Free
<1>5. Owes \in [Slots -> Int]
  BY <1>2 DEF Owes
<1>6. Unpaid \in [Slots -> Int] /\ (\A s \in Slots : Unpaid[s] >= 0)
  BY <1>2 DEF Unpaid
<1> QED BY <1>3, <1>4, <1>5, <1>6 DEF SumsTyped

LEMMA SumTypesNext == TypeOK' => SumsTyped'
BY SumTypes, PTL

\* A step that neither charges nor pays.
LEMMA CarriedCovered ==
  ASSUME Covered, gone' = gone, Settling' => Settling,
         key' # NoKey => key # NoKey /\ key'.used = key.used,
         Settling' => \A r \in Requests : Charge(r)' = Charge(r),
         Settling' => \A s \in Slots : /\ Paying(s)' <=> Paying(s)
                                       /\ Paying(s) => tasks'[s] = tasks[s]
  PROVE  Covered'
<1> SUFFICES ASSUME key' # NoKey, Settling'
             PROVE  /\ key'.used + SumOver(Owes', Slots) = gone' + SumOver(Charged', Requests)
                    /\ key'.used >= SumOver(Free', Requests) + SumOver(Unpaid', Slots)
  BY DEF Covered
<1>1. Charged' = Charged
  BY DEF Charged
<1>2. Owes' = Owes /\ Unpaid' = Unpaid
  BY DEF Owes, Unpaid
<1>3. \A r \in Requests : Doing(r, {"pay"})' <=> Doing(r, {"pay"})
  BY DEF Doing, At, Paying
<1>4. Free' = Free
  BY <1>3 DEF Free
<1> QED BY <1>1, <1>2, <1>4 DEF Covered

LEMMA ChargeSet ==
  ASSUME TypeOK, NEW p \in Requests, NEW row \in Row, rows' = [rows EXCEPT ![p] = row]
  PROVE  \A r \in Requests : Charge(r)' = IF r = p THEN row.charged ELSE Charge(r)
<1>1. row # NoRow
  BY NothingAssumption
<1>2. rows'[p] = row /\ \A r \in Requests \ {p} : rows'[r] = rows[r]
  BY DEF TypeOK
<1> QED BY <1>1, <1>2 DEF Charge

\* The statements of a save that leave every charge as it is.
LEMMA ChargesLeft ==
  ASSUME TypeOK, NEW s \in Slots,
         Inserts(s) \/ Snapshots(s) \/ Resolves(s) \/ Updates(s) \/ ReadsCharge(s) \/ Fails(s)
  PROVE  \A r \in Requests : Charge(r)' = Charge(r)
<1> DEFINE t == tasks[s]
           p == t.req
<1>1. t # Idle /\ t \in Task /\ p \in Requests /\ (rows[p] # NoRow => rows[p] \in Row)
  BY AtWork DEF Inserts, Snapshots, Resolves, Updates, ReadsCharge, Fails
<1>2. ASSUME rows' = rows
      PROVE  \A r \in Requests : Charge(r)' = Charge(r)
  BY <1>2 DEF Charge
<1>3. ASSUME NEW row \in Row, rows' = [rows EXCEPT ![p] = row], row.charged = Charge(p)
      PROVE  \A r \in Requests : Charge(r)' = Charge(r)
  BY <1>1, <1>3, ChargeSet
<1>4. CASE Inserts(s)
  <2>1. CASE rows[p] = NoRow
    <3>1. rows' = [rows EXCEPT ![p] = Inserted(t)]
      BY <1>4, <2>1 DEF Inserts
    <3>2. Inserted(t) \in Row /\ Inserted(t).charged = 0
      BY <1>1 DEF Inserted, Row, Task
    <3> QED BY <1>3, <2>1, <3>1, <3>2 DEF Charge
  <2>2. CASE rows[p] # NoRow
    <3>1. rows' = [rows EXCEPT ![p] = Upserted(t, rows[p])]
      BY <1>4, <2>2 DEF Inserts
    <3> QED BY <1>1, <1>3, <2>2, <3>1, UpsertedType DEF Charge
  <2> QED BY <2>1, <2>2
<1>5. CASE Updates(s)
  <2>1. CASE rows[p] = NoRow
    BY <1>2, <1>5, <2>1 DEF Updates
  <2>2. CASE rows[p] # NoRow
    <3>1. rows' = [rows EXCEPT ![p] = Responded(t, rows[p])]
      BY <1>5, <2>2 DEF Updates
    <3> QED BY <1>1, <1>3, <2>2, <3>1, RespondedType DEF Charge
  <2> QED BY <2>1, <2>2
<1>6. CASE Snapshots(s)
  <2>1. CASE rows[p] = NoRow
    BY <1>2, <1>6, <2>1 DEF Snapshots
  <2>2. CASE rows[p] # NoRow
    <3> DEFINE row == [rows[p] EXCEPT !.snap = SnapshotKept(rows[p].snap, calls[p])]
    <3>1. rows' = [rows EXCEPT ![p] = row]
      BY <1>1, <1>6, <2>2 DEF Snapshots, TypeOK
    <3>2. SnapshotKept(rows[p].snap, calls[p]) \in Nat
      BY <1>1, <2>2 DEF SnapshotKept, Row, TypeOK
    <3>3. row \in Row /\ row.charged = rows[p].charged
      BY <1>1, <2>2, <3>2 DEF Row
    <3> HIDE DEF row
    <3> QED BY <1>3, <2>2, <3>1, <3>3 DEF Charge
  <2> QED BY <2>1, <2>2
<1>7. CASE Resolves(s) \/ ReadsCharge(s) \/ Fails(s)
  BY <1>2, <1>7 DEF Resolves, ReadsCharge, Fails
<1> QED BY <1>4, <1>5, <1>6, <1>7

LEMMA LeftCovered ==
  ASSUME TypeOK, Covered, [Next]_vars, NEW s \in Slots, Statement(s),
         Inserts(s) \/ Snapshots(s) \/ Resolves(s) \/ Updates(s) \/ ReadsCharge(s) \/ Fails(s)
  PROVE  Covered'
<1>1. Works(s)
  BY DEF Works
<1>2. gone' = gone /\ key' = key
  BY DEF Inserts, Snapshots, Resolves, Updates, ReadsCharge, Fails, histories, admins
<1>3. ASSUME Settling' PROVE ~Paying(s)
  <2>1. CASE Fails(s)
    <3>1. "failed" \in excuses' /\ driver' = driver
      BY <2>1 DEF Fails
    <3> QED BY <1>3, <3>1 DEF Settling, Statement, Paying
  <2>2. CASE ~Fails(s)
    BY <2>2 DEF Paying, Inserts, Snapshots, Resolves, Updates, ReadsCharge
  <2> QED BY <2>1, <2>2
<1>4. tasks'[s] = Idle \/ tasks'[s].pc # "pay"
  <2>1. CASE Fails(s)
    BY <2>1 DEF Fails, Ends, TypeOK
  <2>2. CASE ~Fails(s)
    <3>1. ~MarksCharge(s)
      BY <2>2 DEF MarksCharge, Inserts, Snapshots, Resolves, Updates, ReadsCharge
    <3> QED BY <1>1, <3>1, WorksPc
  <2> QED BY <2>1, <2>2
<1>5. Settling' => \A q \in Slots : (Paying(q)' <=> Paying(q)) /\ (Paying(q) => tasks'[q] = tasks[q])
  BY <1>1, <1>3, <1>4, WorksOn DEF Paying
<1> QED BY <1>2, <1>5, ChargesLeft, SettlingLasts, CarriedCovered

\* Rows go, and what was charged for them is history.
LEMMA RemovedCovered ==
  ASSUME TypeOK, TypeOK', Covered, NEW dropped, Remove(dropped), key' = key, Settling' => Settling,
         \A s \in Slots : (Paying(s)' <=> Paying(s)) /\ (Paying(s) => tasks'[s] = tasks[s])
  PROVE  Covered'
<1> DEFINE past == [r \in Requests |-> IF r \in dropped THEN Charge(r) ELSE 0]
<1>1. SumsTyped /\ SumsTyped'
  BY SumTypes, SumTypesNext
<1>2. past \in [Requests -> Int] /\ (\A r \in Requests : past[r] >= 0)
      /\ (\A r \in Requests : past[r] = IF r \in dropped THEN Charged[r] ELSE 0)
  BY <1>1 DEF SumsTyped, Charged
<1>3. \A r \in Requests : Charge(r)' = IF r \in dropped THEN 0 ELSE Charge(r)
  BY DEF Remove, Charge
<1>4. \A r \in Requests : Charged'[r] = IF r \in dropped THEN 0 ELSE Charged[r]
  BY <1>3 DEF Charged
<1>5. gone' = gone + SumOver(past, Requests)
  BY DEF Remove, Total
<1> HIDE DEF past
<1>6. IsFiniteSet(Requests)
  BY BoundsAssumption
<1>7. SumOver(Charged, Requests) = SumOver(Charged', Requests) + SumOver(past, Requests)
  <2>1. \A r \in Requests : Charged[r] = Charged'[r] + past[r]
    BY <1>1, <1>2, <1>4 DEF SumsTyped
  <2> QED BY <1>1, <1>2, <1>6, <2>1, SumPlus DEF SumsTyped
<1>8. /\ SumOver(past, Requests) >= 0 /\ SumOver(past, Requests) \in Int
      /\ SumOver(Charged', Requests) \in Int
  BY <1>1, <1>2, <1>6, SumNat, SumType DEF SumsTyped
<1>9. gone' \in Nat
  BY <1>5, <1>8 DEF Covered
<1>10. SumOver(Free', Requests) <= SumOver(Free, Requests)
  <2>1. \A r \in Requests : Doing(r, {"pay"})' <=> Doing(r, {"pay"})
    BY DEF Doing, At, Paying
  <2>2. ASSUME NEW r \in Requests PROVE Free'[r] <= Free[r]
    <3>1. Free[r] = IF Doing(r, {"pay"}) THEN 0 ELSE Charged[r]
      BY DEF Free, Charged
    <3>2. Free'[r] = IF Doing(r, {"pay"}) THEN 0 ELSE Charged'[r]
      BY <2>1 DEF Free, Charged
    <3>3. Charged[r] \in Int /\ Charged[r] >= 0
      BY <1>1 DEF SumsTyped
    <3> QED BY <1>4, <3>1, <3>2, <3>3
  <2> QED BY <1>1, <1>6, <2>2, SumGrows DEF SumsTyped
<1>11. Owes' = Owes /\ Unpaid' = Unpaid
  BY DEF Owes, Unpaid
<1>12. SUFFICES ASSUME key # NoKey, Settling
                PROVE  /\ key.used + SumOver(Owes, Slots) = gone' + SumOver(Charged', Requests)
                       /\ key.used >= SumOver(Free', Requests) + SumOver(Unpaid, Slots)
  BY <1>9, <1>11 DEF Covered
<1>13. /\ key.used + SumOver(Owes, Slots) = gone + SumOver(Charged, Requests)
       /\ key.used >= SumOver(Free, Requests) + SumOver(Unpaid, Slots)
       /\ gone \in Nat
  BY <1>12 DEF Covered
<1>14. key.used + SumOver(Owes, Slots) = gone' + SumOver(Charged', Requests)
  BY <1>5, <1>7, <1>8, <1>13
<1>15. key.used \in Nat /\ SumOver(Free', Requests) \in Int /\ SumOver(Free, Requests) \in Int
       /\ SumOver(Unpaid, Slots) \in Int
  <2>1. key.used \in Nat
    BY <1>12 DEF TypeOK, Key
  <2>2. IsFiniteSet(Slots)
    BY BoundsAssumption
  <2> QED BY <1>1, <1>6, <2>1, <2>2, SumType DEF SumsTyped
<1>16. key.used >= SumOver(Free', Requests) + SumOver(Unpaid, Slots)
  BY <1>10, <1>13, <1>15
<1> QED BY <1>14, <1>16

LEMMA AddsExact ==
  ASSUME TypeOK, NEW d \in Int, Adds(d), key # NoKey, key.used + d >= 0
  PROVE  key' # NoKey /\ key'.used = key.used + d
<1>1. key \in Key /\ key.used \in Nat
  BY DEF TypeOK, Key
<1>2. key.used + d \in Nat
  BY <1>1
<1>3. key' = [key EXCEPT !.used = key.used + d]
  <2>1. CASE key.used + d > 0
    BY <2>1 DEF Adds
  <2>2. CASE key.used + d = 0
    BY <2>2 DEF Adds
  <2> QED BY <1>2, <2>1, <2>2
<1> QED BY <1>1, <1>2, <1>3, NothingAssumption DEF Key

\* The sums are integers, and what is put on the key covers each of their terms.
LEMMA Covers ==
  ASSUME TypeOK, Covered, key # NoKey, Settling
  PROVE  /\ SumOver(Charged, Requests) \in Int /\ SumOver(Owes, Slots) \in Int
         /\ SumOver(Free, Requests) \in Int /\ SumOver(Unpaid, Slots) \in Int
         /\ key.used \in Nat
         /\ \A r \in Requests : Free[r] <= key.used
         /\ \A s \in Slots : Unpaid[s] <= key.used
<1>1. SumsTyped
  BY SumTypes
<1>2. IsFiniteSet(Requests) /\ IsFiniteSet(Slots)
  BY BoundsAssumption
<1>3. /\ SumOver(Charged, Requests) \in Int /\ SumOver(Owes, Slots) \in Int
      /\ SumOver(Free, Requests) \in Int /\ SumOver(Unpaid, Slots) \in Int
  BY <1>1, <1>2, SumType DEF SumsTyped
<1>4. key.used \in Nat /\ key.used >= SumOver(Free, Requests) + SumOver(Unpaid, Slots)
  BY DEF TypeOK, Key, Covered
<1>5. SumOver(Free, Requests) >= 0 /\ SumOver(Unpaid, Slots) >= 0
  BY <1>1, <1>2, SumNat DEF SumsTyped
<1>6. ASSUME NEW r \in Requests PROVE Free[r] <= key.used
  <2>1. Free[r] \in Int /\ Free[r] <= SumOver(Free, Requests)
    BY <1>1, <1>2, SumMember DEF SumsTyped
  <2> QED BY <1>3, <1>4, <1>5, <2>1
<1>7. ASSUME NEW s \in Slots PROVE Unpaid[s] <= key.used
  <2>1. Unpaid[s] \in Int /\ Unpaid[s] <= SumOver(Unpaid, Slots)
    BY <1>1, <1>2, SumMember DEF SumsTyped
  <2> QED BY <1>3, <1>4, <1>5, <2>1
<1> QED BY <1>3, <1>4, <1>6, <1>7

\* The row of p is charged n.
LEMMA ChargedSet ==
  ASSUME TypeOK, TypeOK', NEW p \in Requests, NEW n \in Nat, rows[p] # NoRow,
         rows' = [rows EXCEPT ![p].charged = n]
  PROVE  /\ Charge(p)' = n /\ (\A r \in Requests \ {p} : Charge(r)' = Charge(r))
         /\ Charge(p) = rows[p].charged /\ rows[p].charged \in Nat
         /\ SumOver(Charged', Requests) = SumOver(Charged, Requests) - rows[p].charged + n
<1> DEFINE row == [rows[p] EXCEPT !.charged = n]
<1>1. rows[p] \in Row
  BY DEF TypeOK
<1>2. row \in Row /\ row.charged = n /\ rows[p].charged \in Nat
  BY <1>1 DEF Row
<1>3. rows' = [rows EXCEPT ![p] = row]
  BY DEF TypeOK
<1> HIDE DEF row
<1>4. \A r \in Requests : Charge(r)' = IF r = p THEN n ELSE Charge(r)
  BY <1>2, <1>3, ChargeSet
<1>5. Charge(p) = rows[p].charged
  BY DEF Charge
<1>6. /\ Charged'[p] = n /\ Charged[p] = rows[p].charged
      /\ \A r \in Requests \ {p} : Charged'[r] = Charged[r]
  BY <1>4, <1>5 DEF Charged
<1>7. SumsTyped /\ SumsTyped'
  BY SumTypes, SumTypesNext
<1>8. IsFiniteSet(Requests)
  BY BoundsAssumption
<1>9. SumOver(Charged', Requests) = SumOver(Charged, Requests) - Charged[p] + Charged'[p]
  BY <1>6, <1>7, <1>8, SumChange DEF SumsTyped
<1> QED BY <1>2, <1>4, <1>5, <1>6, <1>9

LEMMA ChargesCovered ==
  ASSUME TypeOK, TypeOK', Covered, [Next]_vars, NEW s \in Slots, Charges(s),
         \A q \in Slots : Statement(q)
  PROVE  Covered'
<1> DEFINE t == tasks[s]
<1>0. PICK p \in Requests : p = t.req
  BY AtWork DEF Charges
<1> DEFINE c == rows[p].charged
<1>1. t # Idle /\ t \in Task /\ t.req = p /\ t.price \in Nat
  BY <1>0, AtWork DEF Charges
<1>2. /\ driver = "postgres" /\ gone' = gone /\ tasks'[s] = Idle
      /\ \A q \in Slots \ {s} : tasks'[q] = tasks[q]
  BY DEF Charges, Ends, histories, TypeOK
<1>3. \A q \in Slots : ~Paying(q) /\ ~Paying(q)'
  BY <1>2 DEF Statement, Paying
<1>4. CASE rows[p] = NoRow
  <2>1. rows' = rows /\ key' = key
    BY <1>1, <1>4 DEF Charges
  <2>2. \A r \in Requests : Charge(r)' = Charge(r)
    BY <2>1 DEF Charge
  <2> QED BY <1>2, <1>3, <2>1, <2>2, SettlingLasts, CarriedCovered
<1>5. CASE rows[p] # NoRow
  <2> DEFINE d == Delta([t EXCEPT !.read = c])
  <2>1. rows' = [rows EXCEPT ![p].charged = t.price] /\ Adds(d)
    BY <1>1, <1>5 DEF Charges
  <2>2. /\ Charge(p)' = t.price /\ (\A r \in Requests \ {p} : Charge(r)' = Charge(r))
        /\ Charge(p) = c /\ c \in Nat
        /\ SumOver(Charged', Requests) = SumOver(Charged, Requests) - c + t.price
    BY <1>1, <1>5, <2>1, ChargedSet
  <2>3. d = t.price - c
    BY <1>1 DEF Delta, Task
  <2> HIDE DEF d, c
  <2>4. \A r \in Requests : ~Doing(r, {"pay"}) /\ ~Doing(r, {"pay"})'
    BY <1>3 DEF Doing, At, Paying
  <2>5. Free = Charged /\ Free' = Charged' /\ Owes' = Owes /\ Unpaid' = Unpaid
    BY <1>3, <2>4 DEF Free, Charged, Owes, Unpaid
  <2> SUFFICES ASSUME key' # NoKey
               PROVE  /\ key'.used + SumOver(Owes', Slots) = gone' + SumOver(Charged', Requests)
                      /\ key'.used >= SumOver(Free', Requests) + SumOver(Unpaid', Slots)
    BY <1>2 DEF Covered
  <2>6. key # NoKey /\ Settling
    BY <1>2, <2>1 DEF Adds, Settling
  <2>7. Free[p] = c /\ Free[p] <= key.used /\ key.used \in Nat
    BY <1>1, <2>2, <2>4, <2>6, Covers DEF Free
  <2>8. d \in Int /\ key.used + d >= 0
    BY <1>1, <2>2, <2>3, <2>7
  <2>9. key'.used = key.used + d
    BY <2>1, <2>6, <2>8, AddsExact
  <2>10. /\ key.used + SumOver(Owes, Slots) = gone + SumOver(Charged, Requests)
         /\ key.used >= SumOver(Free, Requests) + SumOver(Unpaid, Slots)
         /\ gone \in Nat
    BY <2>6 DEF Covered
  <2>11. /\ SumOver(Charged, Requests) \in Int /\ SumOver(Owes, Slots) \in Int
         /\ SumOver(Unpaid, Slots) \in Int
    BY <2>6, Covers
  <2>12. key'.used + SumOver(Owes', Slots) = gone' + SumOver(Charged', Requests)
    BY <1>1, <1>2, <2>2, <2>3, <2>5, <2>7, <2>9, <2>10, <2>11
  <2>13. key'.used >= SumOver(Free', Requests) + SumOver(Unpaid', Slots)
    BY <1>1, <2>2, <2>3, <2>5, <2>7, <2>9, <2>10, <2>11
  <2> QED BY <2>12, <2>13
<1> QED BY <1>4, <1>5

\* Who pays for a request, as long as its saves come one after the other.
LEMMA OnlyPayer ==
  ASSUME Alone, writer # "standalone", NEW s \in Slots, tasks[s] # Idle, NEW r, tasks[s].req = r
  PROVE  Doing(r, {"pay"}) <=> tasks[s].pc = "pay"
BY DEF Alone, Doing, At

LEMMA MarksCovered ==
  ASSUME TypeOK, TypeOK', Alone, Alone', Covered, [Next]_vars, NEW s \in Slots, MarksCharge(s),
         Statement(s), Reads(s)
  PROVE  Covered'
<1> DEFINE t == tasks[s]
           d == Delta(t)
<1>0. PICK p \in Requests : p = t.req
  BY AtWork DEF MarksCharge
<1>1. /\ t # Idle /\ t \in Task /\ t.req = p /\ t.price \in Nat /\ t.read \in Nat
      /\ t.pc = "mark"
  BY <1>0, AtWork DEF MarksCharge
<1>2. gone' = gone /\ key' = key /\ Works(s) /\ (\A q \in Slots \ {s} : tasks'[q] = tasks[q])
  BY WorksOn DEF MarksCharge, histories, admins, Works
<1>3. d = t.price - t.read /\ d \in Int
  BY <1>1 DEF Delta
<1>4. driver = "sqlite"
  BY <1>1 DEF Statement, TypeOK
<1>5. ~Paying(s) /\ (\A q \in Slots \ {s} : Paying(q)' <=> Paying(q))
  BY <1>1, <1>2 DEF Paying
<1> SUFFICES ASSUME Settling', key # NoKey PROVE Covered'
  BY <1>2 DEF Covered
<1>6. Settling /\ writer # "standalone" /\ writer' # "standalone"
  BY <1>4, SettlingLasts, KeptDriver DEF Settling
<1>7. CASE d = 0
  <2>1. tasks'[s] = Idle
    BY <1>7 DEF MarksCharge, Ends, TypeOK
  <2>2. \A r \in Requests : Charge(r)' = Charge(r)
    <3>1. CASE rows[p] = NoRow
      <4>1. rows' = rows
        BY <1>1, <3>1 DEF MarksCharge
      <4> QED BY <4>1 DEF Charge
    <3>2. CASE rows[p] # NoRow
      <4>1. rows' = [rows EXCEPT ![p].charged = t.price]
        BY <1>1, <3>2 DEF MarksCharge
      <4>2. t.read = rows[p].charged
        BY <1>1, <1>6, <3>2 DEF Reads
      <4>3. t.price = t.read
        BY <1>1, <1>3, <1>7
      <4> QED BY <1>1, <3>2, <4>1, <4>2, <4>3, ChargedSet
    <3> QED BY <3>1, <3>2
  <2>3. \A q \in Slots : (Paying(q)' <=> Paying(q)) /\ (Paying(q) => tasks'[q] = tasks[q])
    BY <1>2, <1>5, <2>1 DEF Paying
  <2> QED BY <1>2, <2>2, <2>3, SettlingLasts, CarriedCovered
<1>8. CASE d # 0
  <2>1. rows[p] # NoRow
    <3>1. rows[p] = NoRow => "pruned" \in excuses'
      BY <1>1, <1>8 DEF MarksCharge
    <3>2. driver' = driver
      BY KeptDriver
    <3> QED BY <1>4, <3>1, <3>2 DEF Settling
  <2>2. rows' = [rows EXCEPT ![p].charged = t.price]
    BY <1>1, <2>1 DEF MarksCharge
  <2>3. t.read = rows[p].charged
    BY <1>1, <1>6, <2>1 DEF Reads
  <2>4. /\ Charge(p)' = t.price /\ (\A r \in Requests \ {p} : Charge(r)' = Charge(r))
        /\ Charge(p) = t.read
        /\ SumOver(Charged', Requests) = SumOver(Charged, Requests) - t.read + t.price
    BY <1>1, <2>1, <2>2, <2>3, ChargedSet
  <2>5. tasks'[s] = [t EXCEPT !.pc = "pay"]
    BY <1>8 DEF MarksCharge, Goes, TypeOK
  <2>6. tasks'[s].pc = "pay" /\ tasks'[s].req = p /\ tasks'[s].price = t.price /\ tasks'[s].read = t.read
        /\ tasks'[s] \in Task /\ tasks'[s] # Idle
    <3>1. tasks'[s] \in Task
      BY <1>1, <2>5 DEF Task
    <3> QED BY <1>1, <2>5, <3>1, NothingAssumption DEF Task
  <2>7. SumsTyped /\ SumsTyped' /\ IsFiniteSet(Requests) /\ IsFiniteSet(Slots)
    BY SumTypes, SumTypesNext, BoundsAssumption
  <2>8. SumOver(Owes', Slots) = SumOver(Owes, Slots) + d
    <3>1. Owes[s] = 0 /\ Owes'[s] = d /\ \A q \in Slots \ {s} : Owes'[q] = Owes[q]
      BY <1>2, <1>5, <2>6 DEF Owes, Paying, Delta
    <3>2. SumOver(Owes', Slots) = SumOver(Owes, Slots) - Owes[s] + Owes'[s]
      BY <2>7, <3>1, SumChange DEF SumsTyped
    <3>3. SumOver(Owes, Slots) \in Int
      BY <2>7, SumType DEF SumsTyped
    <3> QED BY <1>3, <3>1, <3>2, <3>3
  <2>9. SumOver(Unpaid', Slots) = SumOver(Unpaid, Slots) + t.read
    <3>1. Unpaid[s] = 0 /\ Unpaid'[s] = t.read /\ \A q \in Slots \ {s} : Unpaid'[q] = Unpaid[q]
      BY <1>2, <1>5, <2>6 DEF Unpaid, Paying
    <3>2. SumOver(Unpaid', Slots) = SumOver(Unpaid, Slots) - Unpaid[s] + Unpaid'[s]
      BY <2>7, <3>1, SumChange DEF SumsTyped
    <3>3. SumOver(Unpaid, Slots) \in Int
      BY <2>7, SumType DEF SumsTyped
    <3> QED BY <1>1, <3>1, <3>2, <3>3
  <2>10. SumOver(Free', Requests) = SumOver(Free, Requests) - t.read
    <3>1. Doing(p, {"pay"})' /\ ~Doing(p, {"pay"})
      BY <1>1, <1>6, <2>6, OnlyPayer DEF Doing, At
    <3>2. \A r \in Requests \ {p} : Doing(r, {"pay"})' <=> Doing(r, {"pay"})
      BY <1>1, <1>2, <2>6 DEF Doing, At
    <3>3. Free[p] = t.read /\ Free'[p] = 0 /\ \A r \in Requests \ {p} : Free'[r] = Free[r]
      BY <1>1, <2>4, <3>1, <3>2 DEF Free
    <3>4. SumOver(Free', Requests) = SumOver(Free, Requests) - Free[p] + Free'[p]
      BY <1>1, <2>7, <3>3, SumChange DEF SumsTyped
    <3>5. SumOver(Free, Requests) \in Int
      BY <2>7, SumType DEF SumsTyped
    <3> QED BY <1>1, <3>3, <3>4, <3>5
  <2> HIDE DEF d
  <2>11. /\ key.used + SumOver(Owes, Slots) = gone + SumOver(Charged, Requests)
         /\ key.used >= SumOver(Free, Requests) + SumOver(Unpaid, Slots)
         /\ gone \in Nat
    BY <1>6 DEF Covered
  <2>12. /\ SumOver(Charged, Requests) \in Int /\ SumOver(Owes, Slots) \in Int
         /\ SumOver(Free, Requests) \in Int /\ SumOver(Unpaid, Slots) \in Int /\ key.used \in Nat
    BY <1>6, Covers
  <2>13. key.used + SumOver(Owes', Slots) = gone + SumOver(Charged', Requests)
    BY <1>1, <1>3, <2>4, <2>8, <2>11, <2>12
  <2>14. key.used >= SumOver(Free', Requests) + SumOver(Unpaid', Slots)
    BY <1>1, <2>9, <2>10, <2>11, <2>12
  <2> QED BY <1>2, <2>11, <2>13, <2>14 DEF Covered
<1> QED BY <1>7, <1>8

LEMMA PaysCovered ==
  ASSUME TypeOK, TypeOK', Alone, Covered, [Next]_vars, NEW s \in Slots, Pays(s),
         Statement(s), Reads(s)
  PROVE  Covered'
<1> DEFINE t == tasks[s]
           d == Delta(t)
<1>0. PICK p \in Requests : p = t.req
  BY AtWork DEF Pays
<1>1. /\ t # Idle /\ t \in Task /\ t.req = p /\ t.price \in Nat /\ t.read \in Nat /\ t.pc = "pay"
      /\ (rows[p] # NoRow => rows[p] \in Row)
  BY <1>0, AtWork DEF Pays
<1>2. /\ gone' = gone /\ rows' = rows /\ Adds(d) /\ tasks'[s] = Idle
      /\ \A q \in Slots \ {s} : tasks'[q] = tasks[q]
  BY DEF Pays, Ends, histories, TypeOK
<1>3. d = t.price - t.read /\ d \in Int
  BY <1>1 DEF Delta
<1>4. driver = "sqlite"
  BY <1>1 DEF Statement, TypeOK
<1> SUFFICES ASSUME Settling', key' # NoKey
             PROVE  /\ key'.used + SumOver(Owes', Slots) = gone' + SumOver(Charged', Requests)
                    /\ key'.used >= SumOver(Free', Requests) + SumOver(Unpaid', Slots)
  BY <1>2 DEF Covered
<1>5. Settling /\ writer # "standalone" /\ key # NoKey
  BY <1>2, <1>4, SettlingLasts DEF Settling, Adds
<1>6. /\ SumOver(Charged, Requests) \in Int /\ SumOver(Owes, Slots) \in Int
      /\ SumOver(Free, Requests) \in Int /\ SumOver(Unpaid, Slots) \in Int
      /\ key.used \in Nat /\ Unpaid[s] <= key.used
  BY <1>5, Covers
<1>7. Unpaid[s] = t.read /\ Owes[s] = d
  BY <1>1 DEF Unpaid, Owes, Paying
<1>8. key'.used = key.used + d
  <2> HIDE DEF d
  <2>1. key.used + d >= 0
    BY <1>1, <1>3, <1>6, <1>7
  <2> QED BY <1>2, <1>3, <1>5, <2>1, AddsExact
<1>9. \A q \in Slots \ {s} : (Paying(q)' <=> Paying(q)) /\ tasks'[q] = tasks[q]
  BY <1>2 DEF Paying
<1>10. SumsTyped /\ SumsTyped' /\ IsFiniteSet(Requests) /\ IsFiniteSet(Slots)
  BY SumTypes, SumTypesNext, BoundsAssumption
<1>11. SumOver(Owes', Slots) = SumOver(Owes, Slots) - d
  <2>1. Owes'[s] = 0 /\ \A q \in Slots \ {s} : Owes'[q] = Owes[q]
    BY <1>2, <1>9 DEF Owes, Paying
  <2>2. SumOver(Owes', Slots) = SumOver(Owes, Slots) - Owes[s] + Owes'[s]
    BY <1>10, <2>1, SumChange DEF SumsTyped
  <2> QED BY <1>3, <1>6, <1>7, <2>1, <2>2
<1>12. SumOver(Unpaid', Slots) = SumOver(Unpaid, Slots) - t.read
  <2>1. Unpaid'[s] = 0 /\ \A q \in Slots \ {s} : Unpaid'[q] = Unpaid[q]
    BY <1>2, <1>9 DEF Unpaid, Paying
  <2>2. SumOver(Unpaid', Slots) = SumOver(Unpaid, Slots) - Unpaid[s] + Unpaid'[s]
    BY <1>10, <2>1, SumChange DEF SumsTyped
  <2> QED BY <1>1, <1>6, <1>7, <2>1, <2>2
<1>13. Charged' = Charged
  BY <1>2 DEF Charged, Charge
<1>14. SumOver(Free', Requests) <= SumOver(Free, Requests) + t.price
  <2>1. Doing(p, {"pay"})
    BY <1>1 DEF Doing, At
  <2>2. \A r \in Requests \ {p} : Doing(r, {"pay"})' <=> Doing(r, {"pay"})
    BY <1>1, <1>2 DEF Doing, At
  <2>3. Free[p] = 0 /\ \A r \in Requests \ {p} : Free'[r] = Free[r]
    BY <1>2, <2>1, <2>2 DEF Free, Charge
  <2>4. Free'[p] <= t.price /\ Free'[p] \in Int
    <3>1. Free'[p] = 0 \/ Free'[p] = Charge(p)
      BY <1>2 DEF Free, Charge
    <3>2. Charge(p) <= t.price
      <4>1. CASE rows[p] = NoRow
        BY <1>1, <4>1 DEF Charge
      <4>2. CASE rows[p] # NoRow
        BY <1>1, <1>5, <4>2 DEF Charge, Reads
      <4> QED BY <4>1, <4>2
    <3> QED BY <1>1, <1>10, <3>1, <3>2 DEF SumsTyped
  <2>5. SumOver(Free', Requests) = SumOver(Free, Requests) - Free[p] + Free'[p]
    BY <1>10, <2>3, SumChange DEF SumsTyped
  <2> QED BY <1>1, <1>6, <2>3, <2>4, <2>5
<1>15. SumOver(Free', Requests) \in Int
  BY <1>10, SumType DEF SumsTyped
<1>16. /\ key.used + SumOver(Owes, Slots) = gone + SumOver(Charged, Requests)
       /\ key.used >= SumOver(Free, Requests) + SumOver(Unpaid, Slots)
       /\ gone \in Nat
  BY <1>5 DEF Covered
<1> HIDE DEF d
<1>17. key'.used + SumOver(Owes', Slots) = gone' + SumOver(Charged', Requests)
  BY <1>2, <1>3, <1>6, <1>8, <1>11, <1>13, <1>16
<1>18. key'.used >= SumOver(Free', Requests) + SumOver(Unpaid', Slots)
  BY <1>1, <1>3, <1>6, <1>8, <1>12, <1>14, <1>15, <1>16
<1> QED BY <1>17, <1>18

LEMMA ManagesCovered ==
  ASSUME TypeOK, TypeOK', Covered, [Next]_vars, Manages
  PROVE  Covered'
<1>1. tasks' = tasks
  BY ManagesFrame
<1>2. \A s \in Slots : (Paying(s)' <=> Paying(s)) /\ (Paying(s) => tasks'[s] = tasks[s])
  BY <1>1 DEF Paying
<1>3. ASSUME UNCHANGED <<rows, gone>>, key' # NoKey => key # NoKey /\ key'.used = key.used
      PROVE  Covered'
  <2>1. \A r \in Requests : Charge(r)' = Charge(r)
    BY <1>3 DEF Charge
  <2> QED BY <1>2, <1>3, <2>1, SettlingLasts, CarriedCovered
<1>4. CASE Clears
  <2>1. key' = key /\ Remove({r \in Requests : rows[r] # NoRow})
    BY <1>4 DEF Clears
  <2> QED BY <1>2, <2>1, SettlingLasts, RemovedCovered
<1>5. CASE CleanupDue
  BY <1>3, <1>5 DEF CleanupDue, histories, admins
<1>6. CASE DeletesKey
  BY <1>3, <1>6 DEF DeletesKey, histories
<1>7. ASSUME NEW m, NEW p, EditsPrice(m, p)
      PROVE  Covered'
  BY <1>3, <1>7 DEF EditsPrice, histories
<1> QED BY <1>4, <1>5, <1>6, <1>7 DEF Manages

LEMMA CoveredStep ==
  ASSUME TypeOK, TypeOK', Alone, Alone', Covered, [Next]_vars,
         \A s \in Slots : Statement(s) /\ Reads(s)
  PROVE  Covered'
<1>1. ASSUME NEW s \in Slots, Works(s)
      PROVE  Covered'
  <2>1. CASE Cleans(s)
    <3>1. /\ tasks[s].pc = "clean" /\ tasks'[s] = Idle /\ key' = key
          /\ \A q \in Slots \ {s} : tasks'[q] = tasks[q]
      BY <2>1 DEF Cleans, Ends, admins, TypeOK
    <3>2. \A q \in Slots : (Paying(q)' <=> Paying(q)) /\ (Paying(q) => tasks'[q] = tasks[q])
      BY <3>1 DEF Paying
    <3>3. Remove({r \in Requests : rows[r] # NoRow} \ Retained)
      BY <2>1 DEF Cleans
    <3> QED BY <3>1, <3>2, <3>3, SettlingLasts, RemovedCovered
  <2> QED BY <1>1, <2>1, LeftCovered, ChargesCovered, MarksCovered, PaysCovered DEF Works
<1>2. CASE Begins
  <2>1. /\ UNCHANGED <<rows, gone, key>>
        /\ \E s \in Slots, r \in Requests, task \in Task : Begin(s, r, task) /\ task.pc # "pay"
    BY <1>2, BegunAs
  <2>2. \A s \in Slots : (Paying(s)' <=> Paying(s)) /\ (Paying(s) => tasks'[s] = tasks[s])
    BY <2>1, BegunAlone DEF Paying
  <2>3. \A r \in Requests : Charge(r)' = Charge(r)
    BY <2>1 DEF Charge
  <2> QED BY <2>1, <2>2, <2>3, SettlingLasts, CarriedCovered
<1>3. CASE Manages
  BY <1>3, ManagesCovered
<1>4. CASE Restarts
  <2>1. /\ UNCHANGED <<rows, gone, key, driver>> /\ "failed" \in excuses'
        /\ \A s \in Slots : tasks'[s] = Idle
    BY <1>4 DEF Restarts, histories, admins
  <2>2. Settling' => \A s \in Slots : (Paying(s)' <=> Paying(s)) /\ (Paying(s) => tasks'[s] = tasks[s])
    BY <2>1 DEF Settling, Statement, Paying
  <2>3. \A r \in Requests : Charge(r)' = Charge(r)
    BY <2>1 DEF Charge
  <2> QED BY <2>1, <2>2, <2>3, SettlingLasts, CarriedCovered
<1>5. CASE UNCHANGED vars
  <2>1. UNCHANGED <<rows, gone, key, tasks>>
    BY <1>5 DEF vars
  <2>2. \A r \in Requests : Charge(r)' = Charge(r)
    BY <2>1 DEF Charge
  <2>3. \A s \in Slots : (Paying(s)' <=> Paying(s)) /\ (Paying(s) => tasks'[s] = tasks[s])
    BY <2>1 DEF Paying
  <2> QED BY <2>1, <2>2, <2>3, SettlingLasts, CarriedCovered
<1> QED BY <1>1, <1>2, <1>3, <1>4, <1>5, Steps


LEMMA InitCovered ==
  ASSUME Init
  PROVE  Covered /\ \A s \in Slots : Statement(s) /\ Reads(s)
<1>1. /\ \A s \in Slots : tasks[s] = Idle
      /\ \A r \in Requests : rows[r] = NoRow
      /\ key.used = 0 /\ gone = 0
  BY DEF Init
<1>2. /\ \A s \in Slots : Owes[s] = 0 /\ Unpaid[s] = 0
      /\ \A r \in Requests : Charged[r] = 0 /\ Free[r] = 0
  BY <1>1 DEF Owes, Unpaid, Charged, Free, Charge, Paying
<1>3. SumsTyped
  BY TypeInit, SumTypes
<1>4. /\ SumOver(Owes, Slots) = 0 /\ SumOver(Unpaid, Slots) = 0
      /\ SumOver(Charged, Requests) = 0 /\ SumOver(Free, Requests) = 0
  BY <1>2, <1>3, BoundsAssumption, SumNothing DEF SumsTyped
<1> QED BY <1>1, <1>4 DEF Covered, Statement, Reads

-----------------------------------------------------------------------------
(* The invariant                                                           *)

LEMMA InitIInv == Init => IInv
<1> SUFFICES ASSUME Init PROVE IInv
  OBVIOUS
<1>1. TypeOK
  BY TypeInit
<1>2. /\ \A r \in Requests : rows[r] = NoRow /\ tried[r].origin = NoPlace
      /\ \A s \in Slots : tasks[s] = Idle
      /\ came = {} /\ lost = {}
  BY DEF Init
<1>3. Alone
  BY <1>2 DEF Alone
<1>4. \A r \in Requests : Kept(r)
  BY <1>2 DEF Kept, Stands, Recorded, Brings, At, Doing
<1>5. Outnumbered
  BY <1>2 DEF Outnumbered
<1>7. Covered /\ \A s \in Slots : Statement(s) /\ Reads(s)
  BY InitCovered
<1> QED BY <1>1, <1>3, <1>4, <1>5, <1>7 DEF IInv

LEMMA StepIInv == IInv /\ [Next]_vars => IInv'
<1> SUFFICES ASSUME IInv, [Next]_vars PROVE IInv'
  OBVIOUS
<1>1. /\ TypeOK /\ Alone /\ (\A r \in Requests : Kept(r)) /\ Outnumbered
      /\ (\A s \in Slots : Statement(s) /\ Reads(s)) /\ Covered
  BY DEF IInv
<1>2. TypeOK'
  BY <1>1, TypeStep
<1>3. Alone'
  BY <1>1, AloneStep
<1>4. ASSUME NEW r \in Requests PROVE Kept(r)'
  BY <1>1, KeptStep
<1>5. Outnumbered'
  BY <1>1, <1>2, OutnumberedStep
<1>6. ASSUME NEW s \in Slots PROVE Statement(s)' /\ Reads(s)'
  BY <1>1, StatementStep, ReadsStep
<1>7. Covered'
  BY <1>1, <1>2, <1>3, CoveredStep
<1> QED BY <1>2, <1>3, <1>4, <1>5, <1>6, <1>7 DEF IInv

LEMMA Inductive == Spec => []IInv
BY InitIInv, StepIInv, PTL DEF Spec

-----------------------------------------------------------------------------
(* The theorems                                                            *)

\* Rows, tasks, the key and the histories have their types: a row keeps what a
\* save of console-store.ts wrote to it, whatever the order of the saves.
THEOREM TypeCorrect == Spec => []TypeOK
<1>1. IInv => TypeOK
  BY DEF IInv
<1> QED BY <1>1, Inductive, PTL

\* A response that meets no row of its request belongs to one that Keep newer
\* ones have pushed out (cleanupOldRows), unless the records were cleared, a
\* statement failed, or rust-log-writer.ts let it overtake its request.
THEOREM OnlyOldAreLost == Spec => []LostOnlyIfOld
<1>1. IInv => LostOnlyIfOld
  BY DEF IInv, Outnumbered, Newer, LostOnlyIfOld
<1> QED BY <1>1, Inductive, PTL

\* Once the saves of a request are through, the charge on its row is the price
\* kept with it, and the list and the statistics compute the same, whatever has
\* become of the prices (resolveRowPricing).
THEOREM CostsAreOne == Spec => []CostsAgree
<1>1. ASSUME IInv PROVE CostsAgree
  <2> SUFFICES ASSUME NEW r \in Requests,
                      rows[r] # NoRow, rows[r].status # 0, WorkingFor(r) = {},
                      writer # "standalone", "failed" \notin excuses
               PROVE  /\ rows[r].charged = rows[r].price
                      /\ rows[r].price # 0 => /\ ListedCost(rows[r]) = rows[r].charged
                                              /\ CountedCost(rows[r]) = rows[r].charged
    BY DEF CostsAgree
  <2>1. ~Doing(r, {"charge", "mark"})
    BY DEF Doing, At, WorkingFor, Working
  <2>2. rows[r].charged = rows[r].price
    BY <1>1, <2>1 DEF IInv, Kept, Stands, Orderly
  <2>3. rows[r].price # 0 => ListedCost(rows[r]) = rows[r].price /\ CountedCost(rows[r]) = rows[r].price
    BY DEF ListedCost, CountedCost, RowPrice
  <2> QED BY <2>2, <2>3
<1> QED BY <1>1, Inductive, PTL

\* The last answer of a request is a point at the place that gave it
\* (getProviderRecentHttpStatuses), and a provider that getProviderHealthStatuses
\* calls healthy, or down, had no answer that says otherwise.
THEOREM ShowsLastAnswer == Spec => []LastAnswerShown
<1>1. ASSUME IInv PROVE LastAnswerShown
  <2> SUFFICES ASSUME Orderly, NEW r \in Requests, rows[r] # NoRow, rows[r].status # 0
               PROVE  /\ answered[r] \in Points(rows[r])
                      /\ Health(answered[r].place) = "healthy" => answered[r].status = Ok
                      /\ Health(answered[r].place) = "down" => answered[r].status # Ok
    BY DEF LastAnswerShown, Orderly
  <2> DEFINE row == rows[r]
             good == {q \in Requests : rows[q] # NoRow /\ rows[q].place = row.place
                                         /\ rows[q].status \in 200..399}
  <2>1. row \in Row /\ row.status \in Statuses /\ row.initial \in Statuses
    <3>1. row \in Row
      BY <1>1 DEF IInv, TypeOK
    <3>2. row.initial # 0
      BY <1>1 DEF IInv, Kept, Stands
    <3> QED BY <3>1, <3>2 DEF Row
  <2>2. answered[r] = [place |-> row.place, status |-> row.status]
    BY <1>1 DEF IInv, Kept, Stands
  <2>3. row.initial > 0 /\ (row.status \in 200..399 <=> row.status = Ok)
    BY <2>1 DEF Statuses, Ok, Limited
  <2>4. answered[r] \in Points(row)
    <3>1. CASE row.initial # row.status \/ (row.orig # NoPlace /\ row.orig # row.place)
      BY <2>2, <2>3, <3>1 DEF Points, LastPoint
    <3>2. CASE row.initial = row.status /\ ~(row.orig # NoPlace /\ row.orig # row.place)
      BY <2>2, <2>3, <3>2 DEF Points, FirstPoint
    <3> QED BY <3>1, <3>2
  <2> DEFINE of == {q \in Requests : rows[q] # NoRow /\ rows[q].place = row.place}
  <2>5. r \in of /\ (r \in good <=> row.status = Ok)
    BY <2>3
  <2>6. good = {q \in of : rows[q].status \in 200..399}
    OBVIOUS
  <2>7. Health(row.place) = IF of = {} THEN "no-data" ELSE IF good = of THEN "healthy"
                            ELSE IF good # {} THEN "degraded" ELSE "down"
    BY <2>6 DEF Health
  <2> HIDE DEF of, good
  <2>8. /\ Health(row.place) = "healthy" => row.status = Ok
        /\ Health(row.place) = "down" => row.status # Ok
    BY <2>5, <2>7
  <2> QED BY <2>2, <2>4, <2>8
<1> QED BY <1>1, Inductive, PTL

\* What a save leaves of the first answer, the snapshot and the last answer.
HistoryOf(r) ==
  (rows[r] # NoRow /\ rows'[r] # NoRow) =>
    /\ rows[r].initial # 0 => rows'[r].initial = rows[r].initial
    /\ rows[r].snap # 0 => rows'[r].snap = rows[r].snap
    /\ rows[r].status # 0 => rows'[r].status # 0

LEMMA HistoryStep ==
  ASSUME IInv, [Next]_vars, NEW r \in Requests
  PROVE  HistoryOf(r)
<1> SUFFICES ASSUME rows[r] # NoRow, rows'[r] # NoRow, rows'[r] # rows[r]
             PROVE  /\ rows[r].initial # 0 => rows'[r].initial = rows[r].initial
                    /\ rows[r].snap # 0 => rows'[r].snap = rows[r].snap
                    /\ rows[r].status # 0 => rows'[r].status # 0
  BY DEF HistoryOf
<1>1. TypeOK /\ rows[r] \in Row
  BY DEF IInv, TypeOK
<1>2. \E s \in Slots : Inserts(s) \/ Updates(s) \/ Snapshots(s) \/ Charges(s) \/ MarksCharge(s)
  <2>1. ~Begins
    BY DEF Begins, BeginSnapshot, BeginRequest, BeginResponse
  <2>2. ~Manages
    <3>1. ~DeletesKey
      BY DEF DeletesKey
    <3>2. ~CleanupDue /\ ~Clears
      BY DEF CleanupDue, Clears, Remove
    <3>3. \A m, p : ~EditsPrice(m, p)
      BY DEF EditsPrice
    <3> QED BY <3>1, <3>2, <3>3 DEF Manages
  <2>3. ~Restarts /\ ~(UNCHANGED vars)
    BY DEF Restarts, vars
  <2>4. \A s \in Slots : ~(Cleans(s) \/ Resolves(s) \/ ReadsCharge(s) \/ Pays(s) \/ Fails(s))
    BY DEF Cleans, Remove, Resolves, ReadsCharge, Pays, Fails
  <2> QED BY <2>1, <2>2, <2>3, <2>4, Steps DEF Works
<1>3. PICK s \in Slots : Inserts(s) \/ Updates(s) \/ Snapshots(s) \/ Charges(s) \/ MarksCharge(s)
  BY <1>2
<1> DEFINE t == tasks[s]
<1>4. t # Idle /\ t \in Task /\ t.req \in Requests
  BY <1>1, <1>3, AtWork DEF Inserts, Updates, Snapshots, Charges, MarksCharge
<1>5. CASE Inserts(s)
  <2>1. rows' = [rows EXCEPT ![t.req] = IF @ = NoRow THEN Inserted(t) ELSE Upserted(t, @)]
    BY <1>5 DEF Inserts
  <2>2. t.req = r /\ rows'[r] = Upserted(t, rows[r])
    BY <1>1, <1>4, <2>1 DEF TypeOK
  <2> QED BY <1>1, <2>2 DEF Upserted, Row
<1>6. CASE Updates(s)
  <2>1. t.pc = "update" /\ rows' = IF rows[t.req] = NoRow THEN rows
                                   ELSE [rows EXCEPT ![t.req] = Responded(t, @)]
    BY <1>6 DEF Updates
  <2>2. t.req = r /\ rows'[r] = Responded(t, rows[r])
    BY <1>1, <1>4, <2>1 DEF TypeOK
  <2>3. t.status # 0
    BY <1>4, <2>1, <2>2 DEF IInv, Kept, Brings, At
  <2> QED BY <1>1, <2>2, <2>3 DEF Responded, Row
<1>7. CASE Snapshots(s)
  <2>1. rows' = IF rows[t.req] = NoRow THEN rows
                ELSE [rows EXCEPT ![t.req].snap = SnapshotKept(@, calls[t.req])]
    BY <1>7 DEF Snapshots
  <2>2. t.req = r /\ rows'[r] = [rows[r] EXCEPT !.snap = SnapshotKept(rows[r].snap, calls[r])]
    BY <1>1, <1>4, <2>1 DEF TypeOK
  <2> QED BY <1>1, <2>2 DEF SnapshotKept, Row
<1>8. CASE Charges(s) \/ MarksCharge(s)
  <2>1. rows' = IF rows[t.req] = NoRow THEN rows ELSE [rows EXCEPT ![t.req].charged = t.price]
    BY <1>8 DEF Charges, MarksCharge
  <2>2. t.req = r /\ rows'[r] = [rows[r] EXCEPT !.charged = t.price]
    BY <1>1, <1>4, <2>1 DEF TypeOK
  <2> QED BY <1>1, <2>2 DEF Row
<1> QED BY <1>3, <1>5, <1>6, <1>7, <1>8

\* The first status and the snapshot of the first limit, once on the row of a
\* request, outlive every later save of it, and an answer is never taken back.
THEOREM KeepsHistory == Spec => HistoryKept
<1>1. IInv /\ [Next]_vars => [\A r \in Requests : HistoryOf(r)]_vars
  BY HistoryStep
<1>2. Spec => [][\A r \in Requests : HistoryOf(r)]_vars
  BY <1>1, Inductive, PTL DEF Spec
<1>3. (\A r \in Requests : HistoryOf(r)) <=>
      \A r \in Requests : (rows[r] # NoRow /\ rows'[r] # NoRow) =>
        /\ rows[r].initial # 0 => rows'[r].initial = rows[r].initial
        /\ rows[r].snap # 0 => rows'[r].snap = rows[r].snap
        /\ rows[r].status # 0 => rows'[r].status # 0
  BY DEF HistoryOf
<1> QED BY <1>2, <1>3, PTL DEF HistoryKept

\* The key has been charged what the rows, those removed included, say they were
\* charged (syncApiKeyQuotaCharge): with PostgreSQL always, with SQLite as long as
\* one caller orders the saves of a request and none is cut short or loses its row.
THEOREM KeyIsCharged == Spec => []KeyPaysForRequests
<1>1. ASSUME IInv PROVE KeyPaysForRequests
  <2>1. Owed = SumOver(Owes, Slots) /\ Total([r \in Requests |-> Charge(r)]) = SumOver(Charged, Requests)
    BY DEF Owed, Owes, Total, Charged
  <2> QED BY <1>1, <2>1 DEF IInv, Covered, Settling, KeyPaysForRequests
<1> QED BY <1>1, Inductive, PTL
=============================================================================
