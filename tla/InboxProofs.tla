------------------------------ MODULE InboxProofs ------------------------------
(***************************************************************************)
(* What the inbox and the handler promise for any entries, consumers and    *)
(* limits: no entry leaves the queue without a durable outcome, no message  *)
(* is completed twice, what was called unprocessable stays so, and together *)
(* they implement MessageIntake.                                            *)
(*                                                                         *)
(* All of it rests on one fact about the tables: inbox rows and applied      *)
(* payloads never change once they are written, so what a consumer found    *)
(* in an earlier statement still holds when it deletes the entry or writes  *)
(* the dead letter, whatever the other consumers did meanwhile.             *)
(***************************************************************************)
EXTENDS InboxConsumer, SequenceTheorems, TLAPS

Delivery == [entry : Entries, receipt : Nat]

(* What TypeOK leaves open: the deliveries a consumer holds. *)
BatchShape ==
  /\ batch \in [Consumers -> Seq(Delivery)]
  /\ handled \in Seq(Entries)

(* The operation of m is in force together with an inbox row for its body. *)
Completed(m) == Recorded(m) /\ applied[Body[m].ext] = Body[m].payload

(* No attempt at m can ever complete it. *)
Hopeless(m) ==
  \/ Body[m].fault = "invalid"
  \/ Done(m) /\ ~SameBody(m)
  \/ Body[m].fault = "none" /\ Known(m) \notin {None, Body[m].payload}

(* A row is completed under its own message id, by an operation that
   succeeded, and that operation is in force. *)
RowsTrue ==
  \A i \in MessageIds : inbox[i] # None =>
    /\ Body[inbox[i]].id = i
    /\ Body[inbox[i]].fault = "none"
    /\ applied[Body[inbox[i]].ext] = Body[inbox[i]].payload

(* The entries completed so far are the inbox rows, each counted once. *)
HandledAreRows ==
  /\ \A i \in 1..Len(handled) : inbox[Body[handled[i]].id] = handled[i]
  /\ \A i, j \in 1..Len(handled) :
       Body[handled[i]].id = Body[handled[j]].id => i = j

(* Between two statements a consumer keeps its message id to itself ... *)
ClaimedAlone ==
  /\ \A c \in Consumers : pc[c] = "process" =>
       Body[Entry(c)].fault # "invalid" /\ ~Done(Entry(c))
  /\ \A c, d \in Consumers :
       (c # d /\ pc[c] = "process" /\ pc[d] = "process") =>
         Body[Entry(c)].id # Body[Entry(d)].id

(* ... and knows the outcome it acts upon. *)
Informed(c) ==
  /\ pc[c] = "delete" => Completed(Entry(c)) \/ <<Entry(c), "handler">> \in dlq
  /\ pc[c] = "dead" => Hopeless(Entry(c))

GoneSettled ==
  \A m \in Entries : queue[m] = "gone" => Completed(m) \/ DeadLettered(m) # {}

LettersHopeless == \A m \in Entries : <<m, "handler">> \in dlq => Hopeless(m)

InboxInv ==
  /\ TypeOK /\ BatchShape
  /\ RowsTrue /\ HandledAreRows
  /\ ClaimedAlone /\ \A c \in Consumers : Informed(c)
  /\ GoneSettled /\ LettersHopeless

-----------------------------------------------------------------------------
(* Types.                                                                   *)

LEMMA Deliveries ==
  ASSUME NEW s \in Seq(Delivery), s # <<>>
  PROVE  /\ Head(s) \in Delivery /\ Head(s).entry \in Entries
         /\ Tail(s) \in Seq(Delivery)
         /\ Len(s) = 1 <=> Tail(s) = <<>>
<1>1. Head(s) \in Delivery /\ Tail(s) \in Seq(Delivery) /\ Len(Tail(s)) = Len(s) - 1
  OBVIOUS
<1>2. Len(s) = 1 <=> Tail(s) = <<>>
  <2>1. /\ \A t \in Seq(Delivery) : t # <<>> => Len(t) \in Nat \ {0}
        /\ Len(<<>>) = 0
    BY EmptySeq
  <2>2. Tail(s) # <<>> => Len(s) # 1
    BY <1>1, <2>1
  <2>3. Tail(s) = <<>> => Len(Tail(s)) = 0
    BY <2>1
  <2>4. Len(s) \in Nat
    BY LenProperties
  <2>5. QED
    BY <1>1, <2>2, <2>3, <2>4
<1>3. QED
  BY <1>1, <1>2 DEF Delivery

(* A consumer that is not idle works on an entry. *)
LEMMA AtWork ==
  ASSUME TypeOK, BatchShape, NEW c \in Consumers, pc[c] # "idle"
  PROVE  /\ batch[c] \in Seq(Delivery) /\ batch[c] # <<>>
         /\ Entry(c) \in Entries /\ Body[Entry(c)] \in BodyType
<1>1. batch[c] \in Seq(Delivery) /\ batch[c] # <<>>
  BY DEF TypeOK, BatchShape
<1>2. QED
  BY <1>1, Deliveries, ConsumerAssumption DEF Entry

Shape == TypeOK /\ BatchShape

(* A message is done with. *)
LEMMA NextMessageShape ==
  ASSUME Shape, NEW c \in Consumers, pc[c] # "idle", NextMessage(c)
  PROVE  /\ pc' \in [Consumers -> {"idle", "handle", "process", "delete", "dead"}]
         /\ batch' \in [Consumers -> Seq(Delivery)]
         /\ \A d \in Consumers : pc'[d] = "idle" <=> batch'[d] = <<>>
<1>1. /\ batch[c] \in Seq(Delivery) /\ batch[c] # <<>>
      /\ Tail(batch[c]) \in Seq(Delivery)
      /\ Len(batch[c]) = 1 <=> Tail(batch[c]) = <<>>
  BY AtWork, Deliveries DEF Shape
<1>2. QED
  BY <1>1 DEF Shape, TypeOK, BatchShape, NextMessage

(* The consumer takes its message one statement further. *)
LEMMA GotoShape ==
  ASSUME Shape, NEW c \in Consumers, pc[c] # "idle",
         NEW label \in {"handle", "process", "delete", "dead"}, Goto(c, label)
  PROVE  /\ pc' \in [Consumers -> {"idle", "handle", "process", "delete", "dead"}]
         /\ batch' \in [Consumers -> Seq(Delivery)]
         /\ \A d \in Consumers : pc'[d] = "idle" <=> batch'[d] = <<>>
BY DEF Shape, TypeOK, BatchShape, Goto

LEMMA ReceiveShape ==
  ASSUME Shape, NEW c \in Consumers, Receive(c)
  PROVE  Shape'
<1>1. PICK k \in 1..MaxMessages : \E s \in [1..k -> {m \in Entries : Receivable(m)}] :
         /\ queue' = [m \in Entries |->
                        IF m \in {s[i] : i \in 1..k} THEN "inflight" ELSE queue[m]]
         /\ receives' = [m \in Entries |->
                           receives[m] + (IF m \in {s[i] : i \in 1..k} THEN 1 ELSE 0)]
         /\ batch' = [batch EXCEPT ![c] =
              [i \in 1..k |-> [entry |-> s[i], receipt |-> receives[s[i]] + 1]]]
  BY DEF Receive
<1>2. PICK s \in [1..k -> {m \in Entries : Receivable(m)}] :
         /\ queue' = [m \in Entries |->
                        IF m \in {s[i] : i \in 1..k} THEN "inflight" ELSE queue[m]]
         /\ receives' = [m \in Entries |->
                           receives[m] + (IF m \in {s[i] : i \in 1..k} THEN 1 ELSE 0)]
         /\ batch' = [batch EXCEPT ![c] =
              [i \in 1..k |-> [entry |-> s[i], receipt |-> receives[s[i]] + 1]]]
  BY <1>1
<1> DEFINE taken == [i \in 1..k |-> [entry |-> s[i], receipt |-> receives[s[i]] + 1]]
<1>3. k \in Nat \ {0}
  BY ConsumerAssumption
<1>4. \A i \in 1..k : s[i] \in Entries /\ receives[s[i]] \in Nat
                       /\ receives[s[i]] < MaxReceiveCount
  BY <1>2, ConsumerAssumption DEF Receivable, Exhausted, Shape, TypeOK
<1>5. taken \in Seq(Delivery) /\ taken # <<>>
  <2>1. \A i \in 1..k : [entry |-> s[i], receipt |-> receives[s[i]] + 1] \in Delivery
    BY <1>4 DEF Delivery
  <2>2. taken \in Seq(Delivery) /\ Len(taken) = k
    BY <1>3, <2>1
  <2>3. QED
    BY <1>3, <2>2
<1>6. queue' \in [Entries -> {"unsent", "visible", "inflight", "gone"}]
  BY <1>2 DEF Shape, TypeOK
<1>7. receives' \in [Entries -> 0..MaxReceiveCount]
  <2>1. ASSUME NEW m \in Entries PROVE receives'[m] \in 0..MaxReceiveCount
    BY <1>2, <1>4, ConsumerAssumption DEF Shape, TypeOK
  <2>2. QED
    BY <1>2, <2>1
<1>8. /\ batch' = [batch EXCEPT ![c] = taken]
      /\ pc' = [pc EXCEPT ![c] = "handle"]
      /\ UNCHANGED <<dlq, inbox, applied, handled>>
  BY <1>2 DEF Receive, tables
<1> HIDE DEF taken
<1>9. QED
  BY <1>5, <1>6, <1>7, <1>8 DEF Shape, TypeOK, BatchShape

LEMMA ProcessShape ==
  ASSUME Shape, NEW c \in Consumers, Process(c)
  PROVE  Shape'
<1>1. /\ Entry(c) \in Entries /\ Body[Entry(c)] \in BodyType
      /\ pc[c] # "idle" /\ UNCHANGED brokers
  BY AtWork DEF Shape, Process
<1>2. \/ NextMessage(c)
      \/ \E label \in {"handle", "process", "delete", "dead"} : Goto(c, label)
  BY DEF Process, WhenTransient
<1>3. \/ UNCHANGED tables
      \/ /\ inbox' = [inbox EXCEPT ![Body[Entry(c)].id] = Entry(c)]
         /\ applied' = [applied EXCEPT ![Body[Entry(c)].ext] =
                          IF @ = None THEN Body[Entry(c)].payload ELSE @]
         /\ handled' = Append(handled, Entry(c))
  BY DEF Process
<1>4. /\ inbox' \in [MessageIds -> Entries \cup {None}]
      /\ applied' \in [ExternalIds -> Payloads \cup {None}]
      /\ handled' \in Seq(Entries)
  <2>1. CASE UNCHANGED tables
    BY <2>1 DEF tables, Shape, TypeOK, BatchShape
  <2>2. CASE ~UNCHANGED tables
    <3>1. /\ Body[Entry(c)].id \in MessageIds /\ Body[Entry(c)].ext \in ExternalIds
          /\ Body[Entry(c)].payload \in Payloads
      BY <1>1 DEF BodyType
    <3>2. inbox' \in [MessageIds -> Entries \cup {None}]
      BY <1>1, <1>3, <2>2 DEF Shape, TypeOK
    <3>3. applied' \in [ExternalIds -> Payloads \cup {None}]
      BY <1>3, <2>2, <3>1 DEF Shape, TypeOK
    <3>4. handled' \in Seq(Entries)
      <4>1. handled' = Append(handled, Entry(c)) /\ handled \in Seq(Entries)
        BY <1>3, <2>2 DEF Shape, BatchShape
      <4>2. QED
        BY <1>1, <4>1, AppendProperties
    <3>5. QED
      BY <3>2, <3>3, <3>4
  <2>3. QED
    BY <2>1, <2>2
<1>5. /\ pc' \in [Consumers -> {"idle", "handle", "process", "delete", "dead"}]
      /\ batch' \in [Consumers -> Seq(Delivery)]
      /\ \A d \in Consumers : pc'[d] = "idle" <=> batch'[d] = <<>>
  BY <1>1, <1>2, NextMessageShape, GotoShape
<1>6. QED
  BY <1>1, <1>4, <1>5 DEF brokers, Shape, TypeOK, BatchShape

LEMMA ShapeNext ==
  ASSUME Shape, [Next]_vars
  PROVE  Shape'
<1>1. CASE UNCHANGED vars
  BY <1>1 DEF vars, Shape, TypeOK, BatchShape
<1>2. ASSUME NEW m \in Entries, Send(m) \/ Redrive(m) \/ Reappear(m) \/ Overtake(m)
      PROVE  Shape'
  <2>1. /\ queue' = [queue EXCEPT ![m] = "visible"] \/ queue' = [queue EXCEPT ![m] = "gone"]
        /\ dlq' = dlq \/ dlq' = dlq \cup {<<m, "redrive">>}
        /\ UNCHANGED <<receives, inbox, applied, handled, pc, batch>>
    BY <1>2 DEF Send, Redrive, Reappear, Overtake, tables
  <2>2. queue' \in [Entries -> {"unsent", "visible", "inflight", "gone"}]
    BY <2>1 DEF Shape, TypeOK
  <2>3. dlq' \subseteq Entries \X {"redrive", "handler"}
    BY <2>1 DEF Shape, TypeOK
  <2>4. QED
    BY <2>1, <2>2, <2>3 DEF Shape, TypeOK, BatchShape
<1>3. ASSUME NEW c \in Consumers, Receive(c) PROVE Shape'
  BY <1>3, ReceiveShape
<1>4. ASSUME NEW c \in Consumers, Claim(c) PROVE Shape'
  <2>1. pc[c] # "idle" /\ UNCHANGED brokers /\ UNCHANGED tables
    BY <1>4 DEF Claim
  <2>2. \E label \in {"handle", "process", "delete", "dead"} : Goto(c, label)
    BY <1>4 DEF Claim
  <2>3. QED
    BY <2>1, <2>2, GotoShape DEF brokers, tables, Shape, TypeOK, BatchShape
<1>5. ASSUME NEW c \in Consumers, Process(c) PROVE Shape'
  BY <1>5, ProcessShape
<1>6. ASSUME NEW c \in Consumers, Delete(c) PROVE Shape'
  <2>1. /\ pc[c] # "idle" /\ NextMessage(c) /\ UNCHANGED <<receives, dlq, tables>>
        /\ queue' = queue \/ queue' = [queue EXCEPT ![Entry(c)] = "gone"]
    BY <1>6 DEF Delete
  <2>2. QED
    BY <2>1, NextMessageShape DEF tables, Shape, TypeOK, BatchShape
<1>7. ASSUME NEW c \in Consumers, SendToDLQ(c) PROVE Shape'
  <2>1. /\ pc[c] # "idle" /\ UNCHANGED <<queue, receives, tables>>
        /\ dlq' = dlq \/ dlq' = dlq \cup {<<Entry(c), "handler">>}
    BY <1>7 DEF SendToDLQ
  <2>2. \/ NextMessage(c)
        \/ \E label \in {"handle", "process", "delete", "dead"} : Goto(c, label)
    BY <1>7 DEF SendToDLQ, WhenUnsent
  <2>3. Entry(c) \in Entries
    BY <2>1, AtWork DEF Shape
  <2>4. QED
    BY <2>1, <2>2, <2>3, NextMessageShape, GotoShape DEF tables, Shape, TypeOK, BatchShape
<1>8. ASSUME NEW c \in Consumers, Crash(c) PROVE Shape'
  BY <1>8 DEF Crash, brokers, tables, Shape, TypeOK, BatchShape
<1>9. ASSUME NEW x \in ExternalIds, NEW payload \in Payloads, Elsewhere(x, payload)
      PROVE  Shape'
  BY <1>9 DEF Elsewhere, brokers, Shape, TypeOK, BatchShape
<1>10. QED
  BY <1>1, <1>2, <1>3, <1>4, <1>5, <1>6, <1>7, <1>8, <1>9 DEF Next, Step

-----------------------------------------------------------------------------
(* What is written stays.                                                   *)

RowsStay ==
  /\ \A i \in MessageIds : inbox[i] # None => inbox'[i] = inbox[i]
  /\ \A x \in ExternalIds : applied[x] # None => applied'[x] = applied[x]
  /\ dlq \subseteq dlq'

LEMMA RowsAreKept ==
  ASSUME InboxInv, [Next]_vars
  PROVE  RowsStay
<1>1. CASE UNCHANGED <<inbox, applied, dlq>>
  BY <1>1 DEF RowsStay
<1>2. ASSUME NEW m \in Entries, Redrive(m) PROVE RowsStay
  BY <1>2 DEF Redrive, tables, RowsStay
<1>3. ASSUME NEW c \in Consumers, Process(c), ~UNCHANGED tables PROVE RowsStay
  <2>1. ~Done(Entry(c)) /\ dlq' = dlq
    BY <1>3 DEF InboxInv, ClaimedAlone, Process, brokers
  <2>2. /\ inbox' = [inbox EXCEPT ![Body[Entry(c)].id] = Entry(c)]
        /\ applied' = [applied EXCEPT ![Body[Entry(c)].ext] =
                         IF @ = None THEN Body[Entry(c)].payload ELSE @]
    BY <1>3 DEF Process
  <2>3. \A i \in MessageIds : inbox[i] # None => inbox'[i] = inbox[i]
    BY <2>1, <2>2 DEF Done, InboxInv, TypeOK
  <2>4. \A x \in ExternalIds : applied[x] # None => applied'[x] = applied[x]
    BY <2>2 DEF InboxInv, TypeOK
  <2>5. QED
    BY <2>1, <2>3, <2>4 DEF RowsStay
<1>4. ASSUME NEW c \in Consumers, SendToDLQ(c) PROVE RowsStay
  BY <1>4 DEF SendToDLQ, tables, RowsStay
<1>5. ASSUME NEW x \in ExternalIds, NEW payload \in Payloads, Elsewhere(x, payload)
      PROVE  RowsStay
  BY <1>5 DEF Elsewhere, brokers, RowsStay, InboxInv, TypeOK
<1>6. QED
  <2>1. ASSUME NEW m \in Entries, Send(m) \/ Reappear(m) \/ Overtake(m)
        PROVE  UNCHANGED <<inbox, applied, dlq>>
    BY <2>1 DEF Send, Reappear, Overtake, tables
  <2>2. ASSUME NEW c \in Consumers, Receive(c) \/ Claim(c) \/ Delete(c) \/ Crash(c)
        PROVE  UNCHANGED <<inbox, applied, dlq>>
    BY <2>2 DEF Receive, Claim, Delete, Crash, brokers, tables
  <2>3. ASSUME NEW c \in Consumers, Process(c), UNCHANGED tables
        PROVE  UNCHANGED <<inbox, applied, dlq>>
    BY <2>3 DEF Process, brokers, tables
  <2>4. QED
    BY <1>1, <1>2, <1>3, <1>4, <1>5, <2>1, <2>2, <2>3 DEF Next, Step, vars

(* Therefore what was found of an entry is still true. *)
LEMMA Lasting ==
  ASSUME InboxInv, RowsStay, NEW m \in Entries
  PROVE  /\ Completed(m) => Completed(m)'
         /\ Hopeless(m) => Hopeless(m)'
         /\ DeadLettered(m) # {} => DeadLettered(m)' # {}
<1>1. /\ Body[m].id \in MessageIds /\ Body[m].ext \in ExternalIds
      /\ Body[m].payload \in Payloads
  BY ConsumerAssumption DEF BodyType
<1>2. None \notin Entries /\ None \notin Payloads
  BY ConsumerAssumption
<1>3. Completed(m) => Completed(m)'
  BY <1>1, <1>2 DEF Completed, Recorded, RowsStay
<1>4. Hopeless(m) => Hopeless(m)'
  BY <1>1 DEF Hopeless, Done, SameBody, Known, RowsStay
<1>5. DeadLettered(m) # {} => DeadLettered(m)' # {}
  BY DEF DeadLettered, RowsStay
<1>6. QED
  BY <1>3, <1>4, <1>5

(* An entry whose operation could not be applied is not recorded. *)
LEMMA HopelessNotRecorded ==
  ASSUME InboxInv, NEW m \in Entries, Hopeless(m)
  PROVE  ~Recorded(m)
<1> SUFFICES ASSUME NEW n \in Entries, inbox[Body[m].id] = n, Body[n] = Body[m]
             PROVE  FALSE
  BY DEF Recorded
<1>1. Body[m].id \in MessageIds /\ Body[m].payload \in Payloads /\ n # None
  BY ConsumerAssumption DEF BodyType
<1>2. Body[m].fault = "none" /\ applied[Body[m].ext] = Body[m].payload
  BY <1>1 DEF InboxInv, RowsTrue
<1>3. ~(Done(m) /\ ~SameBody(m))
  BY DEF SameBody
<1>4. QED
  BY <1>2, <1>3 DEF Hopeless, Known

-----------------------------------------------------------------------------
(* The inbox.                                                               *)

(* Process completes the inbox row of an entry that has none. *)
LEMMA CompletesRow ==
  ASSUME InboxInv, NEW c \in Consumers, Process(c), ~UNCHANGED tables
  PROVE  LET m == Entry(c) IN
         /\ m \in Entries /\ Body[m].id \in MessageIds /\ inbox[Body[m].id] = None
         /\ \A i \in MessageIds :
              inbox'[i] = IF i = Body[m].id THEN m ELSE inbox[i]
         /\ Body[m].fault = "none" /\ applied'[Body[m].ext] = Body[m].payload
         /\ handled' = Append(handled, m)
         /\ pc' = [pc EXCEPT ![c] = "delete"] /\ batch' = batch
<1> DEFINE m == Entry(c)
<1>1. /\ m \in Entries /\ Body[m] \in BodyType /\ ~Done(m)
  BY AtWork DEF InboxInv, ClaimedAlone, Process
<1>2. /\ Body[m].id \in MessageIds /\ Body[m].ext \in ExternalIds
      /\ inbox[Body[m].id] = None
  BY <1>1 DEF BodyType, Done
<1>3. /\ Accepted(m)
      /\ inbox' = [inbox EXCEPT ![Body[m].id] = m]
      /\ applied' = [applied EXCEPT ![Body[m].ext] =
                       IF @ = None THEN Body[m].payload ELSE @]
      /\ handled' = Append(handled, m)
      /\ Goto(c, "delete")
  BY DEF Process
<1> HIDE DEF m
<1>4. \A i \in MessageIds : inbox'[i] = IF i = Body[m].id THEN m ELSE inbox[i]
  BY <1>2, <1>3 DEF InboxInv, TypeOK
<1>5. Body[m].fault = "none" /\ applied'[Body[m].ext] = Body[m].payload
  BY <1>2, <1>3 DEF InboxInv, TypeOK, Accepted, Known
<1>6. QED
  BY <1>1, <1>2, <1>3, <1>4, <1>5 DEF Goto, m

LEMMA RowsNext ==
  ASSUME InboxInv, [Next]_vars
  PROVE  RowsTrue' /\ HandledAreRows'
<1>1. RowsStay /\ Shape /\ Shape'
  BY RowsAreKept, ShapeNext DEF InboxInv, Shape
<1>2. CASE UNCHANGED <<inbox, handled>>
  <2>1. ASSUME NEW i \in MessageIds, inbox[i] # None
        PROVE  applied'[Body[inbox[i]].ext] = applied[Body[inbox[i]].ext]
    <3>1. inbox[i] \in Entries
      BY <1>1, <2>1 DEF Shape, TypeOK
    <3>2. /\ applied[Body[inbox[i]].ext] = Body[inbox[i]].payload
          /\ Body[inbox[i]] \in BodyType
      BY <2>1, <3>1, ConsumerAssumption DEF InboxInv, RowsTrue
    <3>3. QED
      BY <1>1, <3>2, ConsumerAssumption DEF BodyType, RowsStay
  <2>2. RowsTrue'
    BY <1>2, <2>1 DEF InboxInv, RowsTrue
  <2>3. HandledAreRows'
    BY <1>2 DEF InboxInv, HandledAreRows
  <2>4. QED
    BY <2>2, <2>3
<1>3. ASSUME NEW c \in Consumers, Process(c), ~UNCHANGED tables
      PROVE  RowsTrue' /\ HandledAreRows'
  <2> DEFINE m == Entry(c)
  <2>1. /\ m \in Entries /\ Body[m].id \in MessageIds /\ inbox[Body[m].id] = None
        /\ \A i \in MessageIds :
             inbox'[i] = IF i = Body[m].id THEN m ELSE inbox[i]
        /\ Body[m].fault = "none" /\ applied'[Body[m].ext] = Body[m].payload
        /\ handled' = Append(handled, m)
    BY <1>3, CompletesRow
  <2> HIDE DEF m
  <2>2. ASSUME NEW i \in MessageIds, inbox'[i] # None
        PROVE  /\ Body[inbox'[i]].id = i
               /\ Body[inbox'[i]].fault = "none"
               /\ applied'[Body[inbox'[i]].ext] = Body[inbox'[i]].payload
    <3>1. CASE i = Body[m].id
      BY <2>1, <3>1
    <3>2. CASE i # Body[m].id
      <4>1. inbox'[i] = inbox[i] /\ inbox[i] \in Entries
        BY <1>1, <2>1, <2>2, <3>2 DEF Shape, TypeOK
      <4>2. /\ Body[inbox[i]].id = i /\ Body[inbox[i]].fault = "none"
            /\ applied[Body[inbox[i]].ext] = Body[inbox[i]].payload
            /\ Body[inbox[i]] \in BodyType
        BY <2>2, <4>1, ConsumerAssumption DEF InboxInv, RowsTrue
      <4>3. applied'[Body[inbox[i]].ext] = Body[inbox[i]].payload
        BY <1>1, <4>2, ConsumerAssumption DEF BodyType, RowsStay
      <4>4. QED
        BY <4>1, <4>2, <4>3
    <3>3. QED
      BY <3>1, <3>2
  <2>3. handled \in Seq(Entries)
    BY <1>1 DEF Shape, BatchShape
  <2>4. /\ Len(handled') = Len(handled) + 1 /\ Len(handled) \in Nat
        /\ handled'[Len(handled) + 1] = m
        /\ \A i \in 1..Len(handled) : handled'[i] = handled[i] /\ handled[i] \in Entries
    BY <2>1, <2>3, AppendProperties, ElementOfSeq, LenProperties
  <2>5. \A i \in 1..Len(handled) :
          /\ inbox[Body[handled[i]].id] = handled[i]
          /\ Body[handled[i]].id \in MessageIds
          /\ Body[handled[i]].id # Body[m].id
    <3>1. ASSUME NEW i \in 1..Len(handled)
          PROVE  /\ inbox[Body[handled[i]].id] = handled[i]
                 /\ Body[handled[i]].id \in MessageIds
                 /\ Body[handled[i]].id # Body[m].id
      <4>1. handled[i] \in Entries /\ inbox[Body[handled[i]].id] = handled[i]
        BY <2>4 DEF InboxInv, HandledAreRows
      <4>2. QED
        BY <2>1, <4>1, ConsumerAssumption DEF BodyType
    <3>2. QED
      BY <3>1
  <2>6. ASSUME NEW i \in 1..Len(handled') PROVE inbox'[Body[handled'[i]].id] = handled'[i]
    BY <2>1, <2>4, <2>5
  <2>7. ASSUME NEW i \in 1..Len(handled'), NEW j \in 1..Len(handled'),
               Body[handled'[i]].id = Body[handled'[j]].id
        PROVE  i = j
    <3>1. CASE i \in 1..Len(handled) /\ j \in 1..Len(handled)
      BY <2>4, <2>7, <3>1 DEF InboxInv, HandledAreRows
    <3>2. CASE ~(i \in 1..Len(handled) /\ j \in 1..Len(handled))
      BY <2>4, <2>5, <2>7, <3>2
    <3>3. QED
      BY <3>1, <3>2
  <2>8. RowsTrue'
    BY <2>2 DEF RowsTrue
  <2>9. HandledAreRows'
    BY <2>6, <2>7 DEF HandledAreRows
  <2>10. QED
    BY <2>8, <2>9
<1>4. QED
  <2>1. ASSUME NEW m \in Entries, Send(m) \/ Redrive(m) \/ Reappear(m) \/ Overtake(m)
        PROVE  UNCHANGED <<inbox, handled>>
    BY <2>1 DEF Send, Redrive, Reappear, Overtake, tables
  <2>2. ASSUME NEW c \in Consumers,
               Receive(c) \/ Claim(c) \/ Delete(c) \/ SendToDLQ(c) \/ Crash(c)
        PROVE  UNCHANGED <<inbox, handled>>
    BY <2>2 DEF Receive, Claim, Delete, SendToDLQ, Crash, brokers, tables
  <2>3. ASSUME NEW x \in ExternalIds, NEW payload \in Payloads, Elsewhere(x, payload)
        PROVE  UNCHANGED <<inbox, handled>>
    BY <2>3 DEF Elsewhere
  <2>4. QED
    BY <1>2, <1>3, <2>1, <2>2, <2>3 DEF Next, Step, vars, tables

-----------------------------------------------------------------------------
(* Consumers.                                                               *)

(* A consumer the step does not move knows what it knew. *)
LEMMA StillInformed ==
  ASSUME InboxInv, RowsStay, NEW d \in Consumers,
         pc'[d] = pc[d], batch'[d] = batch[d]
  PROVE  Informed(d)'
<1>1. ASSUME pc[d] # "idle" PROVE Entry(d) \in Entries /\ Entry(d)' = Entry(d)
  BY <1>1, AtWork DEF InboxInv, Entry
<1>2. CASE pc[d] = "delete"
  <2>1. Completed(Entry(d)) \/ <<Entry(d), "handler">> \in dlq
    BY <1>2 DEF InboxInv, Informed
  <2>2. PICK m \in Entries : m = Entry(d) /\ m = Entry(d)'
    BY <1>1, <1>2
  <2>3. Completed(m) => Completed(m)'
    BY Lasting
  <2>4. Completed(m)' \/ <<m, "handler">> \in dlq'
    BY <2>1, <2>2, <2>3 DEF Completed, Recorded, RowsStay
  <2>5. QED
    BY <1>2, <2>2, <2>4 DEF Informed, Completed, Recorded
<1>3. CASE pc[d] = "dead"
  <2>1. Hopeless(Entry(d))
    BY <1>3 DEF InboxInv, Informed
  <2>2. PICK m \in Entries : m = Entry(d) /\ m = Entry(d)'
    BY <1>1, <1>3
  <2>3. Hopeless(m) => Hopeless(m)'
    BY Lasting
  <2>4. Hopeless(m)'
    BY <2>1, <2>2, <2>3 DEF Hopeless, Done, SameBody, Known
  <2>5. QED
    BY <1>3, <2>2, <2>4 DEF Informed, Hopeless, Done, SameBody, Known
<1>4. QED
  BY <1>2, <1>3 DEF Informed

(* What a completed row says of another entry with the same body. *)
LEMMA SameBodyCompleted ==
  ASSUME InboxInv, NEW m \in Entries, Done(m), SameBody(m)
  PROVE  Completed(m)
<1>1. /\ Body[m].id \in MessageIds /\ inbox[Body[m].id] \in Entries
      /\ inbox[Body[m].id] # None
  BY ConsumerAssumption DEF InboxInv, TypeOK, BodyType, Done
<1>2. applied[Body[inbox[Body[m].id]].ext] = Body[inbox[Body[m].id]].payload
  BY <1>1 DEF InboxInv, RowsTrue
<1>3. QED
  BY <1>1, <1>2 DEF Completed, Recorded, SameBody

LEMMA InformedNext ==
  ASSUME InboxInv, [Next]_vars, NEW d \in Consumers
  PROVE  Informed(d)'
<1>1. RowsStay
  BY RowsAreKept
<1>2. CASE pc'[d] = pc[d] /\ batch'[d] = batch[d]
  BY <1>1, <1>2, StillInformed
<1>3. ASSUME NEW c \in Consumers, Receive(c) \/ Delete(c) \/ Crash(c)
      PROVE  (pc'[d] = pc[d] /\ batch'[d] = batch[d]) \/ pc'[d] \notin {"delete", "dead"}
  BY <1>3 DEF Receive, Delete, Crash, NextMessage, InboxInv, TypeOK, BatchShape
<1>4. ASSUME Claim(d) PROVE Informed(d)'
  <2>1. PICK m \in Entries : m = Entry(d)
    BY <1>4, AtWork DEF Claim, InboxInv
  <2>2. CASE Goto(d, "dead")
    <3>1. Body[m].fault = "invalid" \/ (Done(m) /\ ~SameBody(m))
      BY <1>4, <2>1, <2>2 DEF Claim, Goto, Done, SameBody, InboxInv, TypeOK
    <3>2. Hopeless(m)'
      BY <3>1, <1>1, Lasting DEF Hopeless
    <3>3. pc'[d] = "dead" /\ Entry(d)' = m
      BY <2>1, <2>2 DEF Goto, Entry, InboxInv, TypeOK
    <3>4. QED
      BY <3>2, <3>3 DEF Informed, Hopeless, Done, SameBody, Known
  <2>3. CASE Goto(d, "delete")
    <3>1. Done(m) /\ SameBody(m)
      BY <1>4, <2>1, <2>3 DEF Claim, Goto, Done, SameBody, InboxInv, TypeOK
    <3>2. Completed(m)'
      BY <3>1, <1>1, SameBodyCompleted, Lasting
    <3>3. pc'[d] = "delete" /\ Entry(d)' = m
      BY <2>1, <2>3 DEF Goto, Entry, InboxInv, TypeOK
    <3>4. QED
      BY <3>2, <3>3 DEF Informed, Completed, Recorded
  <2>4. CASE Goto(d, "process")
    BY <2>4 DEF Goto, Informed, InboxInv, TypeOK
  <2>5. QED
    BY <1>4, <2>2, <2>3, <2>4 DEF Claim
<1>5. ASSUME Process(d) PROVE Informed(d)'
  <2>1. PICK m \in Entries : m = Entry(d)
    BY <1>5, AtWork DEF Process, InboxInv
  <2>2. CASE ~UNCHANGED tables
    <3>1. /\ inbox'[Body[m].id] = m /\ applied'[Body[m].ext] = Body[m].payload
          /\ pc' = [pc EXCEPT ![d] = "delete"] /\ batch' = batch
      BY <1>5, <2>1, <2>2, CompletesRow
    <3>2. Completed(m)' /\ pc'[d] = "delete" /\ Entry(d)' = m
      BY <2>1, <3>1 DEF Completed, Recorded, Entry, InboxInv, TypeOK
    <3>3. QED
      BY <3>2 DEF Informed, Completed, Recorded
  <2>3. CASE NextMessage(d)
    BY <2>3 DEF NextMessage, Informed, InboxInv, TypeOK
  <2>4. CASE UNCHANGED tables /\ ~NextMessage(d)
    <3>1. CASE Accepted(m)
      <4>1. handled' = handled
        BY <2>4 DEF tables
      <4>2. handled' = Append(handled, m) /\ handled \in Seq(Entries)
        BY <1>5, <2>1, <2>4, <3>1 DEF Process, WhenTransient, Accepted, InboxInv, BatchShape
      <4>3. QED
        BY <4>1, <4>2, AppendProperties, LenProperties
    <3>2. CASE ~Accepted(m)
      <4>1. Goto(d, "dead") /\ Body[m].fault = "none" /\ ~Accepted(m)
        BY <1>5, <2>1, <2>4, <3>2 DEF Process, WhenTransient
      <4>2. Hopeless(m)'
        BY <4>1, <1>1, Lasting DEF Hopeless, Accepted
      <4>3. pc'[d] = "dead" /\ Entry(d)' = m
        BY <2>1, <4>1 DEF Goto, Entry, InboxInv, TypeOK
      <4>4. QED
        BY <4>2, <4>3 DEF Informed, Hopeless, Done, SameBody, Known
    <3>3. QED
      BY <3>1, <3>2
  <2>5. QED
    BY <2>2, <2>3, <2>4
<1>6. ASSUME SendToDLQ(d) PROVE Informed(d)'
  <2>1. CASE NextMessage(d)
    BY <2>1 DEF NextMessage, Informed, InboxInv, TypeOK
  <2>2. CASE ~NextMessage(d)
    <3>1. <<Entry(d), "handler">> \in dlq' /\ Goto(d, "delete")
      BY <1>6, <2>2 DEF SendToDLQ, WhenUnsent
    <3>2. pc'[d] = "delete" /\ Entry(d)' = Entry(d)
      BY <3>1 DEF Goto, Entry, InboxInv, TypeOK
    <3>3. QED
      BY <3>1, <3>2 DEF Informed
  <2>3. QED
    BY <2>1, <2>2
<1>7. QED
  <2>1. ASSUME NEW c \in Consumers, Claim(c) \/ Process(c) \/ SendToDLQ(c), c # d
        PROVE  pc'[d] = pc[d] /\ batch'[d] = batch[d]
    BY <2>1 DEF Claim, Process, SendToDLQ, WhenTransient, WhenUnsent, Goto, NextMessage,
                InboxInv, TypeOK, BatchShape
  <2>2. ASSUME NEW m \in Entries, Send(m) \/ Redrive(m) \/ Reappear(m) \/ Overtake(m)
        PROVE  UNCHANGED <<pc, batch>>
    BY <2>2 DEF Send, Redrive, Reappear, Overtake
  <2>3. ASSUME NEW x \in ExternalIds, NEW payload \in Payloads, Elsewhere(x, payload)
        PROVE  UNCHANGED <<pc, batch>>
    BY <2>3 DEF Elsewhere
  <2>4. ASSUME pc'[d] \notin {"delete", "dead"} PROVE Informed(d)'
    BY <2>4 DEF Informed
  <2>5. QED
    BY <1>2, <1>3, <1>4, <1>5, <1>6, <2>1, <2>2, <2>3, <2>4 DEF Next, Step, vars

(* Only Claim lets a consumer process, and only an entry whose id is free. *)
LEMMA ClaimsNext ==
  ASSUME InboxInv, [Next]_vars
  PROVE  ClaimedAlone'
<1>1. ASSUME NEW c \in Consumers, Claim(c) PROVE ClaimedAlone'
  <2>1. PICK label \in {"process", "delete", "dead"} : Goto(c, label)
    BY <1>1 DEF Claim
  <2>2. /\ pc' = [pc EXCEPT ![c] = label] /\ batch' = batch
        /\ inbox' = inbox
    BY <1>1, <2>1 DEF Goto, Claim, tables
  <2>3. \A d \in Consumers : pc'[d] = IF d = c THEN label ELSE pc[d]
    BY <2>2 DEF InboxInv, TypeOK
  <2>4. ASSUME label = "process"
        PROVE  /\ Body[Entry(c)].fault # "invalid" /\ ~Done(Entry(c))
               /\ \A d \in Consumers \ {c} :
                    pc[d] = "process" => Body[Entry(d)].id # Body[Entry(c)].id
    BY <1>1, <2>2, <2>4 DEF Claim, Goto, InboxInv, TypeOK
  <2>5. \A d \in Consumers : pc'[d] = "process" =>
          Body[Entry(d)].fault # "invalid" /\ ~Done(Entry(d))
    BY <2>3, <2>4 DEF InboxInv, ClaimedAlone
  <2>6. \A d, e \in Consumers :
          (d # e /\ pc'[d] = "process" /\ pc'[e] = "process") =>
            Body[Entry(d)].id # Body[Entry(e)].id
    BY <2>3, <2>4 DEF InboxInv, ClaimedAlone
  <2>7. QED
    BY <2>2, <2>5, <2>6 DEF ClaimedAlone, Entry, Done
<1>2. ASSUME NEW c \in Consumers, Process(c), ~UNCHANGED tables PROVE ClaimedAlone'
  <2>1. /\ Body[Entry(c)].id \in MessageIds
        /\ \A i \in MessageIds : i # Body[Entry(c)].id => inbox'[i] = inbox[i]
        /\ pc' = [pc EXCEPT ![c] = "delete"] /\ batch' = batch /\ pc[c] = "process"
    BY <1>2, CompletesRow DEF Process
  <2>2. \A d \in Consumers : pc'[d] = "process" => pc[d] = "process" /\ d # c
    BY <2>1 DEF InboxInv, TypeOK
  <2>3. ASSUME NEW d \in Consumers, pc'[d] = "process"
        PROVE  /\ Body[Entry(d)].fault # "invalid"
               /\ inbox'[Body[Entry(d)].id] = None
    <3>1. Body[Entry(d)] \in BodyType
      BY <2>2, <2>3, AtWork DEF InboxInv
    <3>2. Body[Entry(d)].id # Body[Entry(c)].id /\ ~Done(Entry(d))
      BY <2>1, <2>2, <2>3 DEF InboxInv, ClaimedAlone
    <3>3. QED
      BY <2>1, <2>2, <2>3, <3>1, <3>2 DEF Done, BodyType, InboxInv, ClaimedAlone
  <2>4. QED
    BY <2>1, <2>2, <2>3 DEF InboxInv, ClaimedAlone, Entry, Done
<1>3. ASSUME inbox' = inbox,
             \A d \in Consumers : pc'[d] = "process" =>
               pc[d] = "process" /\ batch'[d] = batch[d]
      PROVE  ClaimedAlone'
  BY <1>3 DEF InboxInv, ClaimedAlone, Entry, Done
<1>4. ASSUME NEW c \in Consumers,
             \/ Receive(c) \/ Delete(c) \/ SendToDLQ(c) \/ Crash(c)
             \/ Process(c) /\ UNCHANGED tables
      PROVE  /\ inbox' = inbox
             /\ \A d \in Consumers : pc'[d] = "process" =>
                  pc[d] = "process" /\ batch'[d] = batch[d]
  <2>1. inbox' = inbox
    BY <1>4 DEF Receive, Delete, SendToDLQ, Crash, tables
  <2>2. CASE Receive(c) \/ Crash(c)
    BY <2>1, <2>2 DEF Receive, Crash, InboxInv, TypeOK, BatchShape
  <2>3. CASE Delete(c) \/ SendToDLQ(c) \/ Process(c)
    <3>1. \/ NextMessage(c)
          \/ \E label \in {"delete", "dead"} : Goto(c, label)
      BY <2>3 DEF Delete, SendToDLQ, Process, WhenTransient, WhenUnsent
    <3>2. QED
      BY <2>1, <3>1 DEF NextMessage, Goto, InboxInv, TypeOK, BatchShape
  <2>4. QED
    BY <1>4, <2>2, <2>3
<1>5. QED
  <2>1. ASSUME NEW m \in Entries, Send(m) \/ Redrive(m) \/ Reappear(m) \/ Overtake(m)
        PROVE  UNCHANGED <<inbox, pc, batch>>
    BY <2>1 DEF Send, Redrive, Reappear, Overtake, tables
  <2>2. ASSUME NEW x \in ExternalIds, NEW payload \in Payloads, Elsewhere(x, payload)
        PROVE  UNCHANGED <<inbox, pc, batch>>
    BY <2>2 DEF Elsewhere
  <2>3. ASSUME UNCHANGED <<inbox, pc, batch>> PROVE ClaimedAlone'
    BY <1>3, <2>3
  <2>4. QED
    BY <1>1, <1>2, <1>3, <1>4, <2>1, <2>2, <2>3 DEF Next, Step, vars

-----------------------------------------------------------------------------
(* The queue and the dead letters.                                          *)

LEMMA QueueNext ==
  ASSUME InboxInv, [Next]_vars
  PROVE  GoneSettled' /\ LettersHopeless'
<1>1. RowsStay /\ TypeOK
  BY RowsAreKept DEF InboxInv
<1>2. ASSUME NEW m \in Entries, queue'[m] = "gone" PROVE (Completed(m) \/ DeadLettered(m) # {})'
  <2>1. CASE queue[m] = "gone"
    BY <1>1, <2>1, Lasting DEF InboxInv, GoneSettled
  <2>2. CASE queue[m] # "gone"
    <3>1. ASSUME NEW n \in Entries, Redrive(n) PROVE DeadLettered(m)' # {}
      <4>1. n = m /\ <<m, "redrive">> \in dlq'
        BY <1>1, <1>2, <2>2, <3>1 DEF Redrive, TypeOK
      <4>2. QED
        BY <4>1 DEF DeadLettered
    <3>2. ASSUME NEW c \in Consumers, Delete(c)
          PROVE  (Completed(m) \/ DeadLettered(m) # {})'
      <4>1. m = Entry(c) /\ pc[c] = "delete"
        BY <1>1, <1>2, <2>2, <3>2 DEF Delete, TypeOK
      <4>2. Completed(m) \/ <<m, "handler">> \in dlq
        BY <4>1 DEF InboxInv, Informed, Completed, Recorded
      <4>3. Completed(m) \/ DeadLettered(m) # {}
        BY <4>2 DEF DeadLettered
      <4>4. QED
        BY <1>1, <4>3, Lasting
    <3>3. ASSUME NEW c \in Consumers, Receive(c) PROVE FALSE
      <4>1. queue'[m] = queue[m] \/ queue'[m] = "inflight"
        BY <1>1, <3>3 DEF Receive, TypeOK
      <4>2. QED
        BY <1>2, <2>2, <4>1
    <3>4. ASSUME NEW n \in Entries, Send(n) \/ Reappear(n) \/ Overtake(n) PROVE FALSE
      BY <1>1, <1>2, <2>2, <3>4 DEF Send, Reappear, Overtake, TypeOK
    <3>5. queue' # queue
      BY <1>2, <2>2
    <3>6. ASSUME NEW c \in Consumers, Claim(c) \/ Process(c) \/ SendToDLQ(c) \/ Crash(c)
          PROVE  FALSE
      BY <3>5, <3>6 DEF Claim, Process, SendToDLQ, Crash, brokers
    <3>7. ASSUME NEW x \in ExternalIds, NEW payload \in Payloads, Elsewhere(x, payload)
          PROVE  FALSE
      BY <3>5, <3>7 DEF Elsewhere, brokers
    <3>8. QED
      BY <3>1, <3>2, <3>3, <3>4, <3>5, <3>6, <3>7 DEF Next, Step, vars
  <2>3. QED
    BY <2>1, <2>2
<1>3. ASSUME NEW m \in Entries, <<m, "handler">> \in dlq' PROVE Hopeless(m)'
  <2>1. CASE <<m, "handler">> \in dlq
    BY <1>1, <2>1, Lasting DEF InboxInv, LettersHopeless
  <2>2. CASE <<m, "handler">> \notin dlq
    <3>1. ASSUME NEW c \in Consumers, SendToDLQ(c) PROVE Hopeless(m)
      <4>1. m = Entry(c) /\ pc[c] = "dead"
        BY <1>3, <2>2, <3>1 DEF SendToDLQ
      <4>2. QED
        BY <4>1 DEF InboxInv, Informed, Hopeless, Done, SameBody, Known
    <3>2. ASSUME NEW n \in Entries, Redrive(n) PROVE FALSE
      BY <1>3, <2>2, <3>2 DEF Redrive
    <3>3. dlq' # dlq
      BY <1>3, <2>2
    <3>4. ASSUME NEW n \in Entries, Send(n) \/ Reappear(n) \/ Overtake(n) PROVE FALSE
      BY <3>3, <3>4 DEF Send, Reappear, Overtake
    <3>5. ASSUME NEW c \in Consumers,
                 Receive(c) \/ Claim(c) \/ Process(c) \/ Delete(c) \/ Crash(c)
          PROVE  FALSE
      BY <3>3, <3>5 DEF Receive, Claim, Process, Delete, Crash, brokers
    <3>6. ASSUME NEW x \in ExternalIds, NEW payload \in Payloads, Elsewhere(x, payload)
          PROVE  FALSE
      BY <3>3, <3>6 DEF Elsewhere, brokers
    <3>7. Hopeless(m)
      BY <3>1, <3>2, <3>3, <3>4, <3>5, <3>6 DEF Next, Step, vars
    <3>8. QED
      BY <1>1, <3>7, Lasting
  <2>3. QED
    BY <2>1, <2>2
<1>4. QED
  BY <1>2, <1>3 DEF GoneSettled, LettersHopeless

-----------------------------------------------------------------------------
(* What follows of every behaviour.                                         *)

LEMMA InboxInit == Init => InboxInv
<1> SUFFICES ASSUME Init PROVE InboxInv
  OBVIOUS
<1>1. Shape
  BY ConsumerAssumption DEF Init, Shape, TypeOK, BatchShape
<1>2. RowsTrue /\ ClaimedAlone /\ GoneSettled /\ LettersHopeless
      /\ \A c \in Consumers : Informed(c)
  BY DEF Init, RowsTrue, ClaimedAlone, GoneSettled, LettersHopeless, Informed
<1>3. HandledAreRows
  BY DEF Init, HandledAreRows
<1>4. QED
  BY <1>1, <1>2, <1>3 DEF InboxInv, Shape

LEMMA InboxNext == InboxInv /\ [Next]_vars => InboxInv'
<1> SUFFICES ASSUME InboxInv, [Next]_vars PROVE InboxInv'
  OBVIOUS
<1>1. Shape'
  BY ShapeNext DEF InboxInv, Shape
<1>2. \A c \in Consumers : Informed(c)'
  BY InformedNext
<1>3. QED
  BY <1>1, <1>2, RowsNext, ClaimsNext, QueueNext DEF InboxInv, Shape

LEMMA InboxInvariant == Spec => []InboxInv
BY InboxInit, InboxNext, PTL DEF Spec

\* An entry that has left the queue is completed in the inbox with its operation
\* in force, or is a dead letter, whatever crashed, timed out or was delivered
\* again (Run, Handle, sendToDLQ).
THEOREM NothingIsDropped == Spec => []NothingDropped
<1>1. InboxInv => NothingDropped
  BY DEF InboxInv, GoneSettled, Completed, NothingDropped
<1>2. QED
  BY <1>1, InboxInvariant, PTL

\* A completed message stands for an operation in force with its payload and is
\* completed once, although two consumers may hold it (Claim, Complete).
THEOREM InboxIsTrue == Spec => []InboxTellsTheTruth
<1>1. ASSUME InboxInv PROVE InboxTellsTheTruth
  <2>1. ASSUME NEW i \in 1..Len(handled)
        PROVE  /\ Recorded(handled[i])
               /\ applied[Body[handled[i]].ext] = Body[handled[i]].payload
    <3>1. handled[i] \in Entries
      BY <1>1, <2>1, ElementOfSeq DEF InboxInv, BatchShape
    <3>2. inbox[Body[handled[i]].id] = handled[i] /\ Body[handled[i]].id \in MessageIds
          /\ handled[i] # None
      BY <1>1, <3>1, ConsumerAssumption DEF InboxInv, HandledAreRows, BodyType
    <3>3. QED
      BY <1>1, <3>1, <3>2 DEF InboxInv, RowsTrue, Recorded
  <2>2. \A m \in ToSet(handled) : \E i \in 1..Len(handled) : m = handled[i]
    BY <1>1 DEF ToSet, InboxInv, BatchShape
  <2>3. QED
    BY <1>1, <2>1, <2>2 DEF InboxTellsTheTruth, InboxInv, HandledAreRows
<1>2. QED
  BY <1>1, InboxInvariant, PTL

\* Whatever the handler sent to the dead-letter queue as unprocessable is never
\* completed, by any later delivery or producer's copy of it (IsPermanent).
THEOREM VerdictsAreFinal == Spec => []VerdictsStand
<1>1. InboxInv => VerdictsStand
  BY HopelessNotRecorded DEF InboxInv, LettersHopeless, VerdictsStand
<1>2. QED
  BY <1>1, InboxInvariant, PTL

-----------------------------------------------------------------------------
(* What the inbox implements.                                               *)

(* Whatever a consumer has in its batch was sent. *)
Held ==
  \A c \in Consumers : \A i \in 1..Len(batch[c]) : queue[batch[c][i].entry] # "unsent"

(* What was sent stays sent. *)
LEMMA SentStays ==
  ASSUME Shape, [Next]_vars, NEW m \in Entries, queue[m] # "unsent"
  PROVE  queue'[m] # "unsent"
<1>1. ASSUME NEW n \in Entries, Send(n) \/ Redrive(n) \/ Reappear(n) \/ Overtake(n)
      PROVE  queue'[m] # "unsent"
  BY <1>1 DEF Send, Redrive, Reappear, Overtake, Shape, TypeOK
<1>2. ASSUME NEW c \in Consumers, Receive(c)
      PROVE  queue'[m] = queue[m] \/ queue'[m] = "inflight"
  BY <1>2 DEF Receive, Shape, TypeOK
<1>3. ASSUME NEW c \in Consumers, Delete(c) PROVE queue'[m] # "unsent"
  BY <1>3 DEF Delete, Shape, TypeOK
<1>4. ASSUME NEW c \in Consumers, Claim(c) \/ Process(c) \/ SendToDLQ(c) \/ Crash(c)
      PROVE  queue' = queue
  BY <1>4 DEF Claim, Process, SendToDLQ, Crash, brokers
<1>5. ASSUME NEW x \in ExternalIds, NEW payload \in Payloads, Elsewhere(x, payload)
      PROVE  queue' = queue
  BY <1>5 DEF Elsewhere, brokers
<1>6. QED
  BY <1>1, <1>2, <1>3, <1>4, <1>5 DEF Next, Step, vars

(* A batch is received, gets shorter, or is lost. *)
LEMMA BatchNext ==
  ASSUME Shape, [Next]_vars, NEW d \in Consumers
  PROVE  \/ batch'[d] = batch[d]
         \/ batch[d] # <<>> /\ batch'[d] = Tail(batch[d])
         \/ batch'[d] = <<>>
         \/ \A i \in 1..Len(batch'[d]) : queue'[batch'[d][i].entry] = "inflight"
<1>1. ASSUME NEW c \in Consumers, Receive(c), c = d
      PROVE  \A i \in 1..Len(batch'[d]) : queue'[batch'[d][i].entry] = "inflight"
  <2>1. PICK k \in 1..MaxMessages : \E s \in [1..k -> {m \in Entries : Receivable(m)}] :
           /\ queue' = [m \in Entries |->
                          IF m \in {s[i] : i \in 1..k} THEN "inflight" ELSE queue[m]]
           /\ batch' = [batch EXCEPT ![c] =
                [i \in 1..k |-> [entry |-> s[i], receipt |-> receives[s[i]] + 1]]]
    BY <1>1 DEF Receive
  <2>2. PICK s \in [1..k -> {m \in Entries : Receivable(m)}] :
           /\ queue' = [m \in Entries |->
                          IF m \in {s[i] : i \in 1..k} THEN "inflight" ELSE queue[m]]
           /\ batch' = [batch EXCEPT ![c] =
                [i \in 1..k |-> [entry |-> s[i], receipt |-> receives[s[i]] + 1]]]
    BY <2>1
  <2>3. batch'[d] = [i \in 1..k |-> [entry |-> s[i], receipt |-> receives[s[i]] + 1]]
    BY <1>1, <2>2 DEF Shape, BatchShape
  <2>4. k \in Nat
    BY ConsumerAssumption
  <2>5. Len(batch'[d]) = k
    BY <2>3, <2>4
  <2>6. \A i \in 1..k : batch'[d][i].entry = s[i] /\ queue'[s[i]] = "inflight"
    BY <2>2, <2>3
  <2>7. QED
    BY <2>5, <2>6
<1>2. ASSUME NEW c \in Consumers, Receive(c), c # d PROVE batch'[d] = batch[d]
  BY <1>2 DEF Receive, Shape, BatchShape
<1>3. ASSUME NEW c \in Consumers, Claim(c) \/ Process(c) \/ Delete(c) \/ SendToDLQ(c)
      PROVE  \/ batch'[d] = batch[d]
             \/ batch[d] # <<>> /\ batch'[d] = Tail(batch[d])
  <2>1. /\ pc[c] # "idle"
        /\ NextMessage(c) \/ batch' = batch
    BY <1>3 DEF Claim, Process, Delete, SendToDLQ, WhenTransient, WhenUnsent, Goto
  <2>2. batch[c] # <<>>
    BY <2>1, AtWork DEF Shape
  <2>3. QED
    BY <2>1, <2>2 DEF NextMessage, Shape, BatchShape
<1>4. ASSUME NEW c \in Consumers, Crash(c)
      PROVE  batch'[d] = batch[d] \/ batch'[d] = <<>>
  BY <1>4 DEF Crash, Shape, BatchShape
<1>5. ASSUME NEW m \in Entries, Send(m) \/ Redrive(m) \/ Reappear(m) \/ Overtake(m)
      PROVE  batch' = batch
  BY <1>5 DEF Send, Redrive, Reappear, Overtake
<1>6. ASSUME NEW x \in ExternalIds, NEW payload \in Payloads, Elsewhere(x, payload)
      PROVE  batch' = batch
  BY <1>6 DEF Elsewhere
<1>7. QED
  BY <1>1, <1>2, <1>3, <1>4, <1>5, <1>6 DEF Next, Step, vars

LEMMA HeldNext == Shape /\ Held /\ [Next]_vars => Held'
<1> SUFFICES ASSUME Shape, Held, [Next]_vars, NEW d \in Consumers,
                    NEW i \in 1..Len(batch'[d])
             PROVE  queue'[batch'[d][i].entry] # "unsent"
  BY DEF Held
<1>1. batch[d] \in Seq(Delivery)
  BY DEF Shape, BatchShape
<1>2. \A j \in 1..Len(batch[d]) :
        /\ batch[d][j].entry \in Entries
        /\ queue'[batch[d][j].entry] # "unsent"
  <2>1. ASSUME NEW j \in 1..Len(batch[d])
        PROVE  batch[d][j].entry \in Entries /\ queue[batch[d][j].entry] # "unsent"
    <3>1. batch[d][j] \in Delivery
      BY <1>1, <2>1, ElementOfSeq
    <3>2. QED
      BY <3>1, <2>1 DEF Held, Delivery
  <2>2. QED
    BY <2>1, SentStays
<1>3. CASE batch'[d] = batch[d]
  BY <1>2, <1>3
<1>4. CASE batch[d] # <<>> /\ batch'[d] = Tail(batch[d])
  <2>1. /\ Len(batch'[d]) = Len(batch[d]) - 1
        /\ \A j \in 1..Len(batch'[d]) : batch'[d][j] = batch[d][j + 1]
    BY <1>1, <1>4, HeadTailProperties
  <2>2. Len(batch[d]) \in Nat
    BY <1>1, LenProperties
  <2>3. i + 1 \in 1..Len(batch[d]) /\ batch'[d][i] = batch[d][i + 1]
    BY <2>1, <2>2
  <2>4. QED
    BY <1>2, <2>3
<1>5. CASE batch'[d] = <<>>
  BY <1>5
<1>6. CASE \A j \in 1..Len(batch'[d]) : queue'[batch'[d][j].entry] = "inflight"
  BY <1>6
<1>7. QED
  BY <1>3, <1>4, <1>5, <1>6, BatchNext

(* An entry a consumer works on was sent. *)
LEMMA WorksOnSent ==
  ASSUME Shape, Held, NEW c \in Consumers, pc[c] # "idle"
  PROVE  Entry(c) \in {m \in Entries : queue[m] # "unsent"}
<1>1. batch[c] \in Seq(Delivery) /\ batch[c] # <<>> /\ Entry(c) \in Entries
  BY AtWork DEF Shape
<1>2. 1 \in 1..Len(batch[c]) /\ Head(batch[c]) = batch[c][1]
  BY <1>1, HeadTailProperties, EmptySeq, LenProperties
<1>3. QED
  BY <1>1, <1>2 DEF Held, Entry

IntakeInv == InboxInv /\ Held

LEMMA IntakeInvariant == Spec => []IntakeInv
<1>1. Init => Held
  BY DEF Init, Held
<1>2. InboxInv => Shape
  BY DEF InboxInv, Shape
<1>3. IntakeInv /\ [Next]_vars => IntakeInv'
  BY <1>2, HeldNext, InboxNext DEF IntakeInv
<1>4. Init => IntakeInv
  BY <1>1, InboxInit DEF IntakeInv
<1>5. QED
  BY <1>3, <1>4, PTL DEF Spec

LEMMA IntakeStarts == Init => Intake!Init
BY DEF Init, Intake!Init

(* Each action is the step of MessageIntake it stands for, or none. *)
LEMMA IntakeSteps ==
  ASSUME IntakeInv, [Next]_vars
  PROVE  [Intake!Next]_Intake!vars
<1> DEFINE Posted  == {m \in Entries : queue[m] # "unsent"}
           Refused == {m \in Entries : <<m, "handler">> \in dlq}
           GivenUp == {m \in Entries : <<m, "redrive">> \in dlq}
           Left    == {m \in Entries : queue[m] = "gone"}
<1>0. Shape /\ InboxInv /\ Held /\ queue \in [Entries -> {"unsent", "visible", "inflight", "gone"}]
  BY DEF IntakeInv, InboxInv, Shape, TypeOK
<1>1. ASSUME Posted' = Posted, Left' = Left, UNCHANGED <<dlq, inbox, applied>>
      PROVE  UNCHANGED Intake!vars
  BY <1>1 DEF Intake!vars
<1>2. ASSUME UNCHANGED <<queue, dlq, inbox, applied>>
      PROVE  UNCHANGED Intake!vars
  BY <1>1, <1>2
<1>3. ASSUME NEW m \in Entries, Send(m) PROVE Intake!Post(m)
  <2>1. /\ queue[m] = "unsent" /\ queue' = [queue EXCEPT ![m] = "visible"]
        /\ UNCHANGED <<dlq, inbox, applied>>
    BY <1>3 DEF Send, tables
  <2>2. m \notin Posted /\ Posted' = Posted \cup {m} /\ Left' = Left
    BY <1>0, <2>1
  <2>3. QED
    BY <2>1, <2>2 DEF Intake!Post
<1>4. ASSUME NEW m \in Entries, Redrive(m) PROVE Intake!GiveUp(m)
  <2>1. /\ queue[m] = "visible" /\ queue' = [queue EXCEPT ![m] = "gone"]
        /\ dlq' = dlq \cup {<<m, "redrive">>} /\ UNCHANGED <<inbox, applied>>
    BY <1>4 DEF Redrive, tables
  <2>2. m \in Posted \ Left /\ Posted' = Posted /\ Left' = Left \cup {m}
    BY <1>0, <2>1
  <2>3. GivenUp' = GivenUp \cup {m} /\ Refused' = Refused
    BY <2>1
  <2>4. QED
    BY <2>1, <2>2, <2>3 DEF Intake!GiveUp
<1>5. ASSUME NEW m \in Entries, Reappear(m) \/ Overtake(m) PROVE UNCHANGED Intake!vars
  <2>1. /\ queue[m] = "inflight" /\ queue' = [queue EXCEPT ![m] = "visible"]
        /\ UNCHANGED <<dlq, inbox, applied>>
    BY <1>5 DEF Reappear, Overtake, tables
  <2>2. Posted' = Posted /\ Left' = Left
    BY <1>0, <2>1
  <2>3. QED
    BY <1>1, <2>1, <2>2
<1>6. ASSUME NEW c \in Consumers, Receive(c) PROVE UNCHANGED Intake!vars
  <2>1. UNCHANGED <<dlq, inbox, applied>>
    BY <1>6 DEF Receive, tables
  <2>2. ASSUME NEW m \in Entries
        PROVE  \/ queue'[m] = queue[m]
               \/ queue[m] = "visible" /\ queue'[m] = "inflight"
    BY <1>0, <1>6 DEF Receive, Receivable
  <2>3. Posted' = Posted /\ Left' = Left
    BY <2>2
  <2>4. QED
    BY <1>1, <2>1, <2>3
<1>7. ASSUME NEW c \in Consumers, Claim(c) \/ Crash(c) PROVE UNCHANGED Intake!vars
  BY <1>2, <1>7 DEF Claim, Crash, brokers, tables
<1>8. ASSUME NEW c \in Consumers, Process(c)
      PROVE  (\E m \in Entries : Intake!Complete(m)) \/ UNCHANGED Intake!vars
  <2>1. UNCHANGED brokers /\ pc[c] # "idle"
    BY <1>8 DEF Process
  <2>2. CASE UNCHANGED tables
    BY <1>2, <2>1, <2>2 DEF brokers, tables
  <2>3. CASE ~UNCHANGED tables
    <3>1. PICK m \in Entries : m = Entry(c) /\ m \in Posted
      BY <1>0, <2>1, WorksOnSent
    <3>2. /\ Accepted(m)
          /\ inbox' = [inbox EXCEPT ![Body[m].id] = m]
          /\ applied' = [applied EXCEPT ![Body[m].ext] =
                           IF @ = None THEN Body[m].payload ELSE @]
      BY <1>8, <2>3, <3>1 DEF Process
    <3>3. inbox[Body[m].id] = None
      BY <1>0, <1>8, <2>3, <3>1, CompletesRow
    <3>4. /\ Body[m].fault = "none"
          /\ applied[Body[m].ext] \in {None, Body[m].payload}
      BY <3>2 DEF Accepted, Known
    <3>5. applied' = [applied EXCEPT ![Body[m].ext] = Body[m].payload]
      BY <3>2, <3>4
    <3>6. UNCHANGED <<queue, dlq>>
      BY <2>1 DEF brokers
    <3>7. UNCHANGED <<Posted, Refused, GivenUp, Left>>
      BY <3>6
    <3> HIDE DEF Posted, Refused, GivenUp, Left
    <3>8. Intake!Complete(m)
      BY <3>1, <3>2, <3>3, <3>4, <3>5, <3>7 DEF Intake!Complete, Posted, Refused, GivenUp, Left
    <3>9. QED
      BY <3>8
  <2>4. QED
    BY <2>2, <2>3
<1>9. ASSUME NEW c \in Consumers, Delete(c)
      PROVE  (\E m \in Entries : Intake!Leave(m)) \/ UNCHANGED Intake!vars
  <2>1. pc[c] = "delete" /\ UNCHANGED <<dlq, inbox, applied>>
    BY <1>9 DEF Delete, tables
  <2>2. PICK m \in Entries : m = Entry(c)
    BY <1>0, <2>1, WorksOnSent
  <2>3. CASE queue' = queue
    BY <1>2, <2>1, <2>3
  <2>4. CASE queue' # queue
    <3>1. queue[m] = "inflight" /\ queue' = [queue EXCEPT ![m] = "gone"]
      BY <1>9, <2>2, <2>4 DEF Delete, ReceiptValid
    <3>2. m \in Posted \ Left /\ Posted' = Posted /\ Left' = Left \cup {m}
      BY <1>0, <3>1
    <3>3. Completed(m) \/ m \in Refused
      BY <1>0, <2>1, <2>2 DEF InboxInv, Informed, Completed, Recorded
    <3>4. Completed(m) => Intake!InForce(m)
      BY DEF Completed, Recorded, Intake!InForce
    <3>5. Intake!Leave(m)
      BY <2>1, <3>2, <3>3, <3>4 DEF Intake!Leave
    <3>6. QED
      BY <3>5
  <2>5. QED
    BY <2>3, <2>4
<1>10. ASSUME NEW c \in Consumers, SendToDLQ(c)
       PROVE  (\E m \in Entries : Intake!Refuse(m)) \/ UNCHANGED Intake!vars
  <2>1. pc[c] = "dead" /\ UNCHANGED <<queue, inbox, applied>>
    BY <1>10 DEF SendToDLQ, tables
  <2>2. PICK m \in Entries : m = Entry(c) /\ m \in Posted
    BY <1>0, <2>1, WorksOnSent
  <2>3. CASE dlq' = dlq
    BY <1>2, <2>1, <2>3
  <2>4. CASE dlq' = dlq \cup {<<m, "handler">>}
    <3>1. Hopeless(m)
      BY <1>0, <2>1, <2>2 DEF InboxInv, Informed, Hopeless, Done, SameBody, Known
    <3>2. Intake!Hopeless(m)
      BY <3>1 DEF Hopeless, Done, SameBody, Known, Intake!Hopeless
    <3>3. Refused' = Refused \cup {m} /\ GivenUp' = GivenUp
      BY <2>4
    <3>4. Intake!Refuse(m)
      BY <2>1, <2>2, <3>2, <3>3 DEF Intake!Refuse
    <3>5. QED
      BY <3>4
  <2>5. QED
    BY <1>10, <2>2, <2>3, <2>4 DEF SendToDLQ
<1>11. ASSUME NEW x \in ExternalIds, NEW payload \in Payloads, Elsewhere(x, payload)
       PROVE  Intake!Elsewhere(x, payload)
  BY <1>11 DEF Elsewhere, brokers, Intake!Elsewhere
<1>12. CASE UNCHANGED vars
  BY <1>2, <1>12 DEF vars
<1>13. ASSUME NEW c \in Consumers, Step(c) \/ Receive(c) \/ Crash(c)
       PROVE  [Intake!Next]_Intake!vars
  BY <1>6, <1>7, <1>8, <1>9, <1>10, <1>13 DEF Step, Intake!Next
<1>14. ASSUME NEW m \in Entries, Send(m) \/ Redrive(m) \/ Reappear(m) \/ Overtake(m)
       PROVE  [Intake!Next]_Intake!vars
  BY <1>3, <1>4, <1>5, <1>14 DEF Intake!Next
<1>15. QED
  BY <1>11, <1>12, <1>13, <1>14 DEF Next, Intake!Next

\* The consumers implement MessageIntake: whatever is delivered twice, late or to
\* two of them, a message takes effect once with its inbox row, is refused only
\* for good, and leaves the queue in no other way (Run, Handle, classify).
THEOREM IntakeIsKept == Spec => KeepsIntake
<1>1. IntakeInv /\ [Next]_vars => [Intake!Next]_Intake!vars
  BY IntakeSteps
<1>2. QED
  BY IntakeStarts, <1>1, IntakeInvariant, PTL DEF Spec, KeepsIntake, Intake!Spec
=============================================================================
