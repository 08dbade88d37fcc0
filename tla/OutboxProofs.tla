------------------------------ MODULE OutboxProofs ------------------------------
(***************************************************************************)
(* The order of the outbox and what it promises to readers of the queue,    *)
(* for any number of events, aggregates and publishers.                     *)
(***************************************************************************)
EXTENDS OutboxPublisher, FiniteSetTheorems, TLAPS

-----------------------------------------------------------------------------
(* Sequences that grow.                                                     *)

\* An appended element is the only new one.
LEMMA Appended ==
  ASSUME NEW s \in Seq(Events), NEW e \in Events
  PROVE  /\ Append(s, e) \in Seq(Events)
         /\ ElementsOf(Append(s, e)) = ElementsOf(s) \cup {e}
<1> DEFINE t == Append(s, e)
<1>1. /\ t \in Seq(Events) /\ Len(t) = Len(s) + 1 /\ Len(s) \in Nat
      /\ t[Len(s) + 1] = e
      /\ \A i \in 1..Len(s) : t[i] = s[i]
  OBVIOUS
<1>2. ElementsOf(t) \subseteq ElementsOf(s) \cup {e}
  BY <1>1 DEF ElementsOf
<1>3. ElementsOf(s) \cup {e} \subseteq ElementsOf(t)
  <2>1. e \in ElementsOf(t)
    BY <1>1 DEF ElementsOf
  <2>2. ASSUME NEW i \in 1..Len(s) PROVE s[i] \in ElementsOf(t)
    BY <1>1 DEF ElementsOf
  <2> QED BY <2>1, <2>2 DEF ElementsOf
<1> QED BY <1>1, <1>2, <1>3

\* An order that holds is not disturbed by what is appended, if what is
\* appended has its predecessor there.
LEMMA PrecedesAppended ==
  ASSUME NEW s \in Seq(Events), NEW g \in Events, NEW e \in Events, NEW f \in Events,
         Precedes(s, e, f), g = f => e \in ElementsOf(s)
  PROVE  Precedes(Append(s, g), e, f)
<1> DEFINE t == Append(s, g)
<1>1. /\ Len(t) = Len(s) + 1 /\ Len(s) \in Nat
      /\ t[Len(s) + 1] = g
      /\ \A i \in 1..Len(s) : t[i] = s[i]
  OBVIOUS
<1>2. SUFFICES ASSUME NEW j \in 1..Len(t), t[j] = f
               PROVE  \E i \in 1..(j - 1) : t[i] = e
  BY DEF Precedes
<1>3. CASE j \in 1..Len(s)
  <2>1. PICK i \in 1..(j - 1) : s[i] = e
    BY <1>1, <1>2, <1>3 DEF Precedes
  <2> QED BY <1>1, <1>3, <2>1
<1>4. CASE j = Len(s) + 1
  <2>1. PICK i \in 1..Len(s) : s[i] = e
    BY <1>1, <1>2, <1>4 DEF ElementsOf
  <2> QED BY <1>1, <1>4, <2>1
<1> QED BY <1>1, <1>3, <1>4

\* Nor was it there before if it is not there now.
LEMMA PrecededBefore ==
  ASSUME NEW s \in Seq(Events), NEW g \in Events, NEW e \in Events, NEW f \in Events,
         Precedes(Append(s, g), e, f)
  PROVE  Precedes(s, e, f)
<1> DEFINE t == Append(s, g)
<1>1. /\ Len(t) = Len(s) + 1 /\ Len(s) \in Nat
      /\ \A i \in 1..Len(s) : t[i] = s[i]
  OBVIOUS
<1>2. SUFFICES ASSUME NEW j \in 1..Len(s), s[j] = f
               PROVE  \E i \in 1..(j - 1) : s[i] = e
  BY DEF Precedes
<1>3. PICK i \in 1..(j - 1) : t[i] = e
  BY <1>1, <1>2 DEF Precedes
<1> QED BY <1>1, <1>2, <1>3

\* Only what is there can come first.
LEMMA PrecedesIsThere ==
  ASSUME NEW s \in Seq(Events), NEW e \in Events, NEW f \in Events,
         Precedes(s, e, f), f \in ElementsOf(s)
  PROVE  e \in ElementsOf(s)
<1>1. PICK j \in 1..Len(s) : s[j] = f
  BY DEF ElementsOf
<1>2. PICK i \in 1..(j - 1) : s[i] = e
  BY <1>1 DEF Precedes
<1> QED BY <1>1, <1>2 DEF ElementsOf

\* What is not there comes after anything.
LEMMA AbsentPreceded ==
  ASSUME NEW s \in Seq(Events), NEW e, NEW f, f \notin ElementsOf(s)
  PROVE  Precedes(s, e, f)
BY DEF Precedes, ElementsOf

-----------------------------------------------------------------------------
(* Types.                                                                   *)

\* Nothing has happened yet.
LEMMA InitTypes == Init => TypeOK
BY OutboxAssumption DEF Init, TypeOK, Busy

\* What TypeOK says of the rows, and of the publishers.
RowTypes ==
  published \subseteq Events /\ due \subseteq Events
    /\ lock \in [Events -> {"free", "held", "stale"}]
PublisherTypes ==
  /\ batch \in [Publishers -> SUBSET Events]
  /\ pc \in [Publishers -> {"idle", "publish", "confirm", "reschedule"}]
  /\ at \in [Publishers -> Events \cup {NoEvent}]
  /\ \A q \in Publishers :
       /\ pc[q] = "idle" => Busy(q) = {}
       /\ pc[q] \in {"confirm", "reschedule"} <=> at[q] # NoEvent

\* The loop leaves a publisher as TypeOK has it.
LEMMA LoopTypes ==
  ASSUME TypeOK, NEW p \in Publishers, NextInBatch(p)
  PROVE  PublisherTypes'
<1>1. /\ batch' = batch
      /\ at' = [at EXCEPT ![p] = NoEvent]
      /\ pc' = [pc EXCEPT ![p] = IF batch[p] = {} THEN "idle" ELSE "publish"]
  BY DEF NextInBatch
<1>2. /\ batch' \in [Publishers -> SUBSET Events]
      /\ pc' \in [Publishers -> {"idle", "publish", "confirm", "reschedule"}]
      /\ at' \in [Publishers -> Events \cup {NoEvent}]
  BY <1>1 DEF TypeOK
<1>3. ASSUME NEW q \in Publishers
      PROVE  /\ pc'[q] = "idle" => Busy(q)' = {}
             /\ pc'[q] \in {"confirm", "reschedule"} <=> at'[q] # NoEvent
  <2>1. CASE q = p
    BY <1>1, <2>1 DEF TypeOK, Busy
  <2>2. CASE q # p
    BY <1>1, <2>2 DEF TypeOK, Busy
  <2> QED BY <2>1, <2>2
<1> QED BY <1>2, <1>3 DEF PublisherTypes

\* Mishaps are counted up to their bound.
LEMMA MishapTypes ==
  ASSUME mishaps \in 0..MaxMishaps, Mishap \/ UNCHANGED mishaps
  PROVE  mishaps' \in 0..MaxMishaps
BY OutboxAssumption DEF Mishap

\* The two ways a publication ends, and what it does to the queue.
LEMMA PublishParts ==
  ASSUME NEW p \in Publishers, NEW e \in Events, Publish(p, e)
  PROVE  /\ Deliver(e) \/ UNCHANGED <<log, remembered>>
         /\ \/ Deliver(e) /\ pc' = [pc EXCEPT ![p] = "confirm"] /\ UNCHANGED mishaps
            \/ Mishap /\ pc' = [pc EXCEPT ![p] = "reschedule"]
         /\ pc[p] = "publish" /\ e \in batch[p]
         /\ at' = [at EXCEPT ![p] = e]
         /\ batch' = [batch EXCEPT ![p] = @ \ {e}]
         /\ UNCHANGED <<clock, occurredAt, committed, published, due, lock>>
BY Zenon DEF Publish, AfterSending, broker, rows

\* One step per action.
LEMMA NextTypes == TypeOK /\ [Next]_vars => TypeOK'
<1> SUFFICES ASSUME TypeOK, [Next]_vars PROVE TypeOK'
  OBVIOUS
<1> USE OutboxAssumption
<1>1. ASSUME NEW e \in Events, TakeInstant(e) PROVE TypeOK'
  BY <1>1 DEF TakeInstant, TypeOK, rows, publishing, broker, Busy
<1>2. ASSUME NEW e \in Events, Insert(e) PROVE TypeOK'
  BY <1>2 DEF Insert, TypeOK, rows, publishing, broker, Busy
<1>3. ASSUME NEW p \in Publishers, Claim(p) PROVE TypeOK'
  <2> DEFINE F == FirstOf(Candidates)
  <2>1. /\ F \in SUBSET Events
        /\ batch' = [batch EXCEPT ![p] = F]
        /\ pc' = [pc EXCEPT ![p] = "publish"] /\ pc[p] = "idle"
        /\ lock' = [e \in Events |-> IF e \in F THEN "held" ELSE lock[e]]
        /\ UNCHANGED <<clock, occurredAt, committed, published, due, at, log,
                       remembered, mishaps>>
    BY <1>3 DEF Claim, FirstOf, Candidates, broker
  <2> HIDE DEF F
  <2>2. at[p] = NoEvent
    BY <2>1 DEF TypeOK
  <2>3. RowTypes'
    BY <2>1 DEF RowTypes, TypeOK
  <2>4. PublisherTypes'
    <3>1. /\ batch' \in [Publishers -> SUBSET Events]
          /\ pc' \in [Publishers -> {"idle", "publish", "confirm", "reschedule"}]
          /\ at' \in [Publishers -> Events \cup {NoEvent}]
      BY <2>1 DEF TypeOK
    <3>2. ASSUME NEW q \in Publishers
          PROVE  /\ pc'[q] = "idle" => Busy(q)' = {}
                 /\ pc'[q] \in {"confirm", "reschedule"} <=> at'[q] # NoEvent
      <4>1. CASE q = p
        BY <2>1, <2>2, <4>1 DEF TypeOK
      <4>2. CASE q # p
        BY <2>1, <4>2 DEF TypeOK, Busy
      <4> QED BY <4>1, <4>2
    <3> QED BY <3>1, <3>2 DEF PublisherTypes
  <2> QED BY <2>1, <2>3, <2>4 DEF TypeOK, RowTypes, PublisherTypes
<1>4. ASSUME NEW p \in Publishers, NEW e \in Events, Publish(p, e) PROVE TypeOK'
  <2>1. log' \in Seq(Events) /\ remembered' \subseteq Events
    <3>1. CASE UNCHANGED <<log, remembered>>
      BY <3>1 DEF TypeOK
    <3>2. CASE Deliver(e)
      BY <3>2 DEF Deliver, TypeOK
    <3> QED BY <1>4, <3>1, <3>2, PublishParts
  <2>2. mishaps' \in 0..MaxMishaps
    <3>1. Mishap \/ UNCHANGED mishaps
      BY <1>4, PublishParts
    <3>2. mishaps \in 0..MaxMishaps
      BY DEF TypeOK
    <3> QED BY ONLY <3>1, <3>2, MishapTypes
  <2>3. pc' = [pc EXCEPT ![p] = "confirm"] \/ pc' = [pc EXCEPT ![p] = "reschedule"]
    BY <1>4, PublishParts
  <2>4. PublisherTypes'
    <3>1. /\ batch' \in [Publishers -> SUBSET Events]
          /\ pc' \in [Publishers -> {"idle", "publish", "confirm", "reschedule"}]
          /\ at' \in [Publishers -> Events \cup {NoEvent}]
      <4>1. /\ at' = [at EXCEPT ![p] = e]
            /\ batch' = [batch EXCEPT ![p] = @ \ {e}]
        BY <1>4, PublishParts
      <4> QED BY <2>3, <4>1 DEF TypeOK
    <3>2. ASSUME NEW q \in Publishers
          PROVE  /\ pc'[q] = "idle" => Busy(q)' = {}
                 /\ pc'[q] \in {"confirm", "reschedule"} <=> at'[q] # NoEvent
      <4>1. CASE q = p
        BY <1>4, <2>3, <4>1, PublishParts DEF TypeOK
      <4>2. CASE q # p
        <5>1. batch'[q] = batch[q] /\ at'[q] = at[q] /\ pc'[q] = pc[q]
          BY <1>4, <2>3, <4>2, PublishParts DEF TypeOK
        <5> QED BY <5>1 DEF TypeOK, Busy
      <4> QED BY <4>1, <4>2
    <3> QED BY <3>1, <3>2 DEF PublisherTypes
  <2> QED BY <1>4, <2>1, <2>2, <2>4, PublishParts DEF PublisherTypes, TypeOK
<1>5. ASSUME NEW p \in Publishers, Confirm(p) PROVE TypeOK'
  <2>1. PublisherTypes' /\ UNCHANGED <<clock, occurredAt, committed, log, remembered>>
    BY <1>5, LoopTypes DEF Confirm, NextInBatch, broker
  <2>2. at[p] \in Events
    BY <1>5 DEF Confirm, TypeOK
  <2>3. mishaps' \in 0..MaxMishaps
    <3>1. Mishap \/ UNCHANGED mishaps
      BY <1>5 DEF Confirm, rows
    <3>2. mishaps \in 0..MaxMishaps
      BY DEF TypeOK
    <3> QED BY ONLY <3>1, <3>2, MishapTypes
  <2>4. RowTypes'
    BY <1>5, <2>2 DEF Confirm, RowTypes, TypeOK, rows
  <2> QED BY <2>1, <2>3, <2>4 DEF TypeOK, RowTypes, PublisherTypes
<1>6. ASSUME NEW p \in Publishers, Reschedule(p) PROVE TypeOK'
  <2>1. PublisherTypes' /\ UNCHANGED <<clock, occurredAt, committed, log, remembered>>
    BY <1>6, LoopTypes DEF Reschedule, NextInBatch, broker
  <2>2. at[p] \in Events
    BY <1>6 DEF Reschedule, TypeOK
  <2>3. mishaps' \in 0..MaxMishaps
    <3>1. Mishap \/ UNCHANGED mishaps
      BY <1>6 DEF Reschedule, rows
    <3>2. mishaps \in 0..MaxMishaps
      BY DEF TypeOK
    <3> QED BY ONLY <3>1, <3>2, MishapTypes
  <2>4. RowTypes'
    BY <1>6, <2>2 DEF Reschedule, RowTypes, TypeOK, rows
  <2> QED BY <2>1, <2>3, <2>4 DEF TypeOK, RowTypes, PublisherTypes
<1>7. ASSUME NEW p \in Publishers, Crash(p) PROVE TypeOK'
  BY <1>7 DEF Crash, Mishap, TypeOK, rows, broker, Busy
<1>8. ASSUME NEW e \in Events, BecomeDue(e) PROVE TypeOK'
  BY <1>8 DEF BecomeDue, TypeOK, publishing, broker, Busy
<1>9. ASSUME NEW e \in Events, Abandoned(e) PROVE TypeOK'
  BY <1>9 DEF Abandoned, TypeOK, publishing, broker, Busy
<1>10. ASSUME NEW e \in Events, Outlived(e) PROVE TypeOK'
  BY <1>10 DEF Outlived, Mishap, TypeOK, publishing, broker, Busy
<1>11. ASSUME NEW e \in Events, Forget(e) PROVE TypeOK'
  BY <1>11 DEF Forget, TypeOK, rows, publishing, Busy
<1>12. CASE UNCHANGED vars
  BY <1>12 DEF vars, TypeOK, Busy
<1> QED
  BY <1>1, <1>2, <1>3, <1>4, <1>5, <1>6, <1>7, <1>8, <1>9, <1>10, <1>11, <1>12
     DEF Next, Step

-----------------------------------------------------------------------------
(* What publishers may rely on.                                             *)

\* An event in a row, in a batch or in the queue is one that was committed,
\* under an instant; one that is published, or about to be, is in the queue.
Known ==
  /\ ElementsOf(committed) \subseteq {e \in Events : occurredAt[e] # 0}
  /\ ElementsOf(log) \subseteq ElementsOf(committed)
  /\ published \cup remembered \subseteq ElementsOf(log)
  /\ \A p \in Publishers :
       /\ Busy(p) \subseteq ElementsOf(committed)
       /\ pc[p] = "confirm" => at[p] \in ElementsOf(log)

\* e is with a publisher, or in the queue.
Taken(e) == e \in ElementsOf(log) \/ \E p \in Publishers : e \in Busy(p)

\* Whatever an event that was taken follows has been confirmed: Claim saw it
\* so, and nobody unconfirms it.
Led ==
  \A e, f \in Events : Follows(f, e) /\ Taken(f) => e \in published

StreamInv == TypeOK /\ Known /\ Led /\ OrderKept

\* Nothing has happened yet.
LEMMA InitStream == Init => StreamInv
<1> SUFFICES ASSUME Init PROVE StreamInv
  OBVIOUS
<1>1. ElementsOf(committed) = {} /\ ElementsOf(log) = {}
  BY DEF Init, ElementsOf
<1>2. Known
  BY <1>1 DEF Init, Known, Busy
<1>3. Led /\ OrderKept
  BY <1>1 DEF Led, OrderKept, Follows
<1> QED BY <1>2, <1>3, InitTypes DEF StreamInv

\* A queue that takes an event in has it from then on, and that one only.
LEMMA Delivers ==
  ASSUME TypeOK, Known, NEW e \in Events, Deliver(e)
  PROVE  /\ ElementsOf(log') = ElementsOf(log) \cup {e}
         /\ remembered' = remembered \cup {e}
         /\ log' = log \/ log' = Append(log, e)
<1>1. CASE e \in remembered
  BY <1>1 DEF Deliver, Known
<1>2. CASE e \notin remembered
  BY <1>2, Appended DEF Deliver, TypeOK
<1> QED BY <1>1, <1>2

\* The loop goes on with what the publisher has.
LEMMA LoopKnown ==
  ASSUME TypeOK, Known, NEW p \in Publishers, NextInBatch(p),
         published' \subseteq ElementsOf(log),
         UNCHANGED <<occurredAt, committed, log, remembered>>
  PROVE  Known'
<1>1. /\ batch' = batch
      /\ at' = [at EXCEPT ![p] = NoEvent]
      /\ pc' = [pc EXCEPT ![p] = IF batch[p] = {} THEN "idle" ELSE "publish"]
  BY DEF NextInBatch
<1>2. ASSUME NEW q \in Publishers
      PROVE  /\ Busy(q)' \subseteq Busy(q)
             /\ pc'[q] = "confirm" => pc[q] = "confirm" /\ at'[q] = at[q]
  <2>1. CASE q = p
    BY <1>1, <2>1 DEF TypeOK, Busy
  <2>2. CASE q # p
    BY <1>1, <2>2 DEF TypeOK, Busy
  <2> QED BY <2>1, <2>2
<1>3. ElementsOf(committed)' = ElementsOf(committed) /\ ElementsOf(log)' = ElementsOf(log)
  OBVIOUS
<1> QED BY <1>2, <1>3 DEF Known

\* One step per action.
LEMMA NextKnown == TypeOK /\ Known /\ [Next]_vars => Known'
<1> SUFFICES ASSUME TypeOK, Known, [Next]_vars PROVE Known'
  OBVIOUS
<1> USE OutboxAssumption
<1>1. ASSUME NEW e \in Events, TakeInstant(e) PROVE Known'
  <2>1. /\ occurredAt[e] = 0
        /\ occurredAt' = [occurredAt EXCEPT ![e] = clock + 1]
        /\ UNCHANGED <<committed, published, batch, pc, at, log, remembered>>
    BY <1>1 DEF TakeInstant, rows, publishing, broker
  <2>2. ElementsOf(committed)' = ElementsOf(committed)
    BY <2>1
  <2>3. ElementsOf(committed) \subseteq {f \in Events : occurredAt'[f] # 0}
    BY <2>1 DEF Known, TypeOK
  <2> QED BY <2>1, <2>2, <2>3 DEF Known, Busy
<1>2. ASSUME NEW e \in Events, Insert(e) PROVE Known'
  <2>1. /\ occurredAt[e] # 0 /\ committed' = Append(committed, e)
        /\ UNCHANGED <<occurredAt, published, batch, pc, at, log, remembered>>
    BY <1>2 DEF Insert, rows, publishing, broker
  <2>2. ElementsOf(committed)' = ElementsOf(committed) \cup {e}
    BY <2>1, Appended DEF TypeOK
  <2> QED BY <2>1, <2>2 DEF Known, Busy
<1>3. ASSUME NEW p \in Publishers, Claim(p) PROVE Known'
  <2> DEFINE F == FirstOf(Candidates)
  <2>1. /\ F \subseteq ElementsOf(committed)
        /\ batch' = [batch EXCEPT ![p] = F]
        /\ pc' = [pc EXCEPT ![p] = "publish"]
        /\ UNCHANGED <<occurredAt, committed, published, at, log, remembered>>
    BY <1>3 DEF Claim, FirstOf, Candidates, Earliest, Unpublished, broker
  <2> HIDE DEF F
  <2>2. ASSUME NEW q \in Publishers
        PROVE  /\ Busy(q)' \subseteq ElementsOf(committed)
               /\ pc'[q] = "confirm" => at'[q] \in ElementsOf(log)
    <3>1. batch'[q] = F \/ batch'[q] = batch[q]
      BY <2>1 DEF TypeOK
    <3>2. pc'[q] = "confirm" => pc[q] = "confirm"
      BY <2>1 DEF TypeOK
    <3> QED BY <2>1, <3>1, <3>2 DEF Known, Busy
  <2>3. ElementsOf(committed)' = ElementsOf(committed) /\ ElementsOf(log)' = ElementsOf(log)
    BY <2>1
  <2> QED BY <2>1, <2>2, <2>3 DEF Known
<1>4. ASSUME NEW p \in Publishers, NEW e \in Events, Publish(p, e) PROVE Known'
  <2>1. /\ e \in batch[p]
        /\ at' = [at EXCEPT ![p] = e]
        /\ batch' = [batch EXCEPT ![p] = @ \ {e}]
        /\ UNCHANGED <<occurredAt, committed, published>>
    BY <1>4, PublishParts
  <2>2. e \in ElementsOf(committed)
    BY <2>1 DEF Known, Busy
  <2>3. /\ ElementsOf(log) \subseteq ElementsOf(log')
        /\ ElementsOf(log') \subseteq ElementsOf(committed)
        /\ remembered' \subseteq ElementsOf(log')
    <3>1. CASE Deliver(e)
      BY <2>2, <3>1, Delivers DEF Known
    <3>2. CASE UNCHANGED <<log, remembered>>
      BY <3>2 DEF Known
    <3> QED BY <1>4, <3>1, <3>2, PublishParts
  <2>4. ASSUME NEW q \in Publishers
        PROVE  /\ Busy(q)' \subseteq ElementsOf(committed)
               /\ pc'[q] = "confirm" => at'[q] \in ElementsOf(log')
    <3>1. CASE q # p
      <4>1. batch'[q] = batch[q] /\ at'[q] = at[q]
        BY <2>1, <3>1 DEF TypeOK
      <4>2. pc' = [pc EXCEPT ![p] = "confirm"] \/ pc' = [pc EXCEPT ![p] = "reschedule"]
        BY <1>4, PublishParts
      <4>3. pc'[q] = pc[q]
        BY <3>1, <4>2 DEF TypeOK
      <4> QED BY <2>3, <4>1, <4>3 DEF Known, Busy
    <3>2. CASE q = p
      <4>1. Busy(p)' \subseteq ElementsOf(committed)
        BY <2>1, <2>2 DEF Known, Busy, TypeOK
      <4>2. at'[p] = e
        BY <2>1 DEF TypeOK
      <4>3. CASE Deliver(e)
        BY <3>2, <4>1, <4>2, <4>3, Delivers
      <4>4. CASE pc' = [pc EXCEPT ![p] = "reschedule"]
        BY <3>2, <4>1, <4>4 DEF TypeOK
      <4> QED BY <1>4, <4>3, <4>4, PublishParts
    <3> QED BY <3>1, <3>2
  <2>5. ElementsOf(committed)' = ElementsOf(committed) /\ ElementsOf(log)' = ElementsOf(log')
    BY <2>1
  <2> QED BY <2>1, <2>3, <2>4, <2>5 DEF Known
<1>5. ASSUME NEW p \in Publishers, Confirm(p) PROVE Known'
  <2>1. /\ pc[p] = "confirm" /\ NextInBatch(p)
        /\ published' \subseteq published \cup {at[p]}
        /\ UNCHANGED <<occurredAt, committed, log, remembered>>
    BY <1>5 DEF Confirm, NextInBatch, rows, broker
  <2>2. published' \subseteq ElementsOf(log)
    BY <2>1 DEF Known
  <2> QED BY <2>1, <2>2, LoopKnown
<1>6. ASSUME NEW p \in Publishers, Reschedule(p) PROVE Known'
  <2>1. /\ NextInBatch(p)
        /\ UNCHANGED <<occurredAt, committed, published, log, remembered>>
    BY <1>6 DEF Reschedule, NextInBatch, rows, broker
  <2> QED BY <2>1, LoopKnown DEF Known
<1>7. ASSUME NEW p \in Publishers, Crash(p) PROVE Known'
  <2>1. /\ batch' = [batch EXCEPT ![p] = {}]
        /\ pc' = [pc EXCEPT ![p] = "idle"]
        /\ at' = [at EXCEPT ![p] = NoEvent]
        /\ UNCHANGED <<occurredAt, committed, published, log, remembered>>
    BY <1>7 DEF Crash, rows, broker
  <2>2. ASSUME NEW q \in Publishers
        PROVE  /\ Busy(q)' \subseteq Busy(q)
               /\ pc'[q] = "confirm" => pc[q] = "confirm" /\ at'[q] = at[q]
    BY <2>1 DEF TypeOK, Busy
  <2>3. ElementsOf(committed)' = ElementsOf(committed) /\ ElementsOf(log)' = ElementsOf(log)
    BY <2>1
  <2> QED BY <2>1, <2>2, <2>3 DEF Known
<1>8. ASSUME UNCHANGED <<occurredAt, committed, published, batch, pc, at, log>>,
             remembered' \subseteq remembered
      PROVE  Known'
  <2>1. ElementsOf(committed)' = ElementsOf(committed) /\ ElementsOf(log)' = ElementsOf(log)
    BY <1>8
  <2>2. \A q \in Publishers : Busy(q)' = Busy(q)
    BY <1>8 DEF Busy
  <2> QED BY <1>8, <2>1, <2>2 DEF Known
<1>9. ASSUME NEW e \in Events,
             BecomeDue(e) \/ Abandoned(e) \/ Outlived(e) \/ Forget(e)
      PROVE  Known'
  <2>1. CASE BecomeDue(e)
    BY <1>8, <2>1 DEF BecomeDue, publishing, broker
  <2>2. CASE Abandoned(e)
    BY <1>8, <2>2 DEF Abandoned, publishing, broker
  <2>3. CASE Outlived(e)
    BY <1>8, <2>3 DEF Outlived, publishing, broker
  <2>4. CASE Forget(e)
    <3>1. UNCHANGED <<occurredAt, committed, published, batch, pc, at, log>>
      BY <2>4 DEF Forget, rows, publishing
    <3>2. remembered' \subseteq remembered
      BY <2>4 DEF Forget
    <3> QED BY <1>8, <3>1, <3>2
  <2> QED BY <1>9, <2>1, <2>2, <2>3, <2>4
<1>10. CASE UNCHANGED vars
  BY <1>8, <1>10 DEF vars
<1> QED
  BY <1>1, <1>2, <1>3, <1>4, <1>5, <1>6, <1>7, <1>9, <1>10 DEF Next, Step

-----------------------------------------------------------------------------
(* Order.                                                                   *)

\* Whether a committed event follows another is settled for good.
LEMMA FollowsSettled ==
  ASSUME TypeOK, Known, [Next]_vars, NEW e \in Events, NEW f \in Events,
         f \in ElementsOf(committed)
  PROVE  Follows(f, e)' <=> Follows(f, e)
<1>1. CASE UNCHANGED <<occurredAt, committed>>
  BY <1>1 DEF Follows, Precedes, ElementsOf
<1>2. ASSUME NEW g \in Events, TakeInstant(g)
      PROVE  Follows(f, e)' <=> Follows(f, e)
  <2>1. /\ occurredAt[g] = 0 /\ occurredAt' = [occurredAt EXCEPT ![g] = clock + 1]
        /\ committed' = committed
    BY <1>2 DEF TakeInstant
  <2>2. \A h \in ElementsOf(committed) : occurredAt'[h] = occurredAt[h]
    BY <2>1 DEF Known, TypeOK
  <2>3. ElementsOf(committed)' = ElementsOf(committed)
        /\ Precedes(committed', e, f) = Precedes(committed, e, f)
    BY <2>1
  <2> QED BY <2>2, <2>3 DEF Follows
<1>3. ASSUME NEW g \in Events, Insert(g)
      PROVE  Follows(f, e)' <=> Follows(f, e)
  <2>1. /\ g \notin ElementsOf(committed)
        /\ committed' = Append(committed, g) /\ occurredAt' = occurredAt
        /\ committed \in Seq(Events)
    BY <1>3 DEF Insert, TypeOK
  <2>2. ElementsOf(committed') = ElementsOf(committed) \cup {g}
    BY <2>1, Appended
  <2>3. Precedes(committed, e, f) => Precedes(committed', e, f)
    BY <2>1, PrecedesAppended
  <2>4. Precedes(committed', e, f) =>
          Precedes(committed, e, f) /\ e \in ElementsOf(committed)
    BY <2>1, PrecededBefore, PrecedesIsThere
  <2> QED BY <2>1, <2>2, <2>3, <2>4 DEF Follows
<1>4. \/ UNCHANGED <<occurredAt, committed>>
      \/ \E g \in Events : TakeInstant(g) \/ Insert(g)
  <2>1. ASSUME NEW p \in Publishers, Step(p) PROVE UNCHANGED <<occurredAt, committed>>
    BY <2>1 DEF Step, Claim, Publish, Confirm, Reschedule, NextInBatch
  <2>2. ASSUME NEW p \in Publishers, Crash(p) PROVE UNCHANGED <<occurredAt, committed>>
    BY <2>2 DEF Crash
  <2>3. ASSUME NEW g \in Events, BecomeDue(g) \/ Abandoned(g) \/ Outlived(g) \/ Forget(g)
        PROVE  UNCHANGED <<occurredAt, committed>>
    BY <2>3 DEF BecomeDue, Abandoned, Outlived, Forget
  <2> QED BY <2>1, <2>2, <2>3 DEF Next, vars
<1> QED BY <1>1, <1>2, <1>3, <1>4

\* An event is taken by Claim, and only from the candidates.
LEMMA TakenBefore ==
  ASSUME TypeOK, Known, [Next]_vars, NEW f \in Events, Taken(f)'
  PROVE  Taken(f) \/ f \in Candidates
<1>1. ASSUME log' = log, \A q \in Publishers : Busy(q)' \subseteq Busy(q)
      PROVE  Taken(f)
  BY <1>1 DEF Taken
<1>2. ASSUME NEW g \in Events, TakeInstant(g) \/ Insert(g) \/ BecomeDue(g)
                               \/ Abandoned(g) \/ Outlived(g) \/ Forget(g)
      PROVE  Taken(f)
  <2>1. UNCHANGED <<batch, at, log>>
    BY <1>2 DEF TakeInstant, Insert, BecomeDue, Abandoned, Outlived, Forget,
                publishing, broker
  <2> QED BY <1>1, <2>1 DEF Busy
<1>3. ASSUME NEW p \in Publishers, Claim(p)
      PROVE  Taken(f) \/ f \in Candidates
  <2> DEFINE F == FirstOf(Candidates)
  <2>1. /\ F \subseteq Candidates
        /\ batch' = [batch EXCEPT ![p] = F] /\ UNCHANGED <<at, log>>
    BY <1>3 DEF Claim, FirstOf, broker
  <2> HIDE DEF F
  <2>2. ASSUME NEW q \in Publishers, f \in Busy(q)'
        PROVE  f \in Busy(q) \/ f \in Candidates
    BY <2>1, <2>2 DEF Busy, TypeOK
  <2> QED BY <2>1, <2>2 DEF Taken
<1>4. ASSUME NEW p \in Publishers, NEW e \in Events, Publish(p, e)
      PROVE  Taken(f)
  <2>1. /\ e \in batch[p] /\ at' = [at EXCEPT ![p] = e]
        /\ batch' = [batch EXCEPT ![p] = @ \ {e}]
    BY <1>4, PublishParts
  <2>2. \A q \in Publishers : Busy(q)' \subseteq Busy(q)
    BY <2>1 DEF Busy, TypeOK
  <2>3. ElementsOf(log)' \subseteq ElementsOf(log) \cup {e}
    BY <1>4, PublishParts, Delivers
  <2> QED BY <2>1, <2>2, <2>3 DEF Taken, Busy
<1>5. ASSUME NEW p \in Publishers, NextInBatch(p) PROVE Taken(f)
  <2>1. batch' = batch /\ at' = [at EXCEPT ![p] = NoEvent] /\ log' = log
    BY <1>5 DEF NextInBatch, broker
  <2>2. \A q \in Publishers : Busy(q)' \subseteq Busy(q)
    BY <2>1 DEF Busy, TypeOK
  <2> QED BY <1>1, <2>1, <2>2
<1>6. ASSUME NEW p \in Publishers, Crash(p) PROVE Taken(f)
  <2>1. /\ batch' = [batch EXCEPT ![p] = {}] /\ log' = log
        /\ at' = [at EXCEPT ![p] = NoEvent]
    BY <1>6 DEF Crash, broker
  <2>2. \A q \in Publishers : Busy(q)' \subseteq Busy(q)
    BY <2>1 DEF Busy, TypeOK
  <2> QED BY <1>1, <2>1, <2>2
<1>7. CASE UNCHANGED vars
  BY <1>1, <1>7 DEF vars, Busy
<1> QED
  BY <1>2, <1>3, <1>4, <1>5, <1>6, <1>7 DEF Next, Step, Confirm, Reschedule

\* Whoever is taken is committed.
LEMMA TakenCommitted ==
  ASSUME Known, NEW f, Taken(f)
  PROVE  f \in ElementsOf(committed)
BY DEF Known, Taken

\* Confirmations stay, events in the table stay.
LEMMA Kept ==
  ASSUME TypeOK, [Next]_vars
  PROVE  /\ published \subseteq published'
         /\ ElementsOf(committed) \subseteq ElementsOf(committed')
<1>1. ASSUME NEW g \in Events, Insert(g)
      PROVE  /\ published' = published
             /\ ElementsOf(committed) \subseteq ElementsOf(committed')
  BY <1>1, Appended DEF Insert, rows, TypeOK
<1>2. ASSUME NEW g \in Events, TakeInstant(g) \/ BecomeDue(g)
                               \/ Abandoned(g) \/ Outlived(g) \/ Forget(g)
      PROVE  UNCHANGED <<committed, published>>
  BY <1>2 DEF TakeInstant, BecomeDue, Abandoned, Outlived, Forget, rows
<1>3. ASSUME NEW p \in Publishers, Claim(p) \/ Crash(p)
      PROVE  UNCHANGED <<committed, published>>
  BY <1>3 DEF Claim, Crash, rows
<1>4. ASSUME NEW p \in Publishers, NEW e \in Events, Publish(p, e)
      PROVE  UNCHANGED <<committed, published>>
  BY <1>4, PublishParts
<1>5. ASSUME NEW p \in Publishers, Confirm(p) \/ Reschedule(p)
      PROVE  published \subseteq published' /\ committed' = committed
  BY <1>5 DEF Confirm, Reschedule, NextInBatch, rows
<1> QED BY <1>1, <1>2, <1>3, <1>4, <1>5 DEF Next, Step, vars

\* Claim takes only what follows nothing unconfirmed.
LEMMA NextLed == TypeOK /\ Known /\ Led /\ [Next]_vars => Led'
<1> SUFFICES ASSUME TypeOK, Known, Led, [Next]_vars,
                    NEW e \in Events, NEW f \in Events, Follows(f, e)', Taken(f)'
             PROVE  e \in published'
  BY DEF Led
<1>1. Taken(f) \/ f \in Candidates
  BY TakenBefore
<1>2. f \in ElementsOf(committed)
  BY <1>1, TakenCommitted DEF Candidates, Earliest, Unpublished
<1>3. Follows(f, e)
  BY <1>2, FollowsSettled
<1>4. CASE Taken(f)
  BY <1>3, <1>4, Kept DEF Led
<1>5. CASE f \in Candidates
  <2>1. ASSUME e \notin published PROVE FALSE
    <3>1. e \in Unpublished /\ Aggregate[e] = Aggregate[f]
      BY <1>3, <2>1 DEF Unpublished, Follows, SameAggregate
    <3>2. occurredAt[f] <= occurredAt[e]
      BY <1>5, <3>1 DEF Candidates, Earliest
    <3> QED BY <1>3, <3>2 DEF Follows, TypeOK
  <2> QED BY <2>1, Kept
<1> QED BY <1>1, <1>4, <1>5

\* The queue takes in, if anything, an event that a publisher had.
LEMMA LogGrows ==
  ASSUME TypeOK, Known, [Next]_vars
  PROVE  log' = log \/ \E g \in Events : Taken(g) /\ log' = Append(log, g)
<1>1. ASSUME NEW p \in Publishers, NEW g \in Events, Publish(p, g)
      PROVE  log' = log \/ (Taken(g) /\ log' = Append(log, g))
  <2>1. Taken(g)
    BY <1>1, PublishParts DEF Taken, Busy
  <2> QED BY <1>1, <2>1, PublishParts, Delivers
<1>2. ASSUME NEW p \in Publishers,
             Claim(p) \/ Confirm(p) \/ Reschedule(p) \/ Crash(p)
      PROVE  log' = log
  BY <1>2 DEF Claim, Confirm, Reschedule, Crash, NextInBatch, broker
<1>3. ASSUME NEW g \in Events, TakeInstant(g) \/ Insert(g) \/ BecomeDue(g)
                               \/ Abandoned(g) \/ Outlived(g) \/ Forget(g)
      PROVE  log' = log
  BY <1>3 DEF TakeInstant, Insert, BecomeDue, Abandoned, Outlived, Forget, broker
<1> QED BY <1>1, <1>2, <1>3 DEF Next, Step, vars

\* Hence an event is taken in after all that it follows.
LEMMA NextOrder == StreamInv /\ [Next]_vars => OrderKept'
<1> SUFFICES ASSUME StreamInv, [Next]_vars,
                    NEW e \in Events, NEW f \in Events, Follows(f, e)'
             PROVE  Precedes(log', e, f)
  BY DEF OrderKept
<1> USE DEF StreamInv
<1>1. CASE f \notin ElementsOf(log')
  BY <1>1, AbsentPreceded, NextTypes DEF TypeOK
<1>2. CASE f \in ElementsOf(log')
  <2>1. ASSUME NEW g \in Events, Taken(g), log' = Append(log, g) PROVE Taken(f)
    <3>1. ElementsOf(log') = ElementsOf(log) \cup {g}
      BY <2>1, Appended DEF TypeOK
    <3> QED BY <1>2, <2>1, <3>1 DEF Taken
  <2>2. f \in ElementsOf(committed) /\ Taken(f)
    <3>1. CASE log' = log
      BY <1>2, <3>1, TakenCommitted DEF Taken
    <3> QED BY <2>1, <3>1, LogGrows, TakenCommitted
  <2>3. Follows(f, e)
    BY <2>2, FollowsSettled
  <2>4. Precedes(log, e, f) /\ e \in ElementsOf(log)
    BY <2>2, <2>3 DEF OrderKept, Led, Known
  <2>5. ASSUME NEW g \in Events, log' = Append(log, g)
        PROVE  Precedes(log', e, f)
    BY <2>4, <2>5, PrecedesAppended DEF TypeOK
  <2> QED BY <2>4, <2>5, LogGrows
<1> QED BY <1>1, <1>2

\* The inductive invariant.
THEOREM StreamInvariant == Spec => []StreamInv
<1>1. StreamInv /\ [Next]_vars => StreamInv'
  BY NextTypes, NextKnown, NextLed, NextOrder DEF StreamInv
<1> QED BY InitStream, <1>1, PTL DEF Spec

\* The variables keep their types, and a publisher that is idle holds nothing
\* (PublishDue).
THEOREM OutboxTypes == Spec => []TypeOK
<1>1. StreamInv => TypeOK
  BY DEF StreamInv
<1> QED BY <1>1, StreamInvariant, PTL

\* The events of an aggregate reach the queue in order wherever instants and
\* commits agree, for any number of publishers (Claim).
THEOREM OrderIsKept == Spec => []OrderKept
<1>1. StreamInv => OrderKept
  BY DEF StreamInv
<1> QED BY <1>1, StreamInvariant, PTL

-----------------------------------------------------------------------------
(* The stream.                                                              *)

\* The two modules name what the queue has in their own way.
LEMMA SameElements == Stream!Delivered = ElementsOf(log)
BY DEF Stream!Delivered, ElementsOf

\* Initial states are initial states of the stream.
LEMMA StreamStarts == Init => Stream!Init
<1> SUFFICES ASSUME Init PROVE Stream!Init
  OBVIOUS
<1>1. ElementsOf(committed) = {}
  BY DEF Init, ElementsOf
<1>2. \A f \in Events : Predecessors(f) = {}
  BY <1>1 DEF Predecessors
<1> QED BY <1>1, <1>2 DEF Init, Stream!Init

\* The predecessors of what is committed stay what they are.
LEMMA PredecessorsSettled ==
  ASSUME TypeOK, Known, [Next]_vars, NEW f \in Events,
         f \in ElementsOf(committed) \/ f \notin ElementsOf(committed')
  PROVE  Predecessors(f)' = Predecessors(f)
<1>1. CASE f \in ElementsOf(committed)
  BY <1>1, FollowsSettled, Kept DEF Predecessors
<1>2. CASE f \notin ElementsOf(committed) /\ f \notin ElementsOf(committed')
  BY <1>2 DEF Predecessors
<1> QED BY <1>1, <1>2

\* Every step is a step of the stream or none.
LEMMA StreamSteps ==
  ASSUME StreamInv, [Next]_vars
  PROVE  [Stream!Next]_Stream!vars
<1> USE DEF StreamInv
<1> DEFINE Before == [f \in Events |-> Predecessors(f)]
<1>1. ASSUME NEW g \in Events, Insert(g)
      PROVE  Stream!Emit(g)
  <2>1. /\ g \notin ElementsOf(committed) /\ committed' = Append(committed, g)
        /\ UNCHANGED <<log, published>>
    BY <1>1 DEF Insert, rows, broker
  <2>2. ElementsOf(committed)' = ElementsOf(committed) \cup {g}
    BY <2>1, Appended DEF TypeOK
  <2>3. Predecessors(g)' \subseteq ElementsOf(committed)
    BY <2>2 DEF Predecessors, Follows, SameAggregate
  <2>4. \A f \in Events \ {g} : Predecessors(f)' = Predecessors(f)
    BY <2>2, PredecessorsSettled
  <2>5. Before' = [Before EXCEPT ![g] = Predecessors(g)']
    BY <2>4
  <2> HIDE DEF Before
  <2>6. \E D \in SUBSET ElementsOf(committed) : Before' = [Before EXCEPT ![g] = D]
    BY <2>3, <2>5
  <2> QED BY <2>1, <2>2, <2>6 DEF Stream!Emit, Before
<1>2. ASSUME committed' = committed PROVE Before' = Before
  <2>1. \A f \in Events : Predecessors(f)' = Predecessors(f)
    BY <1>2, PredecessorsSettled
  <2> QED BY <2>1
<1>3. ASSUME UNCHANGED <<committed, log, published>>
      PROVE  UNCHANGED Stream!vars
  BY <1>2, <1>3 DEF Stream!vars, ElementsOf
<1>4. ASSUME NEW p \in Publishers, NEW g \in Events, Publish(p, g)
      PROVE  Stream!Deliver(g) \/ UNCHANGED Stream!vars
  <2>1. UNCHANGED <<committed, published>> /\ g \in Busy(p)
    BY <1>4, PublishParts DEF Busy
  <2>2. CASE log' = log
    BY <1>3, <2>1, <2>2
  <2>3. CASE log' = Append(log, g)
    <3>1. g \in ElementsOf(committed)
      BY <2>1 DEF Known
    <3>2. Predecessors(g) \subseteq ElementsOf(log)
      BY <2>1 DEF Predecessors, Led, Taken, Known
    <3> QED BY <1>2, <2>1, <2>3, <3>1, <3>2, SameElements DEF Stream!Deliver, ElementsOf
  <2> QED BY <1>4, <2>2, <2>3, PublishParts, Delivers
<1>5. ASSUME NEW p \in Publishers, Confirm(p)
      PROVE  Stream!Settle(at[p]) \/ UNCHANGED Stream!vars
  <2>1. /\ pc[p] = "confirm" /\ UNCHANGED <<committed, log>>
        /\ published' = published \cup {at[p]} \/ published' = published
    BY <1>5 DEF Confirm, NextInBatch, rows, broker
  <2>2. CASE published' = published
    BY <1>3, <2>1, <2>2
  <2>3. CASE published' = published \cup {at[p]} /\ at[p] \notin published
    <3>1. at[p] \in ElementsOf(log)
      BY <2>1 DEF Known
    <3> QED BY <1>2, <2>1, <2>3, <3>1, SameElements DEF Stream!Settle, ElementsOf
  <2> QED BY <2>1, <2>2, <2>3
<1>6. ASSUME NEW p \in Publishers, Claim(p) \/ Reschedule(p) \/ Crash(p)
      PROVE  UNCHANGED <<committed, log, published>>
  BY <1>6 DEF Claim, Reschedule, Crash, NextInBatch, rows, broker
<1>7. ASSUME NEW g \in Events, TakeInstant(g) \/ BecomeDue(g)
                               \/ Abandoned(g) \/ Outlived(g) \/ Forget(g)
      PROVE  UNCHANGED <<committed, log, published>>
  BY <1>7 DEF TakeInstant, BecomeDue, Abandoned, Outlived, Forget, rows, broker
<1>8. CASE UNCHANGED vars
  BY <1>3, <1>8 DEF vars
<1>9. ASSUME NEW p \in Publishers, Confirm(p) PROVE at[p] \in Events
  BY <1>9 DEF Confirm, TypeOK
<1> HIDE DEF Before, StreamInv
<1> QED
  BY <1>1, <1>3, <1>4, <1>5, <1>6, <1>7, <1>8, <1>9 DEF Next, Step, Stream!Next

\* The publishers implement the stream: what was committed is delivered after
\* what it follows, and only what was delivered is called published
\* (PublishDue, Claim, MarkPublished).
THEOREM StreamIsDelivered == Spec => DeliversStream
<1>1. StreamInv /\ [Next]_vars => [Stream!Next]_Stream!vars
  BY StreamSteps
<1> QED BY StreamStarts, <1>1, StreamInvariant, PTL DEF Spec, DeliversStream, Stream!Spec

-----------------------------------------------------------------------------
(* Duplicates.                                                              *)

\* Who may still send an event without a mishap: a publisher that has it in
\* its batch, or that is about to give it back.
Chances ==
  {c \in Publishers \X Events :
     c[2] \in batch[c[1]] \/ (c[2] = at[c[1]] /\ pc[c[1]] = "reschedule")}

\* And what may still be claimed, now or when its lock has grown old.
Open ==
  {e \in ElementsOf(committed) \ published :
     lock[e] = "held" => \A p \in Publishers : e \notin Busy(p)}

\* Every committed event has one chance of being sent, and every further one
\* was paid for by a mishap.
Paid ==
  /\ IsFiniteSet(ElementsOf(committed)) /\ IsFiniteSet(Chances)
  /\ \A p \in Publishers : at[p] \notin batch[p]
  /\ Len(log) + Cardinality(Chances) + Cardinality(Open)
       <= Cardinality(ElementsOf(committed)) + mishaps

\* The numbers that Paid compares are numbers.
LEMMA Countable ==
  ASSUME TypeOK, Paid
  PROVE  /\ IsFiniteSet(Open)
         /\ Cardinality(Open) \in Nat /\ Cardinality(Chances) \in Nat
         /\ Cardinality(ElementsOf(committed)) \in Nat
         /\ Len(log) \in Nat /\ mishaps \in Nat
<1>1. Open \subseteq ElementsOf(committed)
  BY DEF Open
<1>2. IsFiniteSet(Open)
  BY <1>1, FS_Subset DEF Paid
<1> QED
  BY <1>2, FS_CardinalityType, OutboxAssumption DEF Paid, TypeOK

\* One element more is at most one more.
LEMMA OneMore ==
  ASSUME NEW S, NEW T, NEW x, IsFiniteSet(S), T \subseteq S \cup {x}
  PROVE  /\ IsFiniteSet(T) /\ Cardinality(T) \in Nat
         /\ Cardinality(T) <= Cardinality(S) + 1
<1>1. /\ IsFiniteSet(S \cup {x}) /\ Cardinality(S) \in Nat
      /\ Cardinality(S \cup {x}) <= Cardinality(S) + 1
  <2>1. Cardinality(S) \in Nat
    BY FS_CardinalityType
  <2>2. /\ IsFiniteSet(S \cup {x})
        /\ Cardinality(S \cup {x})
             = IF x \in S THEN Cardinality(S) ELSE Cardinality(S) + 1
    BY FS_AddElement
  <2> QED BY <2>1, <2>2
<1>2. IsFiniteSet(T) /\ Cardinality(T) <= Cardinality(S \cup {x})
  BY <1>1, FS_Subset
<1>3. Cardinality(T) \in Nat /\ Cardinality(S \cup {x}) \in Nat
  BY <1>1, <1>2, FS_CardinalityType
<1> QED BY <1>1, <1>2, <1>3

\* A step that gives nobody a chance, or one event for a mishap of its own,
\* is paid for.
LEMMA Pays ==
  ASSUME TypeOK, Paid, NEW x,
         ElementsOf(committed)' = ElementsOf(committed),
         Chances' \subseteq Chances,
         \A p \in Publishers : at'[p] \notin batch'[p],
         \/ log' = log /\ mishaps' = mishaps /\ Open' \subseteq Open
         \/ /\ mishaps' = mishaps + 1 /\ Open' \subseteq Open
            /\ Len(log') \in Nat /\ Len(log') <= Len(log) + 1
         \/ log' = log /\ mishaps' = mishaps + 1 /\ Open' \subseteq Open \cup {x}
  PROVE  Paid'
<1>1. /\ IsFiniteSet(Chances') /\ Cardinality(Chances') \in Nat
      /\ Cardinality(Chances') <= Cardinality(Chances)
  BY FS_Subset, FS_CardinalityType DEF Paid
<1>2. /\ Cardinality(Open') \in Nat
      /\ Cardinality(Open') <= Cardinality(Open) + 1
      /\ Open' \subseteq Open => Cardinality(Open') <= Cardinality(Open)
  <2>1. Open' \subseteq Open \cup {x}
    OBVIOUS
  <2>2. IsFiniteSet(Open)
    BY Countable
  <2>3. /\ Cardinality(Open') \in Nat
        /\ Cardinality(Open') <= Cardinality(Open) + 1
    BY <2>1, <2>2, OneMore
  <2>4. Open' \subseteq Open => Cardinality(Open') <= Cardinality(Open)
    BY <2>2, FS_Subset
  <2> QED BY <2>3, <2>4
<1>3. Len(log') + Cardinality(Chances') + Cardinality(Open')
        <= Cardinality(ElementsOf(committed)) + mishaps'
  <2>1. Len(log) + Cardinality(Chances) + Cardinality(Open)
          <= Cardinality(ElementsOf(committed)) + mishaps
    BY DEF Paid
  <2>2. \/ Len(log') = Len(log) /\ mishaps' = mishaps /\ Open' \subseteq Open
        \/ /\ mishaps' = mishaps + 1 /\ Open' \subseteq Open
           /\ Len(log') \in Nat /\ Len(log') <= Len(log) + 1
        \/ Len(log') = Len(log) /\ mishaps' = mishaps + 1
    OBVIOUS
  <2>3. /\ Cardinality(Open) \in Nat /\ Cardinality(Chances) \in Nat
        /\ Cardinality(ElementsOf(committed)) \in Nat
        /\ Len(log) \in Nat /\ mishaps \in Nat
    BY Countable
  <2>4. Cardinality(ElementsOf(committed)') = Cardinality(ElementsOf(committed))
    BY DEF ElementsOf
  <2> DEFINE l == Len(log)  c == Cardinality(Chances)  o == Cardinality(Open)
             k == Cardinality(ElementsOf(committed))  m == mishaps
             l1 == Len(log')  c1 == Cardinality(Chances')  o1 == Cardinality(Open')
             k1 == Cardinality(ElementsOf(committed)')  m1 == mishaps'
  <2>5. /\ c1 \in Nat /\ c1 <= c /\ o1 \in Nat /\ o1 <= o + 1
        /\ Open' \subseteq Open => o1 <= o
    BY <1>1, <1>2
  <2>6. l + c + o <= k + m /\ k1 = k
    BY <2>1, <2>4
  <2>7. \/ l1 = l /\ m1 = m /\ o1 <= o
        \/ m1 = m + 1 /\ o1 <= o /\ l1 \in Nat /\ l1 <= l + 1
        \/ l1 = l /\ m1 = m + 1
    BY <2>2, <2>5
  <2>8. c \in Nat /\ o \in Nat /\ k \in Nat /\ l \in Nat /\ m \in Nat
    BY <2>3
  <2> HIDE DEF l, c, o, k, m, l1, c1, o1, k1, m1
  <2>9. l1 + c1 + o1 <= k1 + m1
    BY ONLY <2>5, <2>6, <2>7, <2>8
  <2> QED BY <2>9 DEF l1, c1, o1, k1, m1
<1>4. IsFiniteSet(ElementsOf(committed)') /\ IsFiniteSet(Chances)'
  BY <1>1 DEF Paid
<1> QED BY <1>3, <1>4 DEF Paid

\* Nothing is committed, nobody is at work.
LEMMA InitPaid == Init => Paid
<1> SUFFICES ASSUME Init PROVE Paid
  OBVIOUS
<1>1. ElementsOf(committed) = {} /\ Len(log) = 0 /\ mishaps = 0
  BY DEF Init, ElementsOf
<1>2. Chances = {} /\ Open = {}
  BY <1>1 DEF Init, Chances, Open
<1>3. \A p \in Publishers : at[p] \notin batch[p]
  BY DEF Init
<1> QED BY <1>1, <1>2, <1>3, FS_EmptySet DEF Paid

\* A claim turns what is open into chances of the publisher.
LEMMA ClaimPaid ==
  ASSUME TypeOK, Known, Paid, NEW p \in Publishers, Claim(p)
  PROVE  Paid'
<1> DEFINE F == FirstOf(Candidates)
<1>1. /\ F \subseteq Candidates
      /\ batch' = [batch EXCEPT ![p] = F] /\ pc' = [pc EXCEPT ![p] = "publish"]
      /\ lock' = [e \in Events |-> IF e \in F THEN "held" ELSE lock[e]]
      /\ pc[p] = "idle" /\ UNCHANGED <<committed, published, at, log, mishaps>>
  BY DEF Claim, FirstOf, broker
<1>2. F \subseteq Open
  BY <1>1 DEF Candidates, Earliest, Unpublished, LockFree, Open
<1> HIDE DEF F
<1>3. batch[p] = {} /\ at[p] = NoEvent
  BY <1>1 DEF TypeOK, Busy
<1>4. F \subseteq Events
  BY <1>2 DEF Open, Known
<1>5. Open' \subseteq Open \ F
  <2>1. Open' \subseteq Open
    <3> SUFFICES ASSUME NEW e \in Open', e \notin Open PROVE FALSE
      OBVIOUS
    <3>1. e \in Events /\ e \in ElementsOf(committed) \ published
      BY <1>1 DEF Open, Known
    <3>2. PICK q \in Publishers : lock[e] = "held" /\ e \in Busy(q)
      BY <3>1 DEF Open
    <3>3. lock'[e] = "held" /\ e \in Busy(q)'
      BY <1>1, <1>3, <3>1, <3>2 DEF Busy, TypeOK
    <3> QED BY <3>3 DEF Open
  <2>2. ASSUME NEW e \in F PROVE e \notin Open'
    <3>1. lock'[e] = "held" /\ e \in Busy(p)'
      BY <1>1, <1>4 DEF Busy, TypeOK
    <3> QED BY <3>1 DEF Open
  <2> QED BY <2>1, <2>2
<1>6. Chances' \subseteq Chances \cup ({p} \X F)
  BY <1>1, <1>3 DEF Chances, TypeOK
<1>7. /\ IsFiniteSet(F) /\ Cardinality(F) \in Nat
      /\ IsFiniteSet({p} \X F) /\ Cardinality({p} \X F) = Cardinality(F)
  <2>1. IsFiniteSet(F) /\ Cardinality(F) \in Nat
    BY <1>2, Countable, FS_Subset, FS_CardinalityType
  <2>2. IsFiniteSet({p}) /\ Cardinality({p}) = 1
    BY FS_Singleton
  <2>3. /\ IsFiniteSet({p} \X F)
        /\ Cardinality({p} \X F) = Cardinality({p}) * Cardinality(F)
    BY <2>1, <2>2, FS_Product
  <2> QED BY <2>1, <2>2, <2>3
<1>8. /\ IsFiniteSet(Chances') /\ Cardinality(Chances') \in Nat
      /\ Cardinality(Chances') <= Cardinality(Chances) + Cardinality(F)
  <2> DEFINE U == Chances \cup ({p} \X F)
  <2>1. /\ IsFiniteSet(U)
        /\ Cardinality(U) = Cardinality(Chances) + Cardinality({p} \X F)
                              - Cardinality(Chances \cap ({p} \X F))
    BY <1>7, FS_Union DEF Paid
  <2>2. Cardinality(Chances \cap ({p} \X F)) \in Nat
    BY FS_Intersection, FS_CardinalityType DEF Paid
  <2>3. Cardinality(U) <= Cardinality(Chances) + Cardinality(F)
    BY <1>7, <2>1, <2>2, Countable
  <2>4. /\ IsFiniteSet(Chances') /\ Cardinality(Chances') <= Cardinality(U)
        /\ Cardinality(Chances') \in Nat /\ Cardinality(U) \in Nat
    BY <1>6, <2>1, FS_Subset, FS_CardinalityType
  <2> QED BY <1>7, <2>3, <2>4, Countable
<1>9. /\ Cardinality(Open') \in Nat
      /\ Cardinality(Open') <= Cardinality(Open) - Cardinality(F)
  <2>1. Open \cap F = F
    BY <1>2
  <2>2. /\ IsFiniteSet(Open \ F)
        /\ Cardinality(Open \ F) = Cardinality(Open) - Cardinality(F)
    BY <2>1, Countable, FS_Difference
  <2>3. IsFiniteSet(Open') /\ Cardinality(Open') <= Cardinality(Open \ F)
    BY <1>5, <2>2, FS_Subset
  <2>4. Cardinality(Open') \in Nat
    BY <2>3, FS_CardinalityType
  <2> QED BY <2>2, <2>3, <2>4
<1>10. \A q \in Publishers : at'[q] \notin batch'[q]
  <2>1. NoEvent \notin F
    BY <1>4, OutboxAssumption
  <2> QED BY <1>1, <1>3, <2>1 DEF Paid, TypeOK
<1>11. Len(log') + Cardinality(Chances') + Cardinality(Open')
         <= Cardinality(ElementsOf(committed)) + mishaps'
  <2>1. Len(log) + Cardinality(Chances) + Cardinality(Open)
          <= Cardinality(ElementsOf(committed)) + mishaps
    BY DEF Paid
  <2>2. /\ Len(log) \in Nat /\ mishaps \in Nat
        /\ Cardinality(Chances) \in Nat /\ Cardinality(Open) \in Nat
        /\ Cardinality(ElementsOf(committed)) \in Nat
    BY Countable
  <2>3. Len(log') = Len(log) /\ mishaps' = mishaps
    BY <1>1
  <2> DEFINE f == Cardinality(F)  c1 == Cardinality(Chances')  o1 == Cardinality(Open')
             l == Len(log)  c == Cardinality(Chances)  o == Cardinality(Open)
             k == Cardinality(ElementsOf(committed))  m == mishaps
  <2>4. /\ f \in Nat /\ c \in Nat /\ o \in Nat /\ c1 \in Nat /\ o1 \in Nat
        /\ l \in Nat /\ k \in Nat /\ m \in Nat
        /\ c1 <= c + f /\ o1 <= o - f /\ l + c + o <= k + m
    BY <1>7, <1>8, <1>9, <2>1, <2>2
  <2> HIDE DEF f, c1, o1, l, c, o, k, m
  <2>5. l + c1 + o1 <= k + m
    BY ONLY <2>4
  <2> QED BY <2>3, <2>5 DEF l, c1, o1, k, m
<1>12. ElementsOf(committed)' = ElementsOf(committed)
  BY <1>1
<1> QED BY <1>8, <1>10, <1>11, <1>12 DEF Paid

\* Sending uses up the publisher's chance; a failure is a mishap.
LEMMA PublishPaid ==
  ASSUME TypeOK, Known, Paid, NEW p \in Publishers, NEW e \in Events, Publish(p, e)
  PROVE  Paid'
<1>1. /\ pc[p] = "publish" /\ e \in batch[p] /\ at[p] = NoEvent
      /\ at' = [at EXCEPT ![p] = e]
      /\ batch' = [batch EXCEPT ![p] = @ \ {e}]
      /\ UNCHANGED <<committed, published, lock>>
  BY PublishParts DEF TypeOK
<1>2. \A q \in Publishers : at'[q] \notin batch'[q]
  BY <1>1 DEF TypeOK, Paid
<1>3. \A q \in Publishers : Busy(q)' = Busy(q)
  BY <1>1, OutboxAssumption DEF Busy, TypeOK
<1>4. Open' = Open /\ ElementsOf(committed)' = ElementsOf(committed)
  BY <1>1, <1>3 DEF Open
<1>5. log' = log \/ log' = Append(log, e)
  BY PublishParts, Delivers
<1>6. Len(log') \in Nat /\ Len(log') <= Len(log) + 1
  BY <1>5 DEF TypeOK
<1>7. CASE pc' = [pc EXCEPT ![p] = "confirm"] /\ UNCHANGED mishaps
  <2>1. Chances' \subseteq Chances \ {<<p, e>>}
    BY <1>1, <1>7 DEF Chances, TypeOK
  <2>2. <<p, e>> \in Chances
    BY <1>1 DEF Chances
  <2>3. /\ IsFiniteSet(Chances \ {<<p, e>>})
        /\ Cardinality(Chances \ {<<p, e>>}) = Cardinality(Chances) - 1
    BY <2>2, FS_RemoveElement DEF Paid
  <2>4. /\ IsFiniteSet(Chances') /\ Cardinality(Chances') \in Nat
        /\ Cardinality(Chances') <= Cardinality(Chances) - 1
    BY <2>1, <2>3, FS_Subset, FS_CardinalityType
  <2>5. Len(log') + Cardinality(Chances') + Cardinality(Open')
          <= Cardinality(ElementsOf(committed)) + mishaps'
    <3>1. Len(log) + Cardinality(Chances) + Cardinality(Open)
            <= Cardinality(ElementsOf(committed)) + mishaps
      BY DEF Paid
    <3>2. /\ Len(log) \in Nat /\ mishaps \in Nat
          /\ Cardinality(Chances) \in Nat /\ Cardinality(Open) \in Nat
          /\ Cardinality(ElementsOf(committed)) \in Nat
      BY Countable
    <3> DEFINE l1 == Len(log')  c1 == Cardinality(Chances')  l == Len(log)
               c == Cardinality(Chances)  o == Cardinality(Open)
               k == Cardinality(ElementsOf(committed))  m == mishaps
    <3>3. /\ c \in Nat /\ o \in Nat /\ c1 \in Nat /\ l1 \in Nat
          /\ l \in Nat /\ k \in Nat /\ m \in Nat
          /\ c1 <= c - 1 /\ l1 <= l + 1 /\ l + c + o <= k + m
      BY <1>6, <2>4, <3>1, <3>2
    <3> HIDE DEF l1, c1, l, c, o, k, m
    <3>4. l1 + c1 + o <= k + m
      BY ONLY <3>3
    <3> QED BY <1>4, <1>7, <3>4 DEF l1, c1, o, k, m
  <2> QED BY <1>2, <1>4, <2>4, <2>5 DEF Paid
<1>8. CASE Mishap /\ pc' = [pc EXCEPT ![p] = "reschedule"]
  <2>1. Chances' \subseteq Chances
    BY <1>1, <1>8 DEF Chances, TypeOK
  <2>2. mishaps' = mishaps + 1
    BY <1>8 DEF Mishap
  <2> QED BY <1>2, <1>4, <1>6, <2>1, <2>2, Pays
<1> QED BY <1>7, <1>8, PublishParts

\* The loop goes on: the publisher lets its event go.
LEMMA LoopLetsGo ==
  ASSUME TypeOK, NEW p \in Publishers, pc[p] \in {"confirm", "reschedule"},
         NextInBatch(p)
  PROVE  /\ at[p] \in Events
         /\ Chances' \subseteq Chances
         /\ \A e \in Events : \A q \in Publishers :
              e \in Busy(q)' <=> (e \in batch[q] \/ (e \in Busy(q) /\ q # p))
         /\ \A q \in Publishers : at'[q] \notin batch'[q] \/ at'[q] = at[q]
         /\ batch' = batch /\ at'[p] = NoEvent
         /\ UNCHANGED <<committed, log>>
<1>1. /\ batch' = batch
      /\ at' = [at EXCEPT ![p] = NoEvent]
      /\ pc' = [pc EXCEPT ![p] = IF batch[p] = {} THEN "idle" ELSE "publish"]
      /\ UNCHANGED <<committed, log>>
  BY DEF NextInBatch, broker
<1>2. at[p] \in Events
  BY DEF TypeOK
<1>3. Chances' \subseteq Chances
  BY <1>1, OutboxAssumption DEF Chances, TypeOK
<1>4. ASSUME NEW e \in Events, NEW q \in Publishers
      PROVE  e \in Busy(q)' <=> (e \in batch[q] \/ (e \in Busy(q) /\ q # p))
  BY <1>1, OutboxAssumption DEF Busy, TypeOK
<1>5. \A q \in Publishers : at'[q] \notin batch'[q] \/ at'[q] = at[q]
  BY <1>1, OutboxAssumption DEF TypeOK
<1> QED BY <1>1, <1>2, <1>3, <1>4, <1>5 DEF TypeOK

\* A confirmed event is closed; one whose confirmation failed may go again.
LEMMA ConfirmPaid ==
  ASSUME TypeOK, Known, Paid, NEW p \in Publishers, Confirm(p)
  PROVE  Paid'
<1>1. /\ pc[p] = "confirm" /\ NextInBatch(p)
      /\ \/ /\ published' = published \cup {at[p]}
            /\ lock' = IF at[p] \in published THEN lock ELSE [lock EXCEPT ![at[p]] = "free"]
            /\ UNCHANGED mishaps
         \/ mishaps' = mishaps + 1 /\ UNCHANGED <<published, lock>>
  BY DEF Confirm, Mishap, rows
<1>2. /\ at[p] \in Events /\ Chances' \subseteq Chances
      /\ \A q \in Publishers : at'[q] \notin batch'[q]
      /\ log' = log /\ ElementsOf(committed)' = ElementsOf(committed)
  BY <1>1, LoopLetsGo DEF Paid
<1>3. Open' \subseteq Open \cup {at[p]}
  <2> SUFFICES ASSUME NEW e \in Open', e \notin Open, e # at[p] PROVE FALSE
    OBVIOUS
  <2>1. e \in Events /\ e \in ElementsOf(committed) \ published
    BY <1>1, <1>2 DEF Open, Known
  <2>2. PICK q \in Publishers : lock[e] = "held" /\ e \in Busy(q)
    BY <2>1 DEF Open
  <2>3. lock'[e] = "held"
    BY <1>1, <1>2, <2>1, <2>2 DEF TypeOK
  <2>4. e \in Busy(q)'
    BY <1>1, <2>1, <2>2, LoopLetsGo DEF Busy
  <2> QED BY <2>3, <2>4 DEF Open
<1>4. CASE mishaps' = mishaps + 1
  BY <1>2, <1>3, <1>4, Pays
<1>5. CASE mishaps' = mishaps /\ published' = published \cup {at[p]}
  <2>1. at[p] \notin Open'
    BY <1>5 DEF Open
  <2> QED BY <1>2, <1>3, <1>5, <2>1, Pays
<1> QED BY <1>1, <1>4, <1>5

\* A publisher that gives an event back opens it, for the chance it had.
LEMMA ReschedulePaid ==
  ASSUME TypeOK, Known, Paid, NEW p \in Publishers, Reschedule(p)
  PROVE  Paid'
<1>1. /\ pc[p] = "reschedule" /\ NextInBatch(p)
      /\ \/ /\ at[p] \notin published
            /\ lock' = [lock EXCEPT ![at[p]] = "free"]
            /\ UNCHANGED <<published, mishaps>>
         \/ at[p] \in published /\ UNCHANGED <<published, lock, mishaps>>
         \/ mishaps' = mishaps + 1 /\ UNCHANGED <<published, lock>>
  BY DEF Reschedule, Mishap, rows
<1>2. /\ at[p] \in Events /\ Chances' \subseteq Chances
      /\ \A q \in Publishers : at'[q] \notin batch'[q]
      /\ log' = log /\ ElementsOf(committed)' = ElementsOf(committed)
  BY <1>1, LoopLetsGo DEF Paid
<1>3. Open' \subseteq Open \cup {at[p]}
  <2> SUFFICES ASSUME NEW e \in Open', e \notin Open, e # at[p] PROVE FALSE
    OBVIOUS
  <2>1. e \in Events /\ e \in ElementsOf(committed) \ published
    BY <1>1, <1>2 DEF Open, Known
  <2>2. PICK q \in Publishers : lock[e] = "held" /\ e \in Busy(q)
    BY <2>1 DEF Open
  <2>3. lock'[e] = "held"
    BY <1>1, <1>2, <2>1, <2>2 DEF TypeOK
  <2>4. e \in Busy(q)'
    BY <1>1, <2>1, <2>2, LoopLetsGo DEF Busy
  <2> QED BY <2>3, <2>4 DEF Open
<1>4. CASE mishaps' = mishaps + 1
  BY <1>2, <1>3, <1>4, Pays
<1>5. CASE mishaps' = mishaps /\ published' = published /\ at[p] \in published
  <2>1. at[p] \notin Open'
    BY <1>5 DEF Open
  <2> QED BY <1>2, <1>3, <1>5, <2>1, Pays
<1>6. CASE mishaps' = mishaps /\ at[p] \notin published
  <2>1. <<p, at[p]>> \in Chances
    BY <1>1, <1>2 DEF Chances
  <2>2. <<p, at[p]>> \notin Chances'
    <3>1. at[p] \notin batch'[p] /\ at'[p] = NoEvent
      BY <1>1, LoopLetsGo DEF Paid
    <3> QED BY <1>2, <3>1, OutboxAssumption DEF Chances
  <2>3. /\ IsFiniteSet(Chances \ {<<p, at[p]>>})
        /\ Cardinality(Chances \ {<<p, at[p]>>}) = Cardinality(Chances) - 1
    BY <2>1, FS_RemoveElement DEF Paid
  <2>4. Chances' \subseteq Chances \ {<<p, at[p]>>}
    BY <1>2, <2>2
  <2>5. /\ IsFiniteSet(Chances') /\ Cardinality(Chances') \in Nat
        /\ Cardinality(Chances') <= Cardinality(Chances) - 1
    BY <2>3, <2>4, FS_Subset, FS_CardinalityType
  <2>6. Cardinality(Open') \in Nat /\ Cardinality(Open') <= Cardinality(Open) + 1
    BY <1>3, Countable, OneMore
  <2>7. Len(log') + Cardinality(Chances') + Cardinality(Open')
          <= Cardinality(ElementsOf(committed)) + mishaps'
    <3>1. Len(log) + Cardinality(Chances) + Cardinality(Open)
            <= Cardinality(ElementsOf(committed)) + mishaps
      BY DEF Paid
    <3>2. /\ Len(log) \in Nat /\ mishaps \in Nat
          /\ Cardinality(Chances) \in Nat /\ Cardinality(Open) \in Nat
          /\ Cardinality(ElementsOf(committed)) \in Nat
      BY Countable
    <3>3. Len(log') = Len(log) /\ ElementsOf(committed)' = ElementsOf(committed)
      BY <1>2
    <3> DEFINE c1 == Cardinality(Chances')  o1 == Cardinality(Open')  l == Len(log)
               c == Cardinality(Chances)  o == Cardinality(Open)
               k == Cardinality(ElementsOf(committed))  m == mishaps
    <3>4. /\ c \in Nat /\ o \in Nat /\ c1 \in Nat /\ o1 \in Nat
          /\ l \in Nat /\ k \in Nat /\ m \in Nat
          /\ c1 <= c - 1 /\ o1 <= o + 1 /\ l + c + o <= k + m
      BY <2>5, <2>6, <3>1, <3>2
    <3> HIDE DEF c1, o1, l, c, o, k, m
    <3>5. l + c1 + o1 <= k + m
      BY ONLY <3>4
    <3> QED BY <1>6, <3>3, <3>5 DEF l, c1, o1, k, m
  <2> QED BY <1>2, <2>5, <2>7 DEF Paid
<1> QED BY <1>1, <1>4, <1>5, <1>6

\* The events of a publisher that dies open again, each for the chance it was;
\* the one it had sent and not confirmed is what the crash pays for.
LEMMA CrashPaid ==
  ASSUME TypeOK, Known, Paid, NEW p \in Publishers, Crash(p)
  PROVE  Paid'
<1> DEFINE B == batch[p]
<1>1. /\ batch' = [batch EXCEPT ![p] = {}] /\ pc' = [pc EXCEPT ![p] = "idle"]
      /\ at' = [at EXCEPT ![p] = NoEvent] /\ mishaps' = mishaps + 1
      /\ UNCHANGED <<committed, published, lock, log>>
  BY DEF Crash, Mishap, rows, broker
<1>2. B \subseteq Events /\ B \subseteq ElementsOf(committed)
  BY DEF TypeOK, Known, Busy
<1>3. {p} \X B \subseteq Chances
  BY <1>2 DEF Chances
<1>4. Chances' \subseteq Chances \ ({p} \X B)
  BY <1>1, OutboxAssumption DEF Chances, TypeOK
<1>5. Open' \subseteq (Open \cup B) \cup {at[p]}
  <2> SUFFICES ASSUME NEW e \in Open', e \notin Open, e \notin Busy(p) PROVE FALSE
    BY DEF Busy
  <2>1. e \in Events /\ e \in ElementsOf(committed) \ published
    BY <1>1 DEF Open, Known
  <2>2. PICK q \in Publishers : lock[e] = "held" /\ e \in Busy(q)
    BY <2>1 DEF Open
  <2>3. lock'[e] = "held" /\ e \in Busy(q)'
    BY <1>1, <2>1, <2>2 DEF Busy, TypeOK
  <2> QED BY <2>3 DEF Open
<1> HIDE DEF B
<1>6. /\ IsFiniteSet(B) /\ Cardinality(B) \in Nat
      /\ IsFiniteSet({p} \X B) /\ Cardinality({p} \X B) = Cardinality(B)
  <2>1. IsFiniteSet(B) /\ Cardinality(B) \in Nat
    BY <1>2, FS_Subset, FS_CardinalityType DEF Paid
  <2>2. IsFiniteSet({p}) /\ Cardinality({p}) = 1
    BY FS_Singleton
  <2>3. /\ IsFiniteSet({p} \X B)
        /\ Cardinality({p} \X B) = Cardinality({p}) * Cardinality(B)
    BY <2>1, <2>2, FS_Product
  <2> QED BY <2>1, <2>2, <2>3
<1>7. /\ IsFiniteSet(Chances') /\ Cardinality(Chances') \in Nat
      /\ Cardinality(Chances') <= Cardinality(Chances) - Cardinality(B)
  <2> DEFINE lost == {p} \X B
  <2>2. Chances' \subseteq Chances \ lost /\ Cardinality(lost) = Cardinality(B)
    BY <1>4, <1>6
  <2>3. Chances \cap lost = lost
    BY <1>3
  <2>1. IsFiniteSet(Chances)
    BY DEF Paid
  <2> HIDE DEF lost
  <2>4. /\ IsFiniteSet(Chances \ lost)
        /\ Cardinality(Chances \ lost)
             = Cardinality(Chances) - Cardinality(Chances \cap lost)
    BY <2>1, FS_Difference
  <2>5. Cardinality(Chances \ lost) = Cardinality(Chances) - Cardinality(B)
    BY <2>2, <2>3, <2>4
  <2>6. IsFiniteSet(Chances') /\ Cardinality(Chances') <= Cardinality(Chances \ lost)
    BY <2>2, <2>4, FS_Subset
  <2>7. Cardinality(Chances') \in Nat
    BY <2>6, FS_CardinalityType
  <2> QED BY <2>5, <2>6, <2>7
<1>8. /\ Cardinality(Open') \in Nat
      /\ Cardinality(Open') <= Cardinality(Open) + Cardinality(B) + 1
  <2>1. /\ IsFiniteSet(Open \cup B)
        /\ Cardinality(Open \cup B)
             = Cardinality(Open) + Cardinality(B) - Cardinality(Open \cap B)
    BY <1>6, Countable, FS_Union
  <2>2. Cardinality(Open \cap B) \in Nat
    BY Countable, FS_Intersection, FS_CardinalityType
  <2>3. /\ Cardinality(Open') \in Nat
        /\ Cardinality(Open') <= Cardinality(Open \cup B) + 1
    BY <1>5, <2>1, OneMore
  <2> QED BY <1>6, <2>1, <2>2, <2>3, Countable
<1>9. \A q \in Publishers : at'[q] \notin batch'[q]
  BY <1>1 DEF TypeOK, Paid
<1>10. Len(log') + Cardinality(Chances') + Cardinality(Open')
         <= Cardinality(ElementsOf(committed)) + mishaps'
  <2>1. Len(log) + Cardinality(Chances) + Cardinality(Open)
          <= Cardinality(ElementsOf(committed)) + mishaps
    BY DEF Paid
  <2>2. Len(log') = Len(log) /\ mishaps' = mishaps + 1
        /\ Cardinality(ElementsOf(committed)') = Cardinality(ElementsOf(committed))
    BY <1>1 DEF ElementsOf
  <2>3. /\ Cardinality(Open) \in Nat /\ Cardinality(Chances) \in Nat
        /\ Cardinality(ElementsOf(committed)) \in Nat
        /\ Len(log) \in Nat /\ mishaps \in Nat
    BY Countable
  <2> DEFINE b == Cardinality(B)  c1 == Cardinality(Chances')  o1 == Cardinality(Open')
             l == Len(log)  c == Cardinality(Chances)  o == Cardinality(Open)
             k == Cardinality(ElementsOf(committed))  m == mishaps
  <2>4. /\ b \in Nat /\ c \in Nat /\ o \in Nat /\ c1 \in Nat /\ o1 \in Nat
        /\ l \in Nat /\ k \in Nat /\ m \in Nat
        /\ c1 <= c - b /\ o1 <= o + b + 1 /\ l + c + o <= k + m
    BY <1>6, <1>7, <1>8, <2>1, <2>3
  <2> HIDE DEF b, c1, o1, l, c, o, k, m
  <2>5. l + c1 + o1 <= k + (m + 1)
    BY ONLY <2>4
  <2> QED BY <2>2, <2>5 DEF l, c1, o1, k, m
<1> QED BY <1>1, <1>7, <1>9, <1>10 DEF Paid

\* A new event has its first chance.
LEMMA InsertPaid ==
  ASSUME TypeOK, Paid, NEW g \in Events, Insert(g)
  PROVE  Paid'
<1>1. /\ g \notin ElementsOf(committed) /\ committed' = Append(committed, g)
      /\ UNCHANGED <<published, lock, batch, pc, at, log, mishaps>>
  BY DEF Insert, rows, publishing, broker
<1>2. ElementsOf(committed') = ElementsOf(committed) \cup {g}
  BY <1>1, Appended DEF TypeOK
<1>3. /\ IsFiniteSet(ElementsOf(committed'))
      /\ Cardinality(ElementsOf(committed')) = Cardinality(ElementsOf(committed)) + 1
  BY <1>1, <1>2, FS_AddElement DEF Paid
<1>4. Chances' = Chances /\ \A q \in Publishers : at'[q] \notin batch'[q]
  BY <1>1 DEF Chances, Paid
<1>5. Open' \subseteq Open \cup {g}
  BY <1>1, <1>2 DEF Open, Busy
<1>6. Cardinality(Open') \in Nat /\ Cardinality(Open') <= Cardinality(Open) + 1
  BY <1>5, Countable, OneMore
<1>7. Len(log') + Cardinality(Chances') + Cardinality(Open')
        <= Cardinality(ElementsOf(committed')) + mishaps'
  BY <1>1, <1>3, <1>4, <1>6, Countable DEF Paid
<1> QED BY <1>3, <1>4, <1>7 DEF Paid

\* Time opens what its holder lost, or for a mishap what it still holds.
LEMMA TimePaid ==
  ASSUME TypeOK, Paid, NEW g \in Events,
         TakeInstant(g) \/ BecomeDue(g) \/ Abandoned(g) \/ Outlived(g) \/ Forget(g)
  PROVE  Paid'
<1>1. /\ UNCHANGED <<committed, published, batch, pc, at, log>>
      /\ \/ UNCHANGED <<lock, mishaps>>
         \/ /\ lock' = [lock EXCEPT ![g] = "stale"] /\ mishaps' = mishaps
            /\ \A p \in Publishers : g \notin Busy(p)
         \/ lock' = [lock EXCEPT ![g] = "stale"] /\ mishaps' = mishaps + 1
  BY DEF TakeInstant, BecomeDue, Abandoned, Outlived, Forget, Mishap, rows,
         publishing, broker
<1>2. /\ Chances' = Chances /\ \A q \in Publishers : at'[q] \notin batch'[q]
      /\ ElementsOf(committed)' = ElementsOf(committed)
      /\ \A q \in Publishers : Busy(q)' = Busy(q)
  BY <1>1 DEF Chances, Paid, Busy
<1>3. CASE UNCHANGED <<lock, mishaps>>
  <2>1. Open' = Open
    BY <1>1, <1>2, <1>3 DEF Open
  <2> QED BY <1>1, <1>2, <1>3, <2>1, Pays
<1>4. CASE lock' = [lock EXCEPT ![g] = "stale"]
  <2>1. Open' \subseteq Open \cup {g}
    BY <1>1, <1>2, <1>4 DEF Open, TypeOK
  <2>2. (\A p \in Publishers : g \notin Busy(p)) => Open' \subseteq Open
    BY <1>1, <1>2, <2>1 DEF Open
  <2> QED BY <1>1, <1>2, <1>3, <2>1, <2>2, Pays
<1> QED BY <1>1, <1>3, <1>4

\* One step per action.
LEMMA NextPaid == TypeOK /\ Known /\ Paid /\ [Next]_vars => Paid'
<1> SUFFICES ASSUME TypeOK, Known, Paid, [Next]_vars PROVE Paid'
  OBVIOUS
<1>1. CASE UNCHANGED vars
  <2>1. Chances' = Chances /\ Open' = Open
    BY <1>1 DEF vars, Chances, Open, Busy
  <2> QED BY <1>1, <2>1 DEF vars, Paid
<1> QED
  BY <1>1, InsertPaid, TimePaid, ClaimPaid, PublishPaid, ConfirmPaid, ReschedulePaid,
     CrashPaid DEF Next, Step

\* An event that was never sent has a chance, or is open.
LEMMA Unsent ==
  ASSUME TypeOK, Known, NEW e \in ElementsOf(committed) \ ElementsOf(log)
  PROVE  e \in Open \/ \E p \in Publishers : <<p, e>> \in Chances
<1>1. e \in Events /\ e \notin published
  BY DEF Known
<1>2. ASSUME NEW p \in Publishers, e \in Busy(p) PROVE <<p, e>> \in Chances
  BY <1>1, <1>2, OutboxAssumption DEF Busy, Chances, TypeOK, Known
<1> QED BY <1>1, <1>2 DEF Open

\* Hence what was sent more than once was paid for.
LEMMA PaidExplains == TypeOK /\ Known /\ Paid => DuplicatesExplained
<1> SUFFICES ASSUME TypeOK, Known, Paid PROVE DuplicatesExplained
  OBVIOUS
<1> DEFINE C == ElementsOf(committed)
           L == ElementsOf(log)
           f == [c \in Chances |-> c[2]]
           H == {f[c] : c \in Chances}
<1>1. IsFiniteSet(H) /\ Cardinality(H) \in Nat /\ Cardinality(H) <= Cardinality(Chances)
  <2>1. f \in Surjection(Chances, H)
    BY DEF Surjection
  <2> HIDE DEF f, H
  <2> QED BY <2>1, FS_Surjection, FS_CardinalityType DEF Paid
<1>2. C \ L \subseteq Open \cup H
  <2> SUFFICES ASSUME NEW e \in C \ L, e \notin Open PROVE e \in H
    OBVIOUS
  <2>1. PICK p \in Publishers : <<p, e>> \in Chances
    BY Unsent
  <2>2. f[<<p, e>>] = e
    BY <2>1
  <2> HIDE DEF f
  <2> QED BY <2>1, <2>2
<1> HIDE DEF f, H
<1>3. /\ IsFiniteSet(Open \cup H) /\ Cardinality(Open \cup H) \in Nat
      /\ Cardinality(Open \cup H) <= Cardinality(Open) + Cardinality(Chances)
  <2>1. /\ IsFiniteSet(Open \cup H)
        /\ Cardinality(Open \cup H)
             = Cardinality(Open) + Cardinality(H) - Cardinality(Open \cap H)
    BY <1>1, Countable, FS_Union
  <2>2. Cardinality(Open \cap H) \in Nat /\ Cardinality(Open \cup H) \in Nat
    BY <1>1, <2>1, FS_Intersection, FS_CardinalityType
  <2> QED BY <1>1, <2>1, <2>2, Countable
<1>4. C \cap L = L /\ IsFiniteSet(C)
  BY DEF Known, Paid
<1> HIDE DEF C, L
<1>5. /\ IsFiniteSet(L) /\ Cardinality(L) \in Nat /\ Cardinality(C) \in Nat
      /\ Cardinality(C \ L) = Cardinality(C) - Cardinality(L)
  BY <1>4, FS_Difference, FS_Intersection, FS_CardinalityType
<1>6. Cardinality(C \ L) <= Cardinality(Open \cup H)
  BY <1>2, <1>3, FS_Subset
<1>7. Len(log) + Cardinality(Chances) + Cardinality(Open) <= Cardinality(C) + mishaps
  BY DEF Paid, C
<1>8. Len(log) - Cardinality(L) <= mishaps
  BY <1>3, <1>5, <1>6, <1>7, Countable
<1> QED BY <1>8 DEF DuplicatesExplained, L

\* Publishers alone never send an event twice, however many there are and
\* whatever their order: every copy of an event beyond the first was caused by
\* a failure, a crash or a holder slower than its lock (Claim, Reschedule).
THEOREM CopiesAreExplained == Spec => []DuplicatesExplained
<1>1. StreamInv => TypeOK /\ Known
  BY DEF StreamInv
<1>2. TypeOK /\ Known /\ Paid /\ [Next]_vars => Paid'
  BY NextPaid
<1>3. TypeOK /\ Known /\ Paid => DuplicatesExplained
  BY PaidExplains
<1> QED BY InitPaid, <1>1, <1>2, <1>3, StreamInvariant, PTL DEF Spec
=============================================================================
