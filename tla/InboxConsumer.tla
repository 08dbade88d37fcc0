----------------------------- MODULE InboxConsumer -----------------------------
(***************************************************************************)
(* The asynchronous path: consumers (internal/adapters/sqs) receive batches *)
(* from a FIFO queue with visibility timeouts and a redrive policy, and the *)
(* handler (internal/app/consumer) wraps wager.Process in a transaction     *)
(* that first claims the message in inbox_messages.                         *)
(*                                                                         *)
(* wager.Process appears as what WagerService guarantees of it: the first   *)
(* payload committed for an external identifier stands, an equal one gets   *)
(* its result and any other is a conflict.                                  *)
(***************************************************************************)
EXTENDS Naturals, Sequences, SequencesExt

CONSTANTS
  Entries,          \* queue entries that producers may send
  Body,             \* [Entries -> bodies], see BodyType
  MessageIds, ExternalIds, Payloads, Groups,
  Consumers,
  MaxMessages,      \* SQSConfig.MaxMessages
  MaxReceiveCount,  \* SQSConfig.MaxReceiveCount
  MaxSent,          \* bound: entries sent in a behaviour
  MaxMishaps,       \* bound: crashes, failed calls, slow consumers
  None

\* "invalid" fails parseRequest or Validate; "nowhere" names an unknown wallet,
\* which Process answers with an unclassified error every time.
BodyType ==
  [id : MessageIds, ext : ExternalIds, payload : Payloads, group : Groups,
   fault : {"none", "invalid", "nowhere"}]

ASSUME ConsumerAssumption ==
  /\ Body \in [Entries -> BodyType]
  /\ MaxMessages \in Nat \ {0}
  /\ MaxReceiveCount \in Nat \ {0}
  /\ MaxSent \in Nat
  /\ MaxMishaps \in Nat
  /\ None \notin Entries \cup Payloads

VARIABLES
  sent,      \* the entries in the order the queue took them
  queue,     \* "unsent", "visible", "inflight" or "gone"
  receives,  \* receive count; the last receipt handle is the valid one
  dlq,       \* entries moved to the dead-letter queue by "redrive" or "handler"
  inbox,     \* [MessageIds -> the entry completed under it, or None]
  applied,   \* [ExternalIds -> the payload that took effect, or None]
  handled,   \* entries completed, in commit order
  pc, batch, \* per consumer: next step, deliveries not dealt with
  mishaps

brokers == <<sent, queue, receives, dlq>>
tables  == <<inbox, applied, handled>>
vars == <<sent, queue, receives, dlq, inbox, applied, handled, pc, batch, mishaps>>

Init ==
  /\ sent = <<>>
  /\ queue = [m \in Entries |-> "unsent"]
  /\ receives = [m \in Entries |-> 0]
  /\ dlq = {}
  /\ inbox = [i \in MessageIds |-> None]
  /\ applied = [x \in ExternalIds |-> None]
  /\ handled = <<>>
  /\ pc = [c \in Consumers |-> "idle"]
  /\ batch = [c \in Consumers |-> <<>>]
  /\ mishaps = 0

Mishap == mishaps < MaxMishaps /\ mishaps' = mishaps + 1

\* The delivery a consumer is working on.
Entry(c)   == Head(batch[c]).entry
Receipt(c) == Head(batch[c]).receipt

Position(m) == CHOOSE i \in 1..Len(sent) : sent[i] = m

InGroup(m) == {n \in Entries : Body[n].group = Body[m].group}

-----------------------------------------------------------------------------
(* The queue.                                                               *)

Send(m) ==
  /\ queue[m] = "unsent" /\ Len(sent) < MaxSent
  /\ queue' = [queue EXCEPT ![m] = "visible"]
  /\ sent' = Append(sent, m)
  /\ UNCHANGED <<receives, dlq, tables, pc, batch, mishaps>>

Exhausted(m) == receives[m] >= MaxReceiveCount

\* An entry in flight keeps back its group.
Receivable(m) ==
  /\ queue[m] = "visible" /\ ~Exhausted(m)
  /\ \A n \in InGroup(m) : queue[n] # "inflight"

\* A batch holds the oldest entries of a group, or none of it.
FromTheFront(S) ==
  \A m \in S : \A n \in InGroup(m) :
    (queue[n] = "visible" /\ Position(n) < Position(m)) => n \in S

\* Redrive: the broker moves an entry received too often out of the way.
Redrive(m) ==
  /\ queue[m] = "visible" /\ Exhausted(m)
  /\ queue' = [queue EXCEPT ![m] = "gone"]
  /\ dlq' = dlq \cup {<<m, "redrive">>}
  /\ UNCHANGED <<sent, receives, tables, pc, batch, mishaps>>

Working(c, m) == \E i \in 1..Len(batch[c]) :
                   batch[c][i] = [entry |-> m, receipt |-> receives[m]]

\* The visibility timeout ends for an entry no consumer is working on ...
Reappear(m) ==
  /\ queue[m] = "inflight" /\ \A c \in Consumers : ~Working(c, m)
  /\ queue' = [queue EXCEPT ![m] = "visible"]
  /\ UNCHANGED <<sent, receives, dlq, tables, pc, batch, mishaps>>

\* ... or before the consumer has got to it or through with it.
Overtake(m) ==
  /\ queue[m] = "inflight" /\ \E c \in Consumers : Working(c, m)
  /\ Mishap
  /\ queue' = [queue EXCEPT ![m] = "visible"]
  /\ UNCHANGED <<sent, receives, dlq, tables, pc, batch>>

-----------------------------------------------------------------------------
(* Consumer.Run and processOne.                                             *)

\* ReceiveMessage: up to MaxMessages entries, in the order they were sent.
Receive(c) ==
  /\ pc[c] = "idle"
  /\ \E k \in 1..MaxMessages : \E s \in [1..k -> {m \in Entries : Receivable(m)}] :
       /\ \A i, j \in 1..k : i < j => Position(s[i]) < Position(s[j])
       /\ LET S == {s[i] : i \in 1..k} IN
            /\ FromTheFront(S)
            /\ queue' = [m \in Entries |-> IF m \in S THEN "inflight" ELSE queue[m]]
            /\ receives' = [m \in Entries |-> receives[m] + (IF m \in S THEN 1 ELSE 0)]
       /\ batch' = [batch EXCEPT ![c] =
            [i \in 1..k |-> [entry |-> s[i], receipt |-> receives[s[i]] + 1]]]
  /\ pc' = [pc EXCEPT ![c] = "handle"]
  /\ UNCHANGED <<sent, dlq, tables, mishaps>>

Goto(c, label) == pc' = [pc EXCEPT ![c] = label] /\ UNCHANGED batch

\* The loop goes on with the rest of the batch, whatever became of this one.
NextMessage(c) ==
  /\ batch' = [batch EXCEPT ![c] = Tail(@)]
  /\ pc' = [pc EXCEPT ![c] = IF Len(batch[c]) = 1 THEN "idle" ELSE "handle"]

Done(m)     == inbox[Body[m].id] # None
SameBody(m) == Body[inbox[Body[m].id]] = Body[m]

\* The outcome of inbox.Claim: the unique index makes it wait for another
\* transaction that has claimed the same message id.
Claim(c) ==
  LET m == Entry(c) IN
  /\ pc[c] = "handle"
  /\ \/ /\ Body[m].fault = "invalid"
        /\ Goto(c, "dead")
     \/ /\ Body[m].fault # "invalid"
        /\ \A d \in Consumers \ {c} :
             pc[d] = "process" => Body[Entry(d)].id # Body[m].id
        /\ \/ ~Done(m) /\ Goto(c, "process")
           \/ Done(m) /\ SameBody(m) /\ Goto(c, "delete")
           \/ Done(m) /\ ~SameBody(m) /\ Goto(c, "dead")
  /\ UNCHANGED <<brokers, tables, mishaps>>

Known(m) == applied[Body[m].ext]

\* Fault: the inbox is completed although Process reported a conflict.
ConflictCompleted(m) == Body[m].fault = "none"

\* Process succeeds: a new operation, or the replay of an equal one.
Accepted(m) == Body[m].fault = "none" /\ Known(m) \in {None, Body[m].payload}

\* Fault: every error of Process is unprocessable.
AllPermanent(c) == Goto(c, "dead")

\* Fault: a transient failure is retried on the spot, for ever.
RetryInPlace(c) == Goto(c, "handle")

\* A transient failure: the message stays invisible until its timeout.
WhenTransient(c) == NextMessage(c)

\* wager.Process, Complete and the commit.  A conflict is permanent; anything
\* else that fails is transient and rolls the claim back.
Process(c) ==
  LET m == Entry(c) IN
  /\ pc[c] = "process"
  /\ \/ /\ Accepted(m)
        /\ inbox' = [inbox EXCEPT ![Body[m].id] = m]
        /\ applied' = [applied EXCEPT ![Body[m].ext] =
                         IF @ = None THEN Body[m].payload ELSE @]
        /\ handled' = Append(handled, m)
        /\ Goto(c, "delete")
        /\ UNCHANGED mishaps
     \/ /\ Body[m].fault = "none" /\ ~Accepted(m)
        /\ Goto(c, "dead")
        /\ UNCHANGED <<tables, mishaps>>
     \/ /\ Body[m].fault = "nowhere"
        /\ WhenTransient(c)
        /\ UNCHANGED <<tables, mishaps>>
     \/ /\ Mishap
        /\ WhenTransient(c)
        /\ UNCHANGED tables
  /\ UNCHANGED brokers

\* DeleteMessage accepts the receipt of the latest delivery only.
ReceiptValid(c) ==
  queue[Entry(c)] = "inflight" /\ receives[Entry(c)] = Receipt(c)

\* deleteMessage, after a durable outcome or after the dead letter was sent.
Delete(c) ==
  /\ pc[c] = "delete"
  /\ NextMessage(c)
  /\ \/ /\ ReceiptValid(c)
        /\ queue' = [queue EXCEPT ![Entry(c)] = "gone"]
        /\ UNCHANGED mishaps
     \/ /\ ~ReceiptValid(c)
        /\ UNCHANGED <<queue, mishaps>>
     \/ /\ Mishap
        /\ UNCHANGED queue
  /\ UNCHANGED <<sent, receives, dlq, tables>>

\* Fault: the entry is deleted although the dead letter could not be sent.
DeleteUnsent(c) == Goto(c, "delete")

WhenUnsent(c) == NextMessage(c)

\* sendToDLQ
SendToDLQ(c) ==
  /\ pc[c] = "dead"
  /\ \/ /\ dlq' = dlq \cup {<<Entry(c), "handler">>}
        /\ Goto(c, "delete")
        /\ UNCHANGED mishaps
     \/ /\ Mishap
        /\ WhenUnsent(c)
        /\ UNCHANGED dlq
  /\ UNCHANGED <<sent, queue, receives, tables>>

\* The process dies with its batch; what it had not committed is rolled back.
Crash(c) ==
  /\ pc[c] # "idle"
  /\ Mishap
  /\ batch' = [batch EXCEPT ![c] = <<>>]
  /\ pc' = [pc EXCEPT ![c] = "idle"]
  /\ UNCHANGED <<brokers, tables>>

\* The same operation arrives over HTTP.
Elsewhere(x, payload) ==
  /\ applied[x] = None
  /\ applied' = [applied EXCEPT ![x] = payload]
  /\ UNCHANGED <<brokers, inbox, handled, pc, batch, mishaps>>

-----------------------------------------------------------------------------

Step(c) == Claim(c) \/ Process(c) \/ Delete(c) \/ SendToDLQ(c)

Next ==
  \/ \E m \in Entries : Send(m) \/ Redrive(m) \/ Reappear(m) \/ Overtake(m)
  \/ \E c \in Consumers : Receive(c) \/ Step(c) \/ Crash(c)
  \/ \E x \in ExternalIds, payload \in Payloads : Elsewhere(x, payload)

Spec == Init /\ [][Next]_vars

\* Consumers poll and work on for ever and the broker ends visibility timeouts
\* and applies its redrive policy.
FairSpec ==
  /\ Spec
  /\ \A c \in Consumers : WF_vars(Receive(c)) /\ WF_vars(Step(c))
  /\ \A m \in Entries : WF_vars(Reappear(m)) /\ WF_vars(Redrive(m))

-----------------------------------------------------------------------------
(* Properties.                                                              *)

\* The inbox has a completed row for this very body.
Recorded(m) == \E n \in Entries : inbox[Body[m].id] = n /\ Body[n] = Body[m]

DeadLettered(m) == {by \in {"redrive", "handler"} : <<m, by>> \in dlq}

\* Type invariant; a consumer is idle exactly when its batch is done.
TypeOK ==
  /\ queue \in [Entries -> {"unsent", "visible", "inflight", "gone"}]
  /\ receives \in [Entries -> 0..MaxReceiveCount]
  /\ dlq \subseteq Entries \X {"redrive", "handler"}
  /\ inbox \in [MessageIds -> Entries \cup {None}]
  /\ applied \in [ExternalIds -> Payloads \cup {None}]
  /\ pc \in [Consumers -> {"idle", "handle", "process", "delete", "dead"}]
  /\ \A c \in Consumers : pc[c] = "idle" <=> batch[c] = <<>>

\* An entry leaves the queue only with a durable outcome: its operation is
\* committed together with its inbox row, or it is in the dead-letter queue.
NothingDropped ==
  \A m \in Entries :
    (queue[m] = "gone" /\ DeadLettered(m) = {}) =>
      Recorded(m) /\ applied[Body[m].ext] = Body[m].payload

\* A completed inbox row stands for an operation in force with its payload,
\* and no message id is completed twice (Claim, Complete).
InboxTellsTheTruth ==
  /\ \A m \in ToSet(handled) :
       Recorded(m) /\ applied[Body[m].ext] = Body[m].payload
  /\ \A i, j \in 1..Len(handled) :
       Body[handled[i]].id = Body[handled[j]].id => i = j

\* What the handler calls unprocessable has no durable outcome, then or later:
\* every redelivery gets the same verdict.
VerdictsStand ==
  \A m \in Entries : <<m, "handler">> \in dlq => ~Recorded(m)

\* The consumers and the handler implement MessageIntake: a message takes
\* effect once, together with its inbox row, is refused only when nothing can
\* ever apply it, and leaves the queue only then or by the redrive policy,
\* whatever is delivered again, overtaken, lost or interrupted (Run, Handle).
Intake == INSTANCE MessageIntake WITH
  posted    <- {m \in Entries : queue[m] # "unsent"},
  completed <- inbox,
  refused   <- {m \in Entries : <<m, "handler">> \in dlq},
  givenUp   <- {m \in Entries : <<m, "redrive">> \in dlq},
  left      <- {m \in Entries : queue[m] = "gone"}

KeepsIntake == Intake!Spec

\* Messages of one group, that is of one wallet, are completed in the order in
\* which they were sent ("walletId (per-wallet order)", ARCHITECTURE.en.md).
\* The loop of Run goes on with the batch after a transient failure.
GroupOrder ==
  \A i, j \in 1..Len(handled) :
    (i < j /\ Body[handled[i]].group = Body[handled[j]].group) =>
      Position(handled[i]) < Position(handled[j])

\* Every entry leaves the queue: completed, dead-lettered by the handler, or
\* redriven after MaxReceiveCount deliveries.  Since what has left does not come
\* back, that is to say that the queue is empty again and again.
EveryEntryLeaves ==
  []<>(\A m \in Entries : queue[m] \in {"unsent", "gone"})
=============================================================================
