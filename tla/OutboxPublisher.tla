---------------------------- MODULE OutboxPublisher ----------------------------
(***************************************************************************)
(* The transactional outbox: internal/app/outbox/publisher.go over          *)
(* internal/adapters/postgres/outbox_repo.go and the FIFO events queue.     *)
(*                                                                         *)
(* Transactions take an instant when they begin and insert their event when *)
(* they commit; publishers claim a batch, send it event by event and        *)
(* confirm or reschedule each.  Instants are distinct: equal ones are told  *)
(* apart by the time-ordered event identifier.                              *)
(***************************************************************************)
EXTENDS Naturals, Sequences, FiniteSets

CONSTANTS
  Events,      \* events the transactions of the service will emit
  Aggregates,
  Aggregate,   \* [Events -> Aggregates]
  Publishers,  \* instances of the publisher
  BatchSize,   \* Config.BatchSize
  MaxMishaps,  \* bound: failures, crashes and lock expiries
  NoEvent

ASSUME OutboxAssumption ==
  /\ Aggregate \in [Events -> Aggregates]
  /\ BatchSize \in Nat \ {0}
  /\ MaxMishaps \in Nat
  /\ NoEvent \notin Events

VARIABLES
  clock,      \* the instants taken so far
  occurredAt, \* the instant each event's transaction took, 0 before
  committed,  \* the events inserted, in commit order
  published,  \* rows with published_at
  due,        \* rows whose next_attempt_at has come
  lock,       \* "free", "held", or "stale" once older than Config.LockTTL
  batch,      \* per publisher: claimed events not dealt with
  pc, at,     \* per publisher: next step, the event at hand
  log,        \* what the events queue has taken in, in order
  remembered, \* events the queue still deduplicates
  mishaps

rows       == <<published, due, lock>>
publishing == <<batch, pc, at>>
broker     == <<log, remembered>>
vars == <<clock, occurredAt, committed, published, due, lock, batch, pc, at, log,
          remembered, mishaps>>

ElementsOf(s) == {s[i] : i \in 1..Len(s)}

Init ==
  /\ clock = 0
  /\ occurredAt = [e \in Events |-> 0]
  /\ committed = <<>>
  /\ published = {}
  /\ due = Events
  /\ lock = [e \in Events |-> "free"]
  /\ batch = [p \in Publishers |-> {}]
  /\ pc = [p \in Publishers |-> "idle"]
  /\ at = [p \in Publishers |-> NoEvent]
  /\ log = <<>>
  /\ remembered = {}
  /\ mishaps = 0

-----------------------------------------------------------------------------
(* The transactions that emit events.                                       *)

\* s.clock(), before the transaction competes for the wallet.
TakeInstant(e) ==
  /\ occurredAt[e] = 0
  /\ clock' = clock + 1
  /\ occurredAt' = [occurredAt EXCEPT ![e] = clock + 1]
  /\ UNCHANGED <<committed, rows, publishing, broker, mishaps>>

\* The transaction commits: on one wallet the versions follow this order.
Insert(e) ==
  /\ occurredAt[e] # 0 /\ e \notin ElementsOf(committed)
  /\ committed' = Append(committed, e)
  /\ UNCHANGED <<clock, occurredAt, rows, publishing, broker, mishaps>>

-----------------------------------------------------------------------------
(* PublishDue.                                                              *)

Unpublished == ElementsOf(committed) \ published

\* Fault: an abandoned lock is never taken over.
NobodyHolds(e) == lock[e] = "free"

\* Fault: the lock is ignored.
LockIgnored(e) == TRUE

LockFree(e) == lock[e] \in {"free", "stale"}

\* Fault: any unpublished event may go.
AnyUnpublished(e) == e \in Unpublished

\* Only the earliest unpublished event of its aggregate is a candidate.
Earliest(e) ==
  /\ e \in Unpublished
  /\ \A f \in Unpublished :
       Aggregate[f] = Aggregate[e] => occurredAt[e] <= occurredAt[f]

Candidates == {e \in Events : Earliest(e) /\ e \in due /\ LockFree(e)}

\* ORDER BY occurred_at LIMIT BatchSize
FirstOf(S) ==
  {e \in S : Cardinality({f \in S : occurredAt[f] < occurredAt[e]}) < BatchSize}

Mishap == mishaps < MaxMishaps /\ mishaps' = mishaps + 1

\* Claim, in a short transaction of its own.
Claim(p) ==
  /\ pc[p] = "idle" /\ Candidates # {}
  /\ batch' = [batch EXCEPT ![p] = FirstOf(Candidates)]
  /\ lock' = [e \in Events |-> IF e \in FirstOf(Candidates) THEN "held" ELSE lock[e]]
  /\ pc' = [pc EXCEPT ![p] = "publish"]
  /\ UNCHANGED <<clock, occurredAt, committed, published, due, at, broker, mishaps>>

\* The queue takes e in unless it still remembers its deduplication id.
Deliver(e) ==
  /\ log' = IF e \in remembered THEN log ELSE Append(log, e)
  /\ remembered' = remembered \cup {e}

\* Fault: the result of Publish is not looked at.
ResultIgnored(sent) == "confirm"

AfterSending(sent) == IF sent THEN "confirm" ELSE "reschedule"

\* events.Publish: it succeeds, or it fails and the queue may have the event
\* all the same.  UPDATE ... RETURNING gives the batch in no particular order.
Publish(p, e) ==
  /\ pc[p] = "publish" /\ e \in batch[p]
  /\ at' = [at EXCEPT ![p] = e]
  /\ batch' = [batch EXCEPT ![p] = @ \ {e}]
  /\ \/ /\ Deliver(e)
        /\ pc' = [pc EXCEPT ![p] = AfterSending(TRUE)]
        /\ UNCHANGED mishaps
     \/ /\ Mishap
        /\ Deliver(e) \/ UNCHANGED broker
        /\ pc' = [pc EXCEPT ![p] = AfterSending(FALSE)]
  /\ UNCHANGED <<clock, occurredAt, committed, rows>>

\* The loop of PublishDue goes on with the next event of the batch.
NextInBatch(p) ==
  /\ at' = [at EXCEPT ![p] = NoEvent]
  /\ pc' = [pc EXCEPT ![p] = IF batch[p] = {} THEN "idle" ELSE "publish"]
  /\ UNCHANGED <<clock, occurredAt, committed, batch, broker>>

\* MarkPublished.  It may fail, and it changes nothing if another publisher
\* has confirmed the event already.
Confirm(p) ==
  /\ pc[p] = "confirm"
  /\ NextInBatch(p)
  /\ \/ /\ published' = published \cup {at[p]}
        /\ lock' = IF at[p] \in published THEN lock ELSE [lock EXCEPT ![at[p]] = "free"]
        /\ UNCHANGED <<due, mishaps>>
     \/ /\ Mishap
        /\ UNCHANGED rows

\* MarkFailed, with the same guard; it does not ask who holds the lock.
Reschedule(p) ==
  /\ pc[p] = "reschedule"
  /\ NextInBatch(p)
  /\ \/ /\ at[p] \notin published
        /\ due' = due \ {at[p]}
        /\ lock' = [lock EXCEPT ![at[p]] = "free"]
        /\ UNCHANGED <<published, mishaps>>
     \/ /\ at[p] \in published
        /\ UNCHANGED <<rows, mishaps>>
     \/ /\ Mishap
        /\ UNCHANGED rows

\* The process dies: its locks stay behind.
Crash(p) ==
  /\ pc[p] # "idle"
  /\ Mishap
  /\ batch' = [batch EXCEPT ![p] = {}]
  /\ pc' = [pc EXCEPT ![p] = "idle"]
  /\ at' = [at EXCEPT ![p] = NoEvent]
  /\ UNCHANGED <<clock, occurredAt, committed, rows, broker>>

-----------------------------------------------------------------------------
(* Time passes.                                                             *)

BecomeDue(e) ==
  /\ e \notin due
  /\ due' = due \cup {e}
  /\ UNCHANGED <<clock, occurredAt, committed, published, lock, publishing, broker,
                 mishaps>>

Busy(p) == batch[p] \cup ({at[p]} \ {NoEvent})

\* The lock outlives its TTL because its holder died or failed to release it.
Abandoned(e) ==
  /\ lock[e] = "held" /\ \A p \in Publishers : e \notin Busy(p)
  /\ lock' = [lock EXCEPT ![e] = "stale"]
  /\ UNCHANGED <<clock, occurredAt, committed, published, due, publishing, broker,
                 mishaps>>

\* The same, because its holder is slower than the TTL.
Outlived(e) ==
  /\ lock[e] = "held" /\ \E p \in Publishers : e \in Busy(p)
  /\ Mishap
  /\ lock' = [lock EXCEPT ![e] = "stale"]
  /\ UNCHANGED <<clock, occurredAt, committed, published, due, publishing, broker>>

\* The deduplication window of the queue (five minutes) ends.
Forget(e) ==
  /\ e \in remembered /\ e \notin published
  /\ remembered' = remembered \ {e}
  /\ UNCHANGED <<clock, occurredAt, committed, rows, publishing, log, mishaps>>

-----------------------------------------------------------------------------

Step(p) ==
  \/ Claim(p) \/ Confirm(p) \/ Reschedule(p)
  \/ \E e \in Events : Publish(p, e)

Next ==
  \/ \E e \in Events : TakeInstant(e) \/ Insert(e)
  \/ \E p \in Publishers : Step(p) \/ Crash(p)
  \/ \E e \in Events : BecomeDue(e) \/ Abandoned(e) \/ Outlived(e) \/ Forget(e)

Spec == Init /\ [][Next]_vars

\* Each publisher polls for ever and deals with the whole batch it claimed;
\* backoffs end and abandoned locks grow old.  Mishaps are bounded: a queue
\* that always fails never takes the events.
FairSpec ==
  /\ Spec
  /\ \A p \in Publishers : WF_vars(Step(p))
  /\ \A e \in Events : WF_vars(BecomeDue(e)) /\ WF_vars(Abandoned(e))

-----------------------------------------------------------------------------
(* Properties.                                                              *)

\* Type invariant; an idle publisher has dealt with all it claimed.
TypeOK ==
  /\ clock \in Nat
  /\ occurredAt \in [Events -> Nat]
  /\ committed \in Seq(Events)
  /\ published \subseteq Events
  /\ due \subseteq Events
  /\ lock \in [Events -> {"free", "held", "stale"}]
  /\ batch \in [Publishers -> SUBSET Events]
  /\ pc \in [Publishers -> {"idle", "publish", "confirm", "reschedule"}]
  /\ at \in [Publishers -> Events \cup {NoEvent}]
  /\ log \in Seq(Events)
  /\ remembered \subseteq Events
  /\ mishaps \in 0..MaxMishaps
  /\ \A p \in Publishers :
       /\ pc[p] = "idle" => Busy(p) = {}
       /\ pc[p] \in {"confirm", "reschedule"} <=> at[p] # NoEvent

\* e comes before f in s, or f does not come at all.
Precedes(s, e, f) ==
  \A j \in 1..Len(s) : s[j] = f => \E i \in 1..(j - 1) : s[i] = e

SameAggregate(e, f) == e # f /\ Aggregate[e] = Aggregate[f]

\* f follows e where instants and commits agree.
Follows(f, e) ==
  /\ SameAggregate(e, f)
  /\ e \in ElementsOf(committed)
  /\ Precedes(committed, e, f)
  /\ occurredAt[e] < occurredAt[f]

\* Claim keeps the order of an aggregate wherever commits and instants agree:
\* of two such events the first reaches the queue first, whatever fails and
\* however many publishers run.
OrderKept ==
  \A e, f \in Events : Follows(f, e) => Precedes(log, e, f)

Predecessors(f) ==
  IF f \in ElementsOf(committed) THEN {e \in Events : Follows(f, e)} ELSE {}

Stream == INSTANCE EventStream
            WITH emitted <- ElementsOf(committed),
                 before  <- [f \in Events |-> Predecessors(f)],
                 stream  <- log,
                 settled <- published

\* Seen from the tables and the queue alone, the publishers deliver a stream:
\* nothing that was not committed, nothing before what it follows, and nothing
\* is marked published that the queue has not got (PublishDue, Claim).
DeliversStream == Stream!Spec

\* "Per-aggregate order is preserved" (ARCHITECTURE.en.md, section 10): the
\* balance changes of a wallet reach the queue in the order of its versions.
VersionOrder ==
  \A e, f \in Events :
    (SameAggregate(e, f) /\ e \in ElementsOf(committed) /\ Precedes(committed, e, f))
      => Precedes(log, e, f)

\* Every copy beyond the first was caused by a failure, a crash or a holder
\* slower than its lock: publishers alone never send an event twice.
DuplicatesExplained == Len(log) - Cardinality(ElementsOf(log)) <= mishaps

\* Every event of a committed transaction is delivered and confirmed.  Since
\* none is taken back, that is to say that again and again none is left over.
EventuallyPublished == []<>(ElementsOf(committed) \subseteq published)
=============================================================================
