------------------------------ MODULE EventStream ------------------------------
(***************************************************************************)
(* What the outbox promises: every event of a committed transaction is      *)
(* delivered at least once, behind those it follows, and is called          *)
(* published only when it has been.  No rows, locks, publishers or time.    *)
(***************************************************************************)
EXTENDS Naturals, Sequences

CONSTANT Events

VARIABLES
  emitted,  \* the events of committed transactions
  before,   \* [Events -> the events each one follows]
  stream,   \* what readers of the queue get
  settled   \* the events called published

vars == <<emitted, before, stream, settled>>

Delivered == {stream[i] : i \in 1..Len(stream)}

Init ==
  /\ emitted = {}
  /\ before = [e \in Events |-> {}]
  /\ stream = <<>>
  /\ settled = {}

\* A transaction commits with its event.
Emit(e) ==
  /\ e \notin emitted
  /\ emitted' = emitted \cup {e}
  /\ \E D \in SUBSET emitted : before' = [before EXCEPT ![e] = D]
  /\ UNCHANGED <<stream, settled>>

\* A reader may get e, once more perhaps, after all that it follows.
Deliver(e) ==
  /\ e \in emitted /\ before[e] \subseteq Delivered
  /\ stream' = Append(stream, e)
  /\ UNCHANGED <<emitted, before, settled>>

Settle(e) ==
  /\ e \in Delivered \ settled
  /\ settled' = settled \cup {e}
  /\ UNCHANGED <<emitted, before, stream>>

Next == \E e \in Events : Emit(e) \/ Deliver(e) \/ Settle(e)

Spec == Init /\ [][Next]_vars
=============================================================================
