------------------------------- MODULE Migrations -------------------------------
(***************************************************************************)
(* internal/platform/migrate: application instances run Up when they start  *)
(* (bootstrap.runMigrations) while an operator may run Down (cmd/migrate).  *)
(* Each migration is applied in a transaction of its own under an advisory  *)
(* lock; which ones are pending is read before, outside the lock.           *)
(*                                                                         *)
(* The repository has one migration; the runner is written for any number.  *)
(* Since an instance that waited for the lock does not read again, it runs  *)
(* a script twice and fails to start, although the package comment has it   *)
(* that instances "cannot race"; what holds instead is SomeoneComesUp.      *)
(***************************************************************************)
EXTENDS Naturals, Sequences, SequencesExt

CONSTANTS
  Versions,    \* versions of the embedded migrations
  Instances,   \* processes that run Up at start
  Operators,   \* processes that run Down
  Steps,       \* the -steps flag of Down; 0 reverts all
  MaxMishaps   \* bound: scripts that fail and processes that die

VARIABLES
  present,   \* versions whose objects exist in the schema
  recorded,  \* the rows of schema_migrations
  pc,        \* per process: next statement
  todo,      \* versions it has still to apply or to revert
  mishaps

vars == <<present, recorded, pc, todo, mishaps>>

Runners == Instances \cup Operators

Init ==
  /\ \E installed \in {{}, Versions} : present = installed /\ recorded = installed
  /\ pc = [r \in Runners |-> "start"]
  /\ todo = [r \in Runners |-> <<>>]
  /\ mishaps = 0

-----------------------------------------------------------------------------

\* Fault: the migrations come in the order of a Go map.
AnyOrder(S) == SetToSeqs(S)

\* The orders in which Load may return a set of migrations: sorted.
LoadOrders(S) ==
  {seq \in AnyOrder(S) : \A i, j \in DOMAIN seq : i < j => seq[i] < seq[j]}

Goto(r, label) == pc' = [pc EXCEPT ![r] = label]

NextOrDone(r, seq) ==
  /\ todo' = [todo EXCEPT ![r] = seq]
  /\ Goto(r, IF seq = <<>> THEN "done" ELSE "lock")

LatestFirst == Reverse(SetToSortSeq(recorded, <))

\* appliedVersions, with the loop's choice of what is left to do.
ReadApplied(r) ==
  /\ pc[r] = "start"
  /\ \/ /\ r \in Instances
        /\ \E seq \in LoadOrders(Versions \ recorded) : NextOrDone(r, seq)
     \/ /\ r \in Operators
        /\ NextOrDone(r, IF Steps \in 1..(Len(LatestFirst) - 1)
                         THEN SubSeq(LatestFirst, 1, Steps) ELSE LatestFirst)
  /\ UNCHANGED <<present, recorded, mishaps>>

Version(r) == Head(todo[r])

\* Fault: the lock belongs to the session, and the session to a pool.
SessionHolds(r) == pc[r] \in {"script", "record", "failed"}

\* pg_advisory_xact_lock: released with the transaction.
Holds(r) == pc[r] \in {"script", "record"}

AcquireLock(r) ==
  /\ pc[r] = "lock"
  /\ \A q \in Runners \ {r} : ~Holds(q)
  /\ Goto(r, "script")
  /\ UNCHANGED <<present, recorded, todo, mishaps>>

Applied(r) ==
  IF r \in Instances THEN present \cup {Version(r)} ELSE present \ {Version(r)}

\* Fault: the script runs outside the transaction.
AppliedAtOnce(r) == Applied(r)

\* What others see of the script before the commit: nothing, DDL included.
SeenBeforeCommit(r) == present

\* An up script creates its tables and fails where they exist; a down script
\* drops what exists.
RunScript(r) ==
  /\ pc[r] = "script"
  /\ \/ /\ r \in Instances /\ Version(r) \in present
        /\ Goto(r, "failed")
        /\ UNCHANGED present
     \/ /\ r \in Instances => Version(r) \notin present
        /\ Goto(r, "record")
        /\ present' = SeenBeforeCommit(r)
  /\ UNCHANGED <<recorded, todo, mishaps>>

\* The row of schema_migrations and the commit.
Record(r) ==
  /\ pc[r] = "record"
  /\ present' = Applied(r)
  /\ recorded' = IF r \in Instances THEN recorded \cup {Version(r)}
                 ELSE recorded \ {Version(r)}
  /\ NextOrDone(r, Tail(todo[r]))
  /\ UNCHANGED mishaps

\* applyOne returned an error: Up and Down return it.
AfterFailure(r) == Goto(r, "failed") /\ UNCHANGED todo

\* A statement fails or the process dies; the transaction is rolled back.
Fail(r) ==
  /\ pc[r] \in {"lock", "script", "record"}
  /\ mishaps < MaxMishaps /\ mishaps' = mishaps + 1
  /\ AfterFailure(r)
  /\ UNCHANGED <<present, recorded>>

Statement(r) == ReadApplied(r) \/ AcquireLock(r) \/ RunScript(r) \/ Record(r)

Next == \E r \in Runners : Statement(r) \/ Fail(r)

Spec == Init /\ [][Next]_vars

-----------------------------------------------------------------------------
(* Properties.                                                              *)

\* No operator has read what there is to revert.  (An operator that reverts
\* while instances start can leave any set of versions behind.)
NobodyReverts == \A o \in Operators : pc[o] = "start"

Stopped(r) == pc[r] \in {"done", "failed"}

\* Instances that start together and read the same pending migrations cannot
\* turn each other away altogether: unless something else fails, one of them
\* comes up with the whole schema (Up).
SomeoneComesUp ==
  (mishaps = 0 /\ NobodyReverts /\ \A r \in Instances : Stopped(r)) =>
    \E r \in Instances : pc[r] = "done" /\ recorded = Versions

\* schema_migrations tells exactly which scripts are in effect, whoever fails
\* or dies between the script and the row; and migrations, which build on each
\* other, leave no gap before anybody reverts (applyOne, Up).
RecordTellsSchema ==
  /\ recorded = present
  /\ NobodyReverts => \A v \in recorded : \A u \in Versions : u < v => u \in recorded
=============================================================================
