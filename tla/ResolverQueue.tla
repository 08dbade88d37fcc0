----------------------------- MODULE ResolverQueue -----------------------------
(***************************************************************************)
(* Which parked operation is resumed next: the loops of internal/app/       *)
(* references and of ResumeDue over ClaimOne.  WagerService says what a     *)
(* resumed operation does and lets a resolver claim any due row; here the   *)
(* due rows are in the order of next_attempt_at, a tick has a batch, and it *)
(* ends at the first error.  Rows woken together have the same instant, and *)
(* which of them comes first is left open.                                  *)
(***************************************************************************)
EXTENDS Naturals

CONSTANTS
  Rows,         \* operations that name a reference
  Ref,          \* [Rows -> Rows \cup {None}]: None is an operation never parked
  Poison,       \* rows whose resume fails every time (a credit that overflows)
  Resolvers,    \* instances of the application
  Batch,        \* REFERENCE_BATCH_SIZE
  MaxAttempts,  \* ReferenceMaxAttempts
  MaxMishaps,   \* bound: resumes that fail for a moment
  None

ASSUME ResolverAssumption ==
  /\ Ref \in [Rows -> Rows \cup {None}]
  /\ Poison \subseteq Rows
  /\ Batch \in Nat \ {0}
  /\ MaxAttempts \in Nat \ {0}
  /\ MaxMishaps \in Nat
  /\ None \notin Rows

VARIABLES
  status,    \* [Rows -> {"unknown", "parked", "processed", "rejected"}]
  attempts,
  due,       \* parked rows whose next_attempt_at has passed
  older,     \* <<q, r>>: both are due, and q's next_attempt_at is before r's
  answered,  \* rows whose reference None has been processed meanwhile
  left,      \* [Resolvers -> iterations left of the tick; 0 between ticks]
  held,      \* [Resolvers -> the row locked by ClaimOne, or None]
  passed,    \* history: <<r, q>>, r waited while q was claimed
  mishaps

rows == <<status, attempts, due, older, answered, passed>>
vars == <<status, attempts, due, older, answered, left, held, passed, mishaps>>

Init ==
  /\ status = [r \in Rows |-> "unknown"]
  /\ attempts = [r \in Rows |-> 0]
  /\ due = {}
  /\ older = {}
  /\ answered = {}
  /\ left = [i \in Resolvers |-> 0]
  /\ held = [i \in Resolvers |-> None]
  /\ passed = {}
  /\ mishaps = 0

Locked(r) == \E i \in Resolvers : held[i] = r

\* The reference of r is PROCESSED.
Found(r) == IF Ref[r] = None THEN r \in answered ELSE status[Ref[r]] = "processed"

\* Rows parked on r.
Dependents(r) == {d \in Rows : Ref[d] = r /\ status[d] = "parked"}

\* The order among the rows of S.
Among(S) == older \cap (S \X S)

\* Rows of S are not due any more.
LeaveDue(S) ==
  /\ due' = due \ S
  /\ older' = Among(due \ S)

\* The rows of D that became due since some instant.
Since(D) == {later \in SUBSET D :
               \A q \in later, r \in D : <<r, q>> \notin older => r \in later}

\* WakeDependents: the new next_attempt_at is the instant at which the waking
\* operation began, so rows that became due since then come after it.  The
\* rows of gone leave in the same transaction.
Wake(S, gone) ==
  LET rest == due \ (S \cup gone) IN
  \E later \in Since(rest) :
    /\ due' = rest \cup S
    /\ older' = Among(rest) \cup ((rest \ later) \X S) \cup (S \X later)

\* The history without the rows of S: they start to wait anew.
Anew(S) == {p \in passed : p[1] \notin S /\ p[2] \notin S}

-----------------------------------------------------------------------------
(* Process, on other servers.                                               *)

\* The first attempt finds no reference and schedules the second; it may have
\* looked before the reference was committed.
Park(r) ==
  /\ status[r] = "unknown" /\ MaxAttempts > 1
  /\ status' = [status EXCEPT ![r] = "parked"]
  /\ attempts' = [attempts EXCEPT ![r] = 1]
  /\ UNCHANGED <<due, older, answered, left, held, passed, mishaps>>

\* A reference that was never parked is processed; its UPDATE waits for locks.
Answer(r) ==
  /\ Ref[r] = None /\ r \notin answered /\ ~Locked(r)
  /\ answered' = answered \cup {r}
  /\ \/ /\ status[r] = "parked"
        /\ Wake({r}, {})
        /\ passed' = Anew({r})
     \/ /\ status[r] # "parked"
        /\ UNCHANGED <<due, older, passed>>
  /\ UNCHANGED <<status, attempts, left, held, mishaps>>

\* next_attempt_at passes.
BecomeDue(r) ==
  /\ status[r] = "parked" /\ r \notin due /\ ~Locked(r)
  /\ due' = due \cup {r}
  /\ older' = older \cup (due \X {r})
  /\ UNCHANGED <<status, attempts, answered, left, held, passed, mishaps>>

-----------------------------------------------------------------------------
(* The resolver.                                                            *)

\* The ticker of worker.Run fires, or Run calls for the first time.
Tick(i) ==
  /\ left[i] = 0
  /\ left' = [left EXCEPT ![i] = Batch]
  /\ UNCHANGED <<rows, held, mishaps>>

\* Fault: no ORDER BY.
AnyOf(S) == S

\* ORDER BY next_attempt_at LIMIT 1.
FirstOf(S) == {r \in S : \A q \in S : <<q, r>> \notin older}

\* FOR UPDATE SKIP LOCKED
Claimable == {r \in due : ~Locked(r)}

ClaimOne(i) ==
  /\ left[i] > 0 /\ held[i] = None
  /\ \/ \E r \in FirstOf(Claimable) :
          /\ held' = [held EXCEPT ![i] = r]
          /\ passed' = passed \cup ((Claimable \ {r}) \X {r})
          /\ UNCHANGED left
     \/ /\ Claimable = {}
        /\ left' = [left EXCEPT ![i] = 0]
        /\ UNCHANGED <<held, passed>>
  /\ UNCHANGED <<status, attempts, due, older, answered, mishaps>>

\* Fault: a fruitless attempt is not counted.
Uncounted(r) == attempts[r]

Counted(r) == attempts[r] + 1

\* The end of resumeOne: commit, and on to the next row of the batch.
Settle(i, verdict) ==
  /\ status' = [status EXCEPT ![held[i]] = verdict]
  /\ held' = [held EXCEPT ![i] = None]
  /\ left' = [left EXCEPT ![i] = @ - 1]
  /\ UNCHANGED <<answered, mishaps>>

\* The row waits no longer.
Served(r) == LeaveDue({r}) /\ passed' = {p \in passed : p[1] # r}

\* The reference is there: the row is processed and its dependents are woken.
Process(i) ==
  LET r == held[i] IN
  /\ r # None /\ r \notin Poison /\ Found(r)
  /\ \A d \in Dependents(r) : ~Locked(d)
  /\ Settle(i, "processed")
  /\ Wake(Dependents(r), {r})
  /\ passed' = Anew(Dependents(r) \cup {r})
  /\ UNCHANGED attempts

Reject(i) ==
  LET r == held[i] IN
  /\ r # None /\ ~Found(r) /\ Counted(r) >= MaxAttempts
  /\ Settle(i, "rejected")
  /\ Served(r)
  /\ UNCHANGED attempts

Reschedule(i) ==
  LET r == held[i] IN
  /\ r # None /\ ~Found(r) /\ Counted(r) < MaxAttempts
  /\ attempts' = [attempts EXCEPT ![r] = Counted(r)]
  /\ Settle(i, "parked")
  /\ Served(r)

\* Any error ends ResumeDue; the worker logs it and waits for its next tick.
\* Rolled back, the row keeps its next_attempt_at, hence its place.
Fail(i) ==
  /\ held[i] # None
  /\ \/ held[i] \in Poison /\ Found(held[i]) /\ UNCHANGED mishaps
     \/ mishaps < MaxMishaps /\ mishaps' = mishaps + 1
  /\ held' = [held EXCEPT ![i] = None]
  /\ left' = [left EXCEPT ![i] = 0]
  /\ passed' = {p \in passed : p[2] # held[i]}
  /\ UNCHANGED <<status, attempts, due, older, answered>>

Resume(i) == Process(i) \/ Reject(i) \/ Reschedule(i) \/ Fail(i)

Next ==
  \/ \E r \in Rows : Park(r) \/ Answer(r) \/ BecomeDue(r)
  \/ \E i \in Resolvers : Tick(i) \/ ClaimOne(i) \/ Resume(i)

Spec == Init /\ [][Next]_vars

\* Tickers fire, statements and transactions end, time passes.  References
\* owe nothing.
FairSpec ==
  /\ Spec
  /\ \A i \in Resolvers : WF_vars(Tick(i)) /\ WF_vars(ClaimOne(i)) /\ WF_vars(Resume(i))
  /\ \A r \in Rows : WF_vars(BecomeDue(r))

-----------------------------------------------------------------------------

\* Nobody is overtaken twice: while a due row waits, no other row is claimed
\* again, unless its first resume failed or it was woken in between (ClaimOne's
\* order by next_attempt_at, and a new one for every row that comes back).
NoSecondTurn ==
  [][\A i \in Resolvers :
       (held[i] = None /\ held'[i] # None) =>
         \A r \in Claimable \ {held'[i]} : <<r, held'[i]>> \notin passed]_vars

\* An operation that waits is processed or, after ReferenceMaxAttempts,
\* rejected, whatever happens to others ("rejects operations whose reference
\* never became available", internal/app/references).
OthersSettle ==
  \A r \in Rows \ Poison :
    status[r] = "parked" ~> status[r] \in {"processed", "rejected"}
=============================================================================
