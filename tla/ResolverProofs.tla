---------------------------- MODULE ResolverProofs ----------------------------
(***************************************************************************)
(* The queue of parked operations for any number of rows, resolvers,        *)
(* attempts and mishaps: nobody is overtaken twice.                         *)
(***************************************************************************)
EXTENDS ResolverQueue, TLAPS

\* Only rows that still wait are remembered, and only due rows are ordered.
QueueTypes ==
  /\ older \subseteq due \X due
  /\ passed \subseteq due \X Rows
  /\ held \in [Resolvers -> Rows \cup {None}]
  /\ due \subseteq Rows

\* Whoever went before a waiting row is being resumed, is not due, or is due
\* behind it.
Behind ==
  \A r, q \in Rows : <<r, q>> \in passed =>
    Locked(q) \/ q \notin due \/ <<r, q>> \in older

QueueInv == QueueTypes /\ Behind

LEMMA InitQueue == Init => QueueInv
BY DEF Init, QueueInv, QueueTypes, Behind

\* Rows that leave the due rows, or go to their end, are forgotten.
LEMMA WakeBehind ==
  ASSUME QueueInv, NEW S \in SUBSET Rows, NEW gone \in SUBSET Rows,
         Wake(S, gone), passed' = Anew(S \cup gone),
         held' \in [Resolvers -> Rows \cup {None}],
         \A q \in Rows \ gone : Locked(q) => Locked(q)'
  PROVE  QueueInv'
<1> DEFINE rest == due \ (S \cup gone)
<1>1. PICK later \in Since(rest) :
        /\ due' = rest \cup S
        /\ older' = Among(rest) \cup ((rest \ later) \X S) \cup (S \X later)
  BY DEF Wake
<1>2. later \subseteq rest
  BY DEF Since
<1>3. QueueTypes'
  BY <1>1, <1>2 DEF QueueInv, QueueTypes, Among, Anew
<1>4. ASSUME NEW r \in Rows, NEW q \in Rows, <<r, q>> \in passed'
      PROVE  Locked(q)' \/ q \notin due' \/ <<r, q>> \in older'
  <2>1. <<r, q>> \in passed /\ r \notin S \cup gone /\ q \notin S \cup gone
    BY <1>4 DEF Anew
  <2>2. Locked(q) \/ q \notin due \/ <<r, q>> \in older
    BY <2>1 DEF QueueInv, Behind
  <2>3. <<r, q>> \in older => <<r, q>> \in Among(rest)
    BY <2>1 DEF QueueInv, QueueTypes, Among
  <2> QED BY <1>1, <2>1, <2>2, <2>3
<1> QED BY <1>3, <1>4 DEF QueueInv, Behind

\* A row that was resumed without success, or rejected, is not due.
LEMMA ServeBehind ==
  ASSUME QueueInv, NEW i \in Resolvers, NEW r \in Rows, Served(r), held[i] = r,
         held' = [held EXCEPT ![i] = None]
  PROVE  QueueInv'
<1>1. /\ due' = due \ {r} /\ older' = older \cap ((due \ {r}) \X (due \ {r}))
      /\ passed' = {p \in passed : p[1] # r}
  BY DEF Served, LeaveDue, Among
<1>2. QueueTypes'
  BY <1>1 DEF QueueInv, QueueTypes
<1>3. \A q \in Rows \ {r} : Locked(q) => Locked(q)'
  BY DEF Locked, QueueInv, QueueTypes
<1>4. Behind'
  BY <1>1, <1>3 DEF QueueInv, QueueTypes, Behind
<1> QED BY <1>2, <1>4 DEF QueueInv

\* Rows that arrive, or become due behind all the others.
LEMMA ArriveBehind ==
  ASSUME QueueInv, NEW r \in Rows, Park(r) \/ Answer(r) \/ BecomeDue(r)
  PROVE  QueueInv'
<1>1. held' = held /\ \A q \in Rows : Locked(q)' <=> Locked(q)
  BY DEF Park, Answer, BecomeDue, Locked
<1>2. CASE UNCHANGED <<due, older, passed>>
  BY <1>1, <1>2 DEF QueueInv, QueueTypes, Behind
<1>3. CASE Wake({r}, {}) /\ passed' = Anew({r})
  <2>1. passed' = Anew({r} \cup {}) /\ held' \in [Resolvers -> Rows \cup {None}]
    BY <1>1, <1>3 DEF QueueInv, QueueTypes
  <2> QED BY <1>1, <1>3, <2>1, WakeBehind
<1>4. CASE BecomeDue(r)
  <2>1. /\ due' = due \cup {r} /\ older' = older \cup (due \X {r})
        /\ passed' = passed /\ r \notin due
    BY <1>4 DEF BecomeDue
  <2>2. QueueTypes'
    BY <1>1, <2>1 DEF QueueInv, QueueTypes
  <2>3. Behind'
    BY <1>1, <2>1 DEF QueueInv, QueueTypes, Behind
  <2> QED BY <2>2, <2>3 DEF QueueInv
<1> QED BY <1>2, <1>3, <1>4 DEF Park, Answer

\* The row a resolver claims is being resumed, so it may have gone before any.
LEMMA ClaimBehind ==
  ASSUME QueueInv, NEW i \in Resolvers, ClaimOne(i)
  PROVE  QueueInv'
<1>1. UNCHANGED <<due, older>>
  BY DEF ClaimOne
<1>2. CASE UNCHANGED <<held, passed>>
  BY <1>1, <1>2 DEF QueueInv, QueueTypes, Behind, Locked
<1>3. ASSUME NEW r \in FirstOf(Claimable), held[i] = None,
             held' = [held EXCEPT ![i] = r],
             passed' = passed \cup ((Claimable \ {r}) \X {r})
      PROVE  QueueInv'
  <2>1. r \in Rows /\ Claimable \subseteq due
    BY DEF FirstOf, Claimable, QueueInv, QueueTypes
  <2>2. QueueTypes'
    BY <1>1, <1>3, <2>1 DEF QueueInv, QueueTypes
  <2>3. Locked(r)' /\ \A q \in Rows : Locked(q) => Locked(q)'
    BY <1>3, <2>1, ResolverAssumption DEF Locked, QueueInv, QueueTypes
  <2>4. Behind'
    BY <1>1, <1>3, <2>3 DEF QueueInv, Behind
  <2> QED BY <2>2, <2>4 DEF QueueInv
<1> QED BY <1>2, <1>3 DEF ClaimOne

\* The four ends of a resume.
LEMMA ResumeBehind ==
  ASSUME QueueInv, NEW i \in Resolvers, Resume(i)
  PROVE  QueueInv'
<1> DEFINE r == held[i]
<1>1. r \in Rows /\ held' = [held EXCEPT ![i] = None]
  BY DEF Resume, Process, Reject, Reschedule, Fail, Settle, QueueInv, QueueTypes
<1>2. held' \in [Resolvers -> Rows \cup {None}]
      /\ \A q \in Rows \ {r} : Locked(q) => Locked(q)'
  BY <1>1 DEF Locked, QueueInv, QueueTypes
<1>3. CASE Process(i)
  <2>1. Wake(Dependents(r), {r}) /\ passed' = Anew(Dependents(r) \cup {r})
    BY <1>3 DEF Process
  <2>2. Dependents(r) \in SUBSET Rows
    BY DEF Dependents
  <2> HIDE DEF r
  <2> QED BY <1>1, <1>2, <2>1, <2>2, WakeBehind
<1>4. CASE Reject(i) \/ Reschedule(i)
  <2>1. Served(r)
    BY <1>4 DEF Reject, Reschedule
  <2> QED BY <1>1, <2>1, ServeBehind
<1>5. CASE Fail(i)
  <2>1. UNCHANGED <<due, older>> /\ passed' = {p \in passed : p[2] # r}
    BY <1>5 DEF Fail
  <2>2. QueueTypes'
    BY <1>2, <2>1 DEF QueueInv, QueueTypes
  <2>3. Behind'
    BY <1>2, <2>1 DEF QueueInv, Behind
  <2> QED BY <2>2, <2>3 DEF QueueInv
<1> QED BY <1>3, <1>4, <1>5 DEF Resume

LEMMA NextQueue == QueueInv /\ [Next]_vars => QueueInv'
<1> SUFFICES ASSUME QueueInv, [Next]_vars PROVE QueueInv'
  OBVIOUS
<1>1. ASSUME UNCHANGED <<due, older, passed, held>> PROVE QueueInv'
  BY <1>1 DEF QueueInv, QueueTypes, Behind, Locked
<1>2. ASSUME NEW i \in Resolvers, Tick(i) PROVE QueueInv'
  BY <1>1, <1>2 DEF Tick, rows
<1>3. CASE UNCHANGED vars
  BY <1>1, <1>3 DEF vars
<1> QED BY <1>2, <1>3, ArriveBehind, ClaimBehind, ResumeBehind DEF Next

\* Only ClaimOne takes a row, and it takes the oldest.
LEMMA OldestClaimed ==
  ASSUME QueueInv, [Next]_vars, NEW i \in Resolvers, held[i] = None, held'[i] # None,
         NEW r \in Claimable \ {held'[i]}
  PROVE  <<r, held'[i]>> \notin passed
<1> DEFINE q == held'[i]
<1>1. PICK j \in Resolvers : ClaimOne(j)
  <2>1. held' # held
    OBVIOUS
  <2>2. ASSUME NEW j \in Resolvers, Resume(j) PROVE held' = [held EXCEPT ![j] = None]
    BY <2>2 DEF Resume, Process, Reject, Reschedule, Fail, Settle
  <2>3. ASSUME NEW j \in Resolvers, Resume(j) PROVE held'[i] = None
    BY <2>2, <2>3 DEF QueueInv, QueueTypes
  <2> QED BY <2>1, <2>3 DEF Next, vars, Park, Answer, BecomeDue, Tick
<1>2. q \in FirstOf(Claimable)
  BY <1>1 DEF ClaimOne, QueueInv, QueueTypes
<1>3. q \in due /\ ~Locked(q) /\ <<r, q>> \notin older /\ r \in Rows /\ q \in Rows
  BY <1>2 DEF FirstOf, Claimable, QueueInv, QueueTypes
<1> QED BY <1>3 DEF QueueInv, Behind

\* For any number of rows, resolvers, retries and failed resumes: while a due
\* row waits, no other is claimed twice (ClaimOne's ORDER BY with the new
\* next_attempt_at of every row that comes back).
THEOREM NobodyIsOvertakenTwice == Spec => NoSecondTurn
<1>1. QueueInv /\ [Next]_vars =>
        [\A i \in Resolvers :
           (held[i] = None /\ held'[i] # None) =>
             \A r \in Claimable \ {held'[i]} : <<r, held'[i]>> \notin passed]_vars
  BY OldestClaimed
<1> QED BY <1>1, InitQueue, NextQueue, PTL DEF Spec, NoSecondTurn
=============================================================================
