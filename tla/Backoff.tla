-------------------------------- MODULE Backoff --------------------------------
(***************************************************************************)
(* The delays between attempts: referenceBackoff of internal/app/wager and  *)
(* backoff of internal/app/outbox, from the settings internal/config lets   *)
(* through to next_attempt_at.  Both loops double an int64 of nanoseconds   *)
(* and compare afterwards; an iteration is a step here.                     *)
(***************************************************************************)
EXTENDS Words

CONSTANTS
  Settings,     \* durations an operator may configure
  DefaultBase,  \* NewPublisher: 2 seconds
  DefaultCap,   \* NewPublisher: 5 minutes
  MaxAttempt    \* bound: attempts of one row

ASSUME BackoffAssumption ==
  /\ Half \in Nat \ {0}
  /\ Settings \subseteq Int64
  /\ DefaultBase \in 1..(Half - 1)
  /\ DefaultCap \in 1..(Half - 1)
  /\ MaxAttempt \in Nat \ {0}

VARIABLES
  user,       \* whose loop it is
  base, cap,  \* the configuration in force
  attempt,    \* the row's attempts, as stored
  i, backoff, \* the local variables of the loop
  pc          \* "new", "claimed", "loop" or "scheduled"

loop == <<user, base, cap, attempt, i, backoff, pc>>

\* NewPublisher replaces a duration that is not positive; wager.NewService
\* takes what validate lets through, and validate looks at no duration.
OrDefault(setting, default) == IF setting <= 0 THEN default ELSE setting

BackoffInit ==
  /\ user = "none" /\ pc = "new"
  /\ base = 0 /\ cap = 0 /\ attempt = 0 /\ i = 0 /\ backoff = 0

\* Load and the two constructors.
Configure ==
  /\ pc = "new" /\ pc' = "claimed"
  /\ user' \in {"references", "outbox"}
  /\ \E b, c \in Settings :
       /\ base' = IF user' = "outbox" THEN OrDefault(b, DefaultBase) ELSE b
       /\ cap'  = IF user' = "outbox" THEN OrDefault(c, DefaultCap) ELSE c
  /\ UNCHANGED <<attempt, i, backoff>>

\* The attempt failed or found no reference: attempts + 1 is passed on.
Fail ==
  /\ pc = "claimed" /\ attempt < MaxAttempt
  /\ attempt' = attempt + 1
  /\ i' = 1
  /\ backoff' = base
  /\ pc' = "loop"
  /\ UNCHANGED <<user, base, cap>>

\* Fault: one doubling too many.
MoreOften == i <= attempt

MoreToDouble == i < attempt

\* The comparison inside the loop.
Enough == Wrap(2 * backoff) >= cap

Double ==
  /\ pc = "loop" /\ MoreToDouble
  /\ \/ Enough /\ backoff' = cap /\ pc' = "scheduled"
     \/ ~Enough /\ backoff' = Wrap(2 * backoff) /\ pc' = "loop"
  /\ i' = i + 1
  /\ UNCHANGED <<user, base, cap, attempt>>

Leave ==
  /\ pc = "loop" /\ ~MoreToDouble
  /\ backoff' = IF backoff > cap THEN cap ELSE backoff
  /\ pc' = "scheduled"
  /\ UNCHANGED <<user, base, cap, attempt, i>>

\* next_attempt_at has passed and the row is claimed again.
ClaimAgain ==
  /\ pc = "scheduled"
  /\ pc' = "claimed"
  /\ UNCHANGED <<user, base, cap, attempt, i, backoff>>

BackoffNext == Configure \/ Fail \/ Double \/ Leave \/ ClaimAgain

BackoffSpec == BackoffInit /\ [][BackoffNext]_loop

-----------------------------------------------------------------------------

\* Settings whose doubles fit: up to 2^62 nanoseconds, 146 years.
Fits == 2 * base < Half /\ 2 * cap <= Half

Documented ==
  LET exact == base * 2^(attempt - 1) IN IF exact > cap THEN cap ELSE exact

\* The delay is base * 2^(attempt-1), capped (ARCHITECTURE.en.md, section 8),
\* whenever the settings fit and the base is not negative.
DelayExact ==
  (pc = "scheduled" /\ Fits /\ base >= 0) => backoff = Documented

\* The outbox never schedules an event into the past, at once, or later than
\* the cap, whatever was configured within the range that fits.
OutboxWaits ==
  (pc = "scheduled" /\ Fits /\ user = "outbox") => backoff \in 1..cap

\* Both, for every attempt of every row.
DelaysRight == DelayExact /\ OutboxWaits
=============================================================================
