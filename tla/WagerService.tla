----------------------------- MODULE WagerService -----------------------------
(***************************************************************************)
(* internal/app/wager/service.go over internal/adapters/postgres: servers  *)
(* running Process (an HTTP request or an SQS message) and resolvers       *)
(* running ResumeDue, each inside a READ COMMITTED transaction.            *)
(*                                                                         *)
(* One action is one SQL statement together with the Go code up to the     *)
(* next statement.  A statement reads what is committed when it runs; what *)
(* a transaction writes stays in its own variables until Commit.  Row and  *)
(* unique-key locks are derived from the program counters.                 *)
(***************************************************************************)
EXTENDS WagerTypes

CONSTANTS
  Servers,               \* concurrent executions of Process
  Resolvers,             \* concurrent executions of ResumeDue
  MaxWalletRetries,      \* Config.MaxWalletRetries
  ReferenceMaxAttempts,  \* Config.ReferenceMaxAttempts
  MaxSubmissions,        \* bound: how often each command is submitted
  MaxCrashes             \* bound: how many transactions are cut short

ASSUME ServiceAssumption ==
  /\ MaxWalletRetries \in Nat \ {0}
  /\ ReferenceMaxAttempts \in Nat \ {0}
  /\ MaxSubmissions \in Nat
  /\ MaxCrashes \in Nat
  /\ Servers \cap Resolvers = {}

VARIABLES
  wallets,      \* the wallets table: balance and version
  txs,          \* the wager_transactions table, by external identifier
  ledger,       \* the wallet_ledger_entries of each wallet, in commit order
  outbox,       \* the events inserted in outbox_events
  pc, cmd,      \* per process: next statement, the operation at hand
  snap,         \* the wallet as GetByID returned it
  tries,        \* attempts already lost to a retryable error
  out,          \* the outcome decided, and the reply once the process is idle
  woken,        \* rows WakeDependents has updated and therefore locked
  submissions, crashes

tables == <<wallets, txs, ledger, outbox>>
local  == <<cmd, snap, woken>>
vars   == <<wallets, txs, ledger, outbox, pc, cmd, snap, tries, out, woken,
            submissions, crashes>>

Processes == Servers \cup Resolvers

Labels == {"idle", "external", "key", "insert", "wallet", "reference",
           "reversal", "cross", "move", "finish", "commit"}

ErrorCodes == {"IDEMPOTENCY_CONFLICT", "WALLET_VERSION_CONFLICT",
               "MONEY_OVERFLOW", "INTERNAL", "LOST"}

Outcome ==
  [status : Statuses \cup {"NONE", "ERROR"},
   code : FailureCodes \cup ErrorCodes \cup {NoCode},
   balance : 0..MaxMinor \cup {NoBalance}, moves : BOOLEAN]

Undecided == [status |-> "NONE", code |-> NoCode, balance |-> NoBalance,
              moves |-> FALSE]
Failed(code) ==
  [status |-> "ERROR", code |-> code, balance |-> NoBalance, moves |-> FALSE]
Parked == [status |-> "PENDING_REFERENCE", code |-> NoCode,
           balance |-> NoBalance, moves |-> FALSE]
Rejected(code, balance) ==
  [status |-> "REJECTED", code |-> code, balance |-> balance, moves |-> FALSE]
Processed(balance, moves) ==
  [status |-> "PROCESSED", code |-> NoCode, balance |-> balance,
   moves |-> moves]

NoSnap == [balance |-> 0, version |-> 0]
Wallet == [balance : 0..MaxMinor, version : Nat]

\* Wallets have been opened, and nothing else has happened.
StartUp ==
  /\ wallets = [w \in Wallets |-> [balance |-> Opening[w], version |-> 1]]
  /\ txs = [e \in ExternalIds |-> AbsentRow]
  /\ ledger = [w \in Wallets |->
                 IF Opening[w] > 0 THEN <<OpeningEntry(w)>> ELSE <<>>]
  /\ outbox = {}
  /\ pc = [p \in Processes |-> "idle"]
  /\ cmd = [p \in Processes |-> NoCommand]
  /\ snap = [p \in Processes |-> NoSnap]
  /\ tries = [p \in Processes |-> 0]
  /\ out = [p \in Processes |-> Undecided]
  /\ woken = [p \in Processes |-> {}]

Init ==
  /\ StartUp
  /\ submissions = [c \in Commands |-> 0]
  /\ crashes = 0

-----------------------------------------------------------------------------
(* Locks.                                                                   *)

AfterWallet == {"reference", "reversal", "cross", "move", "finish", "commit"}

\* The transaction of q holds an uncommitted row for cmd[q].ext.
Inserted(q) == q \in Servers /\ pc[q] \in {"wallet"} \cup AfterWallet

\* The transaction of q has updated its wallet and not committed yet.
HoldsWallet(q) == pc[q] \in {"finish", "commit"} /\ out[q].moves

\* The transaction of q holds the row lock of the committed row e.
HoldsRow(q, e) ==
  \/ q \in Resolvers /\ pc[q] # "idle" /\ cmd[q].ext = e
  \/ e \in woken[q]

WalletFree(p) ==
  \A q \in Processes \ {p} : HoldsWallet(q) => cmd[q].wallet # cmd[p].wallet

RowFree(p, e) == \A q \in Processes \ {p} : ~HoldsRow(q, e)

\* A unique index makes an insert wait for an uncommitted twin: first on
\* (provider_id, external_transaction_id), then on (provider_id, key).
InsertBlocked(p) ==
  \E q \in Servers \ {p} :
    /\ Inserted(q)
    /\ \/ cmd[q].ext = cmd[p].ext
       \/ /\ cmd[q].key = cmd[p].key
          /\ txs[cmd[p].ext].status = "ABSENT"

-----------------------------------------------------------------------------
(* Ways a step of the Go code ends.                                         *)

Goto(p, label) == pc' = [pc EXCEPT ![p] = label]

Decide(p, outcome) ==
  /\ Goto(p, "finish")
  /\ out' = [out EXCEPT ![p] = outcome]
  /\ UNCHANGED <<tables, cmd, tries, woken, submissions, crashes>>

\* The transaction is over and Process or ResumeDue returns.
Return(p, outcome) ==
  /\ Goto(p, "idle")
  /\ out' = [out EXCEPT ![p] = outcome]
  /\ snap' = [snap EXCEPT ![p] = NoSnap]
  /\ tries' = [tries EXCEPT ![p] = 0]
  /\ woken' = [woken EXCEPT ![p] = {}]
  /\ cmd' = IF p \in Resolvers THEN [cmd EXCEPT ![p] = NoCommand] ELSE cmd

\* Fault: the loop runs once more than its bound.
RetryOnceMore(p) ==
  \/ /\ tries[p] <= MaxWalletRetries
     /\ tries' = [tries EXCEPT ![p] = @ + 1]
     /\ Goto(p, IF p \in Servers THEN "external" ELSE "wallet")
     /\ out' = [out EXCEPT ![p] = Undecided]
     /\ snap' = [snap EXCEPT ![p] = NoSnap]
     /\ UNCHANGED <<cmd, woken>>
  \/ /\ tries[p] > MaxWalletRetries
     /\ Return(p, Failed("WALLET_VERSION_CONFLICT"))

\* isRetryable: the attempt is rolled back and run again on fresh state.  A
\* server starts a new transaction; a resolver goes back to its savepoint,
\* still holding the claimed row.
Retry(p) ==
  \/ /\ tries[p] < MaxWalletRetries
     /\ tries' = [tries EXCEPT ![p] = @ + 1]
     /\ Goto(p, IF p \in Servers THEN "external" ELSE "wallet")
     /\ out' = [out EXCEPT ![p] = Undecided]
     /\ snap' = [snap EXCEPT ![p] = NoSnap]
     /\ UNCHANGED <<cmd, woken>>
  \/ /\ tries[p] = MaxWalletRetries
     /\ Return(p, Failed("WALLET_VERSION_CONFLICT"))

\* Fault: the payload hash is not compared.
ReplayAnyPayload(c, row) ==
  [status |-> row.status, code |-> row.code, balance |-> row.balance,
   moves |-> FALSE]

\* replay: the persisted result answers an equal payload.
Replay(c, row) ==
  IF SamePayload(c, row.cmd)
  THEN [status |-> row.status, code |-> row.code, balance |-> row.balance,
        moves |-> FALSE]
  ELSE Failed("IDEMPOTENCY_CONFLICT")

-----------------------------------------------------------------------------
(* Process and processOnce.                                                 *)

\* A client calls the API, a broker delivers a message, or either tries again.
Submit(p, c) ==
  /\ p \in Servers /\ pc[p] = "idle"
  /\ submissions[c] < MaxSubmissions
  /\ submissions' = [submissions EXCEPT ![c] = @ + 1]
  /\ cmd' = [cmd EXCEPT ![p] = c]
  /\ out' = [out EXCEPT ![p] = Undecided]
  /\ Goto(p, "external")
  /\ UNCHANGED <<tables, snap, tries, woken, crashes>>

\* GetByProviderExternal
LookupExternal(p) ==
  LET row == txs[cmd[p].ext] IN
  /\ pc[p] = "external"
  /\ \/ /\ row.status = "ABSENT"
        /\ Goto(p, "key")
        /\ UNCHANGED <<cmd, snap, tries, out, woken>>
     \/ /\ row.status # "ABSENT"
        /\ Return(p, Replay(cmd[p], row))
  /\ UNCHANGED <<tables, submissions, crashes>>

KeyHolders(key) ==
  {e \in ExternalIds : txs[e].status # "ABSENT" /\ txs[e].cmd.key = key}

\* GetByProviderIdempotencyKey, a later statement: it may see a twin that
\* committed since LookupExternal.
LookupKey(p) ==
  /\ pc[p] = "key"
  /\ \/ /\ KeyHolders(cmd[p].key) = {}
        /\ Goto(p, "insert")
        /\ UNCHANGED <<cmd, snap, tries, out, woken>>
     \/ \E e \in KeyHolders(cmd[p].key) : Return(p, Replay(cmd[p], txs[e]))
  /\ UNCHANGED <<tables, submissions, crashes>>

\* Fault: only the index on the external identifier exists.
ExternalTaken(p) == txs[cmd[p].ext].status # "ABSENT"

\* Fault: only the index on the idempotency key exists.
OnlyKeyTaken(p) == KeyHolders(cmd[p].key) # {}

KeyTaken(p) ==
  txs[cmd[p].ext].status # "ABSENT" \/ KeyHolders(cmd[p].key) # {}

\* NewExternal and transactions.Insert.  A duplicate is retried; a wallet_id
\* with no wallet breaks the foreign key before the wallet is ever read.
Insert(p) ==
  /\ pc[p] = "insert"
  /\ ~InsertBlocked(p)
  /\ \/ /\ KeyTaken(p)
        /\ Retry(p)
     \/ /\ ~KeyTaken(p) /\ cmd[p].wallet \notin Wallets
        /\ Return(p, Failed("INTERNAL"))
     \/ /\ ~KeyTaken(p) /\ cmd[p].wallet \in Wallets
        /\ Goto(p, "wallet")
        /\ UNCHANGED <<cmd, snap, tries, out, woken>>
  /\ UNCHANGED <<tables, submissions, crashes>>

-----------------------------------------------------------------------------
(* applyOperation, run by servers and resolvers alike.                      *)

\* wallets.GetByID and the dispatch on the kind.
LoadWallet(p) ==
  LET c == cmd[p]
      w == wallets[c.wallet] IN
  /\ pc[p] = "wallet"
  /\ snap' = [snap EXCEPT ![p] = w]
  /\ \/ /\ Player[c.wallet] # c.player
        /\ Decide(p, Rejected("WALLET_PLAYER_MISMATCH", w.balance))
     \/ /\ Player[c.wallet] = c.player /\ Currency[c.wallet] # c.currency
        /\ Decide(p, Rejected("CURRENCY_MISMATCH", w.balance))
     \/ /\ Player[c.wallet] = c.player /\ Currency[c.wallet] = c.currency
        /\ \/ c.kind = "LOSS" /\ Decide(p, Processed(w.balance, FALSE))
           \/ /\ c.kind # "LOSS"
              /\ Goto(p, IF c.ref = NoRef THEN "move" ELSE "reference")
              /\ UNCHANGED <<tables, cmd, tries, out, woken, submissions,
                             crashes>>

ReferencePending(row) == row.status \in {"ABSENT", "PENDING_REFERENCE"}

Expired(p) == txs[cmd[p].ext].attempts + 1 >= ReferenceMaxAttempts

\* resolveReference up to its first FindReversal, with handleReferenceError
\* and the decision of scheduleReferenceRetry.
ResolveReference(p) ==
  LET row == txs[cmd[p].ref] IN
  /\ pc[p] = "reference"
  /\ UNCHANGED snap
  /\ \/ /\ ReferencePending(row) /\ Expired(p)
        /\ Decide(p, Rejected("REFERENCE_NOT_FOUND", NoBalance))
     \/ /\ ReferencePending(row) /\ ~Expired(p)
        /\ Decide(p, Parked)
     \/ /\ ~ReferencePending(row) /\ ReferenceFault(cmd[p], row) # NoCode
        /\ Decide(p, Rejected(ReferenceFault(cmd[p], row), snap[p].balance))
     \/ /\ ~ReferencePending(row) /\ ReferenceFault(cmd[p], row) = NoCode
        /\ Goto(p, "reversal")
        /\ UNCHANGED <<tables, cmd, tries, out, woken, submissions, crashes>>

\* The committed rows FindReversal(reference, kind) may return.
Reversals(e, kind) ==
  {x \in ExternalIds : /\ txs[x].status = "PROCESSED"
                       /\ txs[x].refTx = e
                       /\ txs[x].cmd.kind = kind}

RefusedReversal(p) ==
  Decide(p, Rejected("REVERSAL_CONFLICT", snap[p].balance))

\* The first FindReversal: one of the same kind.
FindReversal(p) ==
  LET c == cmd[p] IN
  /\ pc[p] = "reversal"
  /\ UNCHANGED snap
  /\ \/ Reversals(c.ref, c.kind) # {} /\ RefusedReversal(p)
     \/ /\ Reversals(c.ref, c.kind) = {}
        /\ Goto(p, IF txs[c.ref].cmd.kind = "BET" THEN "cross" ELSE "move")
        /\ UNCHANGED <<tables, cmd, tries, out, woken, submissions, crashes>>

\* The second FindReversal: a BET takes one reversal of either kind.
FindCrossReversal(p) ==
  LET c == cmd[p] IN
  /\ pc[p] = "cross"
  /\ UNCHANGED snap
  /\ \/ Reversals(c.ref, CrossKind(c.kind)) # {} /\ RefusedReversal(p)
     \/ /\ Reversals(c.ref, CrossKind(c.kind)) = {}
        /\ Goto(p, "move")
        /\ UNCHANGED <<tables, cmd, tries, out, woken, submissions, crashes>>

Debit(c) == Debits(c.kind, IF c.ref = NoRef THEN "" ELSE txs[c.ref].cmd.kind)

\* Fault: UpdateBalance without its version predicate.
VersionUnchecked(p) == TRUE

SameVersion(p) == wallets[cmd[p].wallet].version = snap[p].version

\* move: Wallet.Debit or Wallet.Credit on the snapshot, then UpdateBalance,
\* whose version predicate waits for a concurrent writer of the wallet row.
Move(p) ==
  LET c     == cmd[p]
      debit == Debit(c)
      after == BalanceAfter(snap[p].balance, c.amount, debit) IN
  /\ pc[p] = "move"
  /\ \/ /\ debit /\ after < 0
        /\ UNCHANGED snap
        /\ Decide(p, Rejected(IF c.kind = "ROLLBACK"
                              THEN "REVERSAL_INSUFFICIENT_FUNDS"
                              ELSE "INSUFFICIENT_FUNDS", snap[p].balance))
     \/ /\ ~debit /\ after > MaxMinor
        /\ Return(p, Failed("MONEY_OVERFLOW"))
        /\ UNCHANGED <<tables, submissions, crashes>>
     \/ /\ after \in 0..MaxMinor /\ ~SameVersion(p)
        /\ Retry(p)
        /\ UNCHANGED <<tables, submissions, crashes>>
     \/ /\ after \in 0..MaxMinor /\ SameVersion(p) /\ WalletFree(p)
        /\ UNCHANGED snap
        /\ Decide(p, Processed(after, TRUE))

\* Fault: WakeDependents without its status predicate.
AllDependents(p) ==
  {e \in ExternalIds : /\ txs[e].status # "ABSENT"
                       /\ txs[e].cmd.ref = cmd[p].ext}

\* Fault: WakeDependents without its reference predicate.
AnyoneWaiting(p) ==
  {e \in ExternalIds : txs[e].status = "PENDING_REFERENCE"}

\* Rows waiting for the operation p is about to finish.
Dependents(p) ==
  {e \in ExternalIds : /\ txs[e].status = "PENDING_REFERENCE"
                       /\ txs[e].cmd.ref = cmd[p].ext}

\* The unique index on successful reversals would refuse the row.
DuplicateReversal(p) ==
  /\ out[p].moves
  /\ IsReversal(cmd[p].kind)
  /\ Reversals(cmd[p].ref, cmd[p].kind) # {}

\* transactions.Update; after a success also WakeDependents, which waits for
\* rows a resolver has claimed.
Finish(p) ==
  /\ pc[p] = "finish"
  /\ IF DuplicateReversal(p)
     THEN Retry(p)
     ELSE /\ Goto(p, "commit")
          /\ \/ out[p].status # "PROCESSED" /\ UNCHANGED woken
             \/ /\ out[p].status = "PROCESSED"
                /\ \A e \in Dependents(p) : RowFree(p, e)
                /\ woken' = [woken EXCEPT ![p] = Dependents(p)]
          /\ UNCHANGED <<cmd, snap, tries, out>>
  /\ UNCHANGED <<tables, submissions, crashes>>

-----------------------------------------------------------------------------
(* Commit, and what may happen instead.                                     *)

\* Fault: MarkProcessed is given the balance before the movement.
RowBeforeMovement(p) ==
  [cmd |-> cmd[p], status |-> out[p].status, code |-> out[p].code,
   balance |-> IF out[p].moves THEN snap[p].balance ELSE out[p].balance,
   attempts |-> IF out[p].status = "PENDING_REFERENCE"
                THEN txs[cmd[p].ext].attempts + 1
                ELSE txs[cmd[p].ext].attempts,
   due |-> FALSE,
   refTx |-> IF out[p].moves THEN cmd[p].ref ELSE NoRef]

\* Fault: ScheduleRetry does not count the attempt.
RowUncounted(p) ==
  [cmd |-> cmd[p], status |-> out[p].status, code |-> out[p].code,
   balance |-> out[p].balance, attempts |-> txs[cmd[p].ext].attempts,
   due |-> FALSE, refTx |-> IF out[p].moves THEN cmd[p].ref ELSE NoRef]

\* The row as the transaction leaves it.  A parked row has used up one more
\* attempt and is not due until its backoff ends.
FinalRow(p) ==
  LET old == txs[cmd[p].ext] IN
  [cmd |-> cmd[p], status |-> out[p].status, code |-> out[p].code,
   balance |-> out[p].balance,
   attempts |-> IF out[p].status = "PENDING_REFERENCE"
                THEN old.attempts + 1 ELSE old.attempts,
   due |-> FALSE,
   refTx |-> IF out[p].moves THEN cmd[p].ref ELSE NoRef]

MovementEntry(p) ==
  [tx |-> cmd[p].ext, debit |-> Debit(cmd[p]), amount |-> cmd[p].amount,
   before |-> snap[p].balance, after |-> out[p].balance]

\* Fault: the event carries the version before the update.
EventsOfOldVersion(p) ==
  {[type |-> out[p].status, of |-> cmd[p].ext, number |-> FinalRow(p).attempts]}
  \cup
  (IF out[p].moves
   THEN {[type |-> "BALANCE_CHANGED", of |-> cmd[p].wallet,
          number |-> snap[p].version]}
   ELSE {})

\* enqueue: WalletBalanceChanged of the wallet and the event of the outcome.
Events(p) ==
  {[type |-> out[p].status, of |-> cmd[p].ext, number |-> FinalRow(p).attempts]}
  \cup
  (IF out[p].moves
   THEN {[type |-> "BALANCE_CHANGED", of |-> cmd[p].wallet,
          number |-> snap[p].version + 1]}
   ELSE {})

\* next_attempt_at has come: WakeDependents sets it to the present.
MadeDue(row) ==
  [cmd |-> row.cmd, status |-> row.status, code |-> row.code,
   balance |-> row.balance, attempts |-> row.attempts, due |-> TRUE,
   refTx |-> row.refTx]

\* The writes of the transaction become visible together.
Write(p) ==
  LET c == cmd[p] IN
  /\ txs' = [e \in ExternalIds |->
               IF e = c.ext THEN FinalRow(p)
               ELSE IF e \in woken[p] THEN MadeDue(txs[e])
               ELSE txs[e]]
  /\ outbox' = outbox \cup Events(p)
  /\ IF out[p].moves
     THEN /\ wallets' = [wallets EXCEPT
                           ![c.wallet] = [balance |-> out[p].balance,
                                          version |-> @.version + 1]]
          /\ ledger' = [ledger EXCEPT ![c.wallet] = Append(@, MovementEntry(p))]
     ELSE UNCHANGED <<wallets, ledger>>

Commit(p) ==
  /\ pc[p] = "commit"
  /\ Write(p)
  /\ Return(p, IF p \in Servers THEN out[p] ELSE Undecided)
  /\ UNCHANGED <<submissions, crashes>>

Crash == crashes < MaxCrashes /\ crashes' = crashes + 1

\* The process dies or loses its connection: the transaction is rolled back.
Abort(p) ==
  /\ pc[p] # "idle"
  /\ Crash
  /\ Return(p, Failed("LOST"))
  /\ UNCHANGED <<tables, submissions>>

\* The same, after the server has committed and before the reply is sent.
CommitUnacknowledged(p) ==
  /\ pc[p] = "commit"
  /\ Crash
  /\ Write(p)
  /\ Return(p, Failed("LOST"))
  /\ UNCHANGED submissions

-----------------------------------------------------------------------------
(* ResumeDue.                                                               *)

\* The backoff of a parked row ends.
BecomeDue(e) ==
  /\ txs[e].status = "PENDING_REFERENCE" /\ ~txs[e].due
  /\ txs' = [txs EXCEPT ![e] = MadeDue(@)]
  /\ UNCHANGED <<wallets, ledger, outbox, pc, local, tries, out, submissions,
                 crashes>>

\* ClaimOne: FOR UPDATE SKIP LOCKED takes a due row nobody holds.  Which due
\* row is the oldest is not kept; any of them may be.
Claim(r, e) ==
  /\ r \in Resolvers /\ pc[r] = "idle"
  /\ txs[e].status = "PENDING_REFERENCE" /\ txs[e].due
  /\ RowFree(r, e)
  /\ cmd' = [cmd EXCEPT ![r] = txs[e].cmd]
  /\ Goto(r, "wallet")
  /\ UNCHANGED <<tables, snap, tries, out, woken, submissions, crashes>>

-----------------------------------------------------------------------------

Statement(p) ==
  \/ LookupExternal(p) \/ LookupKey(p) \/ Insert(p) \/ LoadWallet(p)
  \/ ResolveReference(p) \/ FindReversal(p) \/ FindCrossReversal(p)
  \/ Move(p) \/ Finish(p) \/ Commit(p)

Next ==
  \/ \E p \in Servers, c \in Commands : Submit(p, c)
  \/ \E p \in Processes : Statement(p)
  \/ \E p \in Processes : Abort(p) \/ CommitUnacknowledged(p)
  \/ \E e \in ExternalIds : BecomeDue(e)
  \/ \E r \in Resolvers, e \in ExternalIds : Claim(r, e)

Spec == Init /\ [][Next]_vars

\* Every transaction runs on, waits end with the transaction waited for, the
\* backoff of a parked row ends and the resolver loop polls for ever.  Nothing
\* makes a client submit, and crashes are bounded by MaxCrashes.
Fairness ==
  /\ \A p \in Processes : WF_vars(Statement(p))
  /\ \A e \in ExternalIds : WF_vars(BecomeDue(e))
  /\ \A r \in Resolvers : WF_vars(\E e \in ExternalIds : Claim(r, e))

FairSpec == Spec /\ Fairness

-----------------------------------------------------------------------------
(* Invariants.                                                              *)

\* Type invariant.  Every balance that is stored, ledgered or reported stays
\* between zero and MaxMinor.
TypeOK ==
  /\ wallets \in [Wallets -> Wallet]
  /\ txs \in [ExternalIds -> Row]
  /\ ledger \in [Wallets -> Seq(Entry)]
  /\ pc \in [Processes -> Labels]
  /\ cmd \in [Processes -> Commands \cup {NoCommand}]
  /\ snap \in [Processes -> [balance : 0..MaxMinor, version : Nat]]
  /\ tries \in [Processes -> 0..MaxWalletRetries]
  /\ out \in [Processes -> Outcome]
  /\ woken \in [Processes -> SUBSET ExternalIds]

Rows(S) == {e \in ExternalIds : txs[e].status \in S}

\* The ledger of a wallet is a chain from zero to the stored balance, and the
\* version counts its movements: no update is lost and none is invented,
\* whatever two transactions read before either wrote (UpdateBalance).
LedgerChain ==
  \A w \in Wallets :
    LET entries == ledger[w]
        opened  == IF Opening[w] > 0 THEN 1 ELSE 0 IN
    /\ \A i \in 1..Len(entries) :
         /\ entries[i].before = IF i = 1 THEN 0 ELSE entries[i - 1].after
         /\ entries[i].after = BalanceAfter(entries[i].before,
                                            entries[i].amount, entries[i].debit)
    /\ wallets[w].balance = IF entries = <<>> THEN 0
                            ELSE entries[Len(entries)].after
    /\ wallets[w].version = 1 + Len(entries) - opened

Movements(e) ==
  {m \in UNION {{w} \X (1..Len(ledger[w])) : w \in Wallets} :
     ledger[m[1]][m[2]].tx = e}

\* An operation moves its wallet exactly once when it is processed and never
\* otherwise, however often it was submitted, retried, cut short or resumed.
ExactlyOnce ==
  \A e \in ExternalIds :
    IF txs[e].status = "PROCESSED" /\ txs[e].cmd.kind # "LOSS"
    THEN \E m \in Movements(e) :
           /\ Movements(e) = {m}
           /\ m[1] = txs[e].cmd.wallet
           /\ ledger[m[1]][m[2]].amount = txs[e].cmd.amount
           /\ ledger[m[1]][m[2]].after = txs[e].balance
    ELSE Movements(e) = {}

\* The processed operations that undo the effect of e.
UndoneBy(e) ==
  {x \in Rows({"PROCESSED"}) : IsReversal(txs[x].cmd.kind) /\ txs[x].cmd.ref = e}

\* A stake comes back at most once, by REFUND or by ROLLBACK, although no
\* unique index covers the two kinds together (resolveReference); and every
\* reversal undoes a processed operation of the same wallet and amount.
SingleReversal ==
  \A e \in ExternalIds :
    \A x \in UndoneBy(e) :
      /\ UndoneBy(e) = {x}
      /\ txs[e].status = "PROCESSED"
      /\ txs[e].cmd.wallet = txs[x].cmd.wallet
      /\ txs[e].cmd.amount = txs[x].cmd.amount

\* A final answer given to a client is the persisted result of its operation,
\* and only a command with the persisted payload gets one (replay).
RepliesPersisted ==
  \A p \in Servers :
    (pc[p] = "idle" /\ out[p].status \in Terminal) =>
      LET row == txs[cmd[p].ext] IN
      /\ SamePayload(cmd[p], row.cmd)
      /\ row.status = out[p].status
      /\ row.code = out[p].code
      /\ row.balance = out[p].balance

\* Two operations never share an idempotency key.
KeysUnique ==
  \A d, e \in ExternalIds :
    (/\ txs[d].status # "ABSENT" /\ txs[e].status # "ABSENT"
     /\ txs[d].cmd.key = txs[e].cmd.key) => d = e

\* The outbox holds the event of every version and outcome that the tables
\* show, and of nothing that was rolled back.
OutboxMatchesTables ==
  outbox =
    {[type |-> "BALANCE_CHANGED", of |-> x[1], number |-> x[2]] :
       x \in UNION {{w} \X (2..wallets[w].version) : w \in Wallets}}
    \cup {[type |-> txs[e].status, of |-> e, number |-> txs[e].attempts] :
            e \in Rows(Terminal)}
    \cup {[type |-> "PENDING_REFERENCE", of |-> x[1], number |-> x[2]] :
            x \in UNION {{e} \X (1..txs[e].attempts) : e \in ExternalIds}}

\* p waits for a lock.  Only a success wakes rows, so only it waits for them.
Waiting(p) ==
  \/ pc[p] = "insert" /\ InsertBlocked(p)
  \/ pc[p] = "move" /\ ~WalletFree(p)
  \/ /\ pc[p] = "finish" /\ out[p].status = "PROCESSED"
     /\ \E e \in Dependents(p) : ~RowFree(p, e)

\* Inserts, wallet updates, claims and wake-ups lock rows in different orders,
\* and still some transaction in progress is never waiting.
SomeoneRuns ==
  (\E p \in Processes : pc[p] # "idle") =>
  \E p \in Processes : pc[p] # "idle" /\ ~Waiting(p)

-----------------------------------------------------------------------------
(* Action properties and liveness.                                          *)

\* A terminal row is never written again and no row changes its operation, by
\* a retry, by a late resolver or by a wake-up.
TerminalIsFinal ==
  [][\A e \in ExternalIds :
       /\ txs[e].status # "ABSENT" => txs'[e].cmd = txs[e].cmd
       /\ txs[e].status \in Terminal => txs'[e] = txs[e]]_txs

\* The service keeps every promise of WagerLedger: each commit is one atomic
\* acceptance, wait, rejection or justified settlement, all else is invisible.
Promise == INSTANCE WagerLedger WITH
  balance  <- [w \in Wallets |-> wallets[w].balance],
  accepted <- [e \in ExternalIds |-> txs[e].cmd],
  state    <- [e \in ExternalIds |-> txs[e].status]

KeepsPromise == Promise!Spec

\* A parked operation is settled: its reference arrives or it expires.
ParkedSettles ==
  \A e \in ExternalIds :
    txs[e].status = "PENDING_REFERENCE" ~> txs[e].status \in Terminal

\* A submitted command is answered.
Answered == \A p \in Servers : pc[p] # "idle" ~> pc[p] = "idle"
=============================================================================
