----------------------------- MODULE WalletAccounts -----------------------------
(***************************************************************************)
(* internal/app/wallets/service.go: concurrent openings of wallets, and     *)
(* reconciliations beside the movements that WagerService commits.          *)
(*                                                                         *)
(* An owner is a player and a currency.  An opening transaction is one      *)
(* look-up, one insert that may wait or fail, and inserts that nobody       *)
(* contends for and that appear with the commit.                            *)
(***************************************************************************)
EXTENDS Integers, Sequences

CONSTANTS
  Owners,
  Requests,     \* clients that open a wallet, each with one command
  Owner,        \* [Requests -> Owners]
  Initial,      \* [Requests -> Nat], InitialBalance
  Amounts,      \* signed amounts of the movements made later
  MaxMinor,     \* the largest int64
  MaxMovements, \* bound: movements per wallet
  MaxCrashes,   \* bound: transactions cut short or replies lost
  NoOne

VARIABLES
  wallets,  \* [Owners -> the wallet's row, with the request that opened it]
  ledger,   \* [Owners -> signed amounts; the first is OPENING's, if any]
  outbox,   \* WalletBalanceChanged events: owner and walletVersion
  pc,       \* per request: next statement
  reply,    \* per request: the last answer
  audit,    \* the last Reconcile: "none", "consistent", "divergent", "error"
  crashes

vars == <<wallets, ledger, outbox, pc, reply, audit, crashes>>

NoWallet == [by |-> NoOne, balance |-> 0, version |-> 0]

Init ==
  /\ wallets = [o \in Owners |-> NoWallet]
  /\ ledger = [o \in Owners |-> <<>>]
  /\ outbox = {}
  /\ pc = [r \in Requests |-> "idle"]
  /\ reply = [r \in Requests |-> "none"]
  /\ audit = "none"
  /\ crashes = 0

Exists(o) == wallets[o] # NoWallet

-----------------------------------------------------------------------------
(* Open.                                                                    *)

Answer(r, answer) ==
  /\ pc' = [pc EXCEPT ![r] = "idle"]
  /\ reply' = [reply EXCEPT ![r] = answer]

Goto(r, label) == pc' = [pc EXCEPT ![r] = label] /\ UNCHANGED reply

Crash == crashes < MaxCrashes /\ crashes' = crashes + 1

\* A client sends its command, or sends it again after a lost reply.
Submit(r) ==
  /\ pc[r] = "idle" /\ reply[r] \in {"none", "lost"}
  /\ Goto(r, "lookup")
  /\ UNCHANGED <<wallets, ledger, outbox, audit, crashes>>

\* GetByPlayerAndCurrency
Lookup(r) ==
  /\ pc[r] = "lookup"
  /\ IF Exists(Owner[r]) THEN Answer(r, "exists") ELSE Goto(r, "create")
  /\ UNCHANGED <<wallets, ledger, outbox, audit, crashes>>

\* The unique index makes the insert wait for an uncommitted twin.
Blocked(r) ==
  \E q \in Requests \ {r} : pc[q] = "commit" /\ Owner[q] = Owner[r]

\* Fault: the index is not unique.
NeverDuplicate(r) == FALSE

Duplicate(r) == Exists(Owner[r])

\* wallets.Create
Create(r) ==
  /\ pc[r] = "create"
  /\ ~Blocked(r)
  /\ IF Duplicate(r) THEN Answer(r, "exists") ELSE Goto(r, "commit")
  /\ UNCHANGED <<wallets, ledger, outbox, audit, crashes>>

\* walletVersion of the opening's event.
EventVersion(r) == 1

\* The wallet and, for a positive balance, the OPENING transaction with its
\* ledger entry and event.
Write(r) ==
  LET o == Owner[r] IN
  /\ wallets' = [wallets EXCEPT
                   ![o] = [by |-> r, balance |-> Initial[r], version |-> 1]]
  /\ IF Initial[r] > 0
     THEN /\ ledger' = [ledger EXCEPT ![o] = <<Initial[r]>>]
          /\ outbox' = outbox \cup {<<o, EventVersion(r)>>}
     ELSE UNCHANGED <<ledger, outbox>>

Commit(r) ==
  /\ pc[r] = "commit"
  /\ Write(r)
  /\ \/ Answer(r, "opened") /\ UNCHANGED crashes
     \/ Answer(r, "lost") /\ Crash
  /\ UNCHANGED audit

\* The process dies, or a statement fails: the transaction is rolled back.
Abort(r) ==
  /\ pc[r] # "idle"
  /\ Crash
  /\ Answer(r, "lost")
  /\ UNCHANGED <<wallets, ledger, outbox, audit>>

-----------------------------------------------------------------------------
(* What WagerService commits, and Reconcile.                                *)

\* Debit and Credit refuse any other movement.
Fits(o, amount) == wallets[o].balance + amount \in 0..MaxMinor

Move(o, amount) ==
  /\ Exists(o)
  /\ wallets[o].version <= MaxMovements
  /\ Fits(o, amount)
  /\ wallets' = [wallets EXCEPT ![o].balance = @ + amount, ![o].version = @ + 1]
  /\ ledger' = [ledger EXCEPT ![o] = Append(@, amount)]
  /\ outbox' = outbox \cup {<<o, wallets[o].version + 1>>}
  /\ UNCHANGED <<pc, reply, audit, crashes>>

\* Fault: the statement leaves the OPENING entry out.
MovementsOnly(o) == IF ledger[o] = <<>> THEN <<>> ELSE Tail(ledger[o])

\* The entries TotalsByWallet adds up, in one statement with the balance.
Counted(o) == ledger[o]

\* SUM, and 0 for no rows.
Sum(amounts) ==
  LET upTo[n \in 0..Len(amounts)] ==
        IF n = 0 THEN 0 ELSE upTo[n - 1] + amounts[n]
  IN  upTo[Len(amounts)]

\* CASE WHEN direction = 'CREDIT', 'DEBIT' THEN amount_minor ELSE 0.
Credit(amount) == IF amount > 0 THEN amount ELSE 0
Debit(amount)  == IF amount < 0 THEN -amount ELSE 0

Credits(entries) == Sum([n \in 1..Len(entries) |-> Credit(entries[n])])
Debits(entries)  == Sum([n \in 1..Len(entries) |-> Debit(entries[n])])

\* Each total is a numeric of any size that has to fit an int64.
Reconcile(o) ==
  LET credits == Credits(Counted(o))
      debits  == Debits(Counted(o)) IN
  /\ Exists(o)
  /\ audit' = IF credits > MaxMinor \/ debits > MaxMinor THEN "error"
              ELSE IF wallets[o].balance = credits - debits THEN "consistent"
              ELSE "divergent"
  /\ UNCHANGED <<wallets, ledger, outbox, pc, reply, crashes>>

-----------------------------------------------------------------------------

Statement(r) == Lookup(r) \/ Create(r) \/ Commit(r)

Next ==
  \/ \E r \in Requests : Submit(r) \/ Statement(r) \/ Abort(r)
  \/ \E o \in Owners : Reconcile(o) \/ \E amount \in Amounts : Move(o, amount)

Spec == Init /\ [][Next]_vars

-----------------------------------------------------------------------------
(* Properties.                                                              *)

\* A reconciliation beside openings and movements never reports a divergence
\* for a wallet that has none (Reconcile, TotalsByWallet).
NoFalseAlarm == audit # "divergent"

\* However many openings race, retry and die: one client is told that it
\* opened the wallet, and it is its balance the ledger starts from; the others
\* are told that the wallet exists, and it does.  Every balance from then on is
\* announced once, that of the opening if it brought money (Open, Create).
OpenedOnce ==
  /\ \A r \in Requests :
       LET o == Owner[r] IN
       /\ reply[r] = "opened" =>
            /\ wallets[o].by = r
            /\ Initial[r] > 0 => ledger[o] # <<>> /\ ledger[o][1] = Initial[r]
       /\ reply[r] = "exists" => Exists(o)
  /\ outbox = UNION {
       {o} \X (IF ~Exists(o) THEN {}
               ELSE (2..wallets[o].version)
                    \cup (IF Initial[wallets[o].by] > 0 THEN {1} ELSE {}))
       : o \in Owners}
=============================================================================
