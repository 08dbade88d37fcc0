------------------------------ MODULE WagerTypes ------------------------------
(***************************************************************************)
(* The data every wager module speaks about: wallets, commands, rows of    *)
(* wager_transactions and the rules of internal/app/wager/service.go that  *)
(* are pure functions of a command and of the row it references.           *)
(*                                                                         *)
(* One provider is modelled: providers never share a row, a key or a       *)
(* reference, so (provider_id, external_transaction_id) is just the        *)
(* external identifier here.                                               *)
(***************************************************************************)
EXTENDS Integers, Sequences, FiniteSets

CONSTANTS
  Wallets,      \* wallets that exist (rows of the wallets table)
  WalletIds,    \* wallet identifiers a command may name, known or not
  Players, Currencies, Rounds,
  ExternalIds,  \* external transaction identifiers
  Keys,         \* idempotency keys
  Commands,     \* the commands clients may submit
  Player,       \* [Wallets -> Players], the owner of each wallet
  Currency,     \* [Wallets -> Currencies]
  Opening,      \* [Wallets -> Nat], the initial balances
  MaxMinor,     \* the largest amount of minor units (math.MaxInt64)
  NoRef,        \* the command names no reference
  NoCommand     \* no command: an idle process, an absent row

ExternalKinds == {"BET", "WIN", "LOSS", "REFUND", "ROLLBACK"}

CommandType ==
  [ext : ExternalIds, key : Keys, kind : ExternalKinds, wallet : WalletIds,
   player : Players, currency : Currencies, round : Rounds,
   amount : 0..MaxMinor, ref : ExternalIds \cup {NoRef}]

\* IsReversal in the code: the kinds that undo a referenced operation.
IsReversal(kind) == kind \in {"REFUND", "ROLLBACK"}

\* What ProcessCommand.Validate and NewExternal let through.
ValidCommand(c) ==
  /\ (c.kind = "LOSS") <=> (c.amount = 0)
  /\ IsReversal(c.kind) => c.ref # NoRef
  /\ c.kind \in {"BET", "LOSS"} => c.ref = NoRef

\* The transaction an opening balance is booked under: the schema gives such a
\* row no external identifier (wager_tx_origin_fields).
OpeningTx == "OPENING"

ASSUME WalletsAssumption ==
  /\ MaxMinor \in Nat
  /\ Wallets \subseteq WalletIds
  /\ Player \in [Wallets -> Players]
  /\ Currency \in [Wallets -> Currencies]
  /\ Opening \in [Wallets -> 0..MaxMinor]
  /\ NoRef \notin ExternalIds
  /\ OpeningTx \notin ExternalIds

ASSUME CommandsAssumption ==
  /\ Commands \subseteq CommandType
  /\ \A c \in Commands : ValidCommand(c)
  /\ NoCommand \notin Commands

-----------------------------------------------------------------------------
(* Rows of wager_transactions.  An identifier nobody has used is "ABSENT".  *)
(* "PENDING" exists only inside the transaction that inserts the row, so a  *)
(* committed row never has it and the tables below do not need it.          *)

Statuses == {"PENDING_REFERENCE", "PROCESSED", "REJECTED"}
Terminal == {"PROCESSED", "REJECTED"}

FailureCodes ==
  {"WALLET_PLAYER_MISMATCH", "CURRENCY_MISMATCH", "INSUFFICIENT_FUNDS",
   "REVERSAL_INSUFFICIENT_FUNDS", "REFERENCE_NOT_FOUND",
   "REFERENCE_NOT_PROCESSED", "REFERENCE_MISMATCH",
   "REFERENCE_AMOUNT_MISMATCH", "REVERSAL_CONFLICT"}

NoCode    == "none"
NoBalance == -1

Row ==
  [cmd : Commands \cup {NoCommand}, status : Statuses \cup {"ABSENT"},
   code : FailureCodes \cup {NoCode}, balance : 0..MaxMinor \cup {NoBalance},
   attempts : Nat, due : BOOLEAN, refTx : ExternalIds \cup {NoRef}]

AbsentRow ==
  [cmd |-> NoCommand, status |-> "ABSENT", code |-> NoCode,
   balance |-> NoBalance, attempts |-> 0, due |-> FALSE, refTx |-> NoRef]

\* The payload hash covers every business field and leaves the idempotency
\* key out; two commands hash alike exactly when they differ in the key only.
SamePayload(c, d) ==
  /\ c.ext = d.ext /\ c.kind = d.kind /\ c.wallet = d.wallet
  /\ c.player = d.player /\ c.currency = d.currency /\ c.round = d.round
  /\ c.amount = d.amount /\ c.ref = d.ref

-----------------------------------------------------------------------------
(* Rules about a reference, given the row it names.                         *)

\* The kinds a command of each kind may reference.
Referenceable(kind) ==
  IF kind = "ROLLBACK" THEN {"BET", "WIN", "REFUND"} ELSE {"BET"}

Agrees(c, r) ==
  /\ c.player = r.player /\ c.wallet = r.wallet
  /\ c.currency = r.currency /\ c.round = r.round

\* Fault: the amount of a reversal is not compared.
FaultIgnoringAmount(c, row) ==
  CASE row.status # "PROCESSED" -> "REFERENCE_NOT_PROCESSED"
    [] row.status = "PROCESSED"
       /\ ~(row.cmd.kind \in Referenceable(c.kind) /\ Agrees(c, row.cmd))
         -> "REFERENCE_MISMATCH"
    [] OTHER -> NoCode

\* The first fault resolveReference reports for a reference that is no longer
\* pending, or NoCode.
ReferenceFault(c, row) ==
  CASE row.status # "PROCESSED" -> "REFERENCE_NOT_PROCESSED"
    [] row.status = "PROCESSED" /\ row.cmd.kind \notin Referenceable(c.kind)
         -> "REFERENCE_MISMATCH"
    [] row.status = "PROCESSED" /\ row.cmd.kind \in Referenceable(c.kind)
       /\ ~Agrees(c, row.cmd) -> "REFERENCE_MISMATCH"
    [] row.status = "PROCESSED" /\ row.cmd.kind \in Referenceable(c.kind)
       /\ Agrees(c, row.cmd) /\ IsReversal(c.kind) /\ c.amount # row.cmd.amount
         -> "REFERENCE_AMOUNT_MISMATCH"
    [] OTHER -> NoCode

\* Fault: the second look asks for the same kind again.
SameKindAgain(kind) == kind

\* The other kind of reversal a BET may already have received.
CrossKind(kind) == IF kind = "ROLLBACK" THEN "REFUND" ELSE "ROLLBACK"

\* Fault: every reversal is a credit.
ReversalsCredit(kind, refKind) == kind = "BET"

\* A BET takes money out; a ROLLBACK of a WIN or of a REFUND takes it back.
Debits(kind, refKind) ==
  \/ kind = "BET"
  \/ kind = "ROLLBACK" /\ refKind \in {"WIN", "REFUND"}

\* What Wallet.Debit or Wallet.Credit leaves of a balance.
BalanceAfter(balance, amount, debit) ==
  IF debit THEN balance - amount ELSE balance + amount

-----------------------------------------------------------------------------
(* Ledger entries.                                                          *)

Entry ==
  [tx : ExternalIds \cup {OpeningTx}, debit : BOOLEAN, amount : 1..MaxMinor,
   before : 0..MaxMinor, after : 0..MaxMinor]

OpeningEntry(w) ==
  [tx |-> OpeningTx, debit |-> FALSE, amount |-> Opening[w],
   before |-> 0, after |-> Opening[w]]
=============================================================================
