---------------------------- MODULE WagerAggregate ----------------------------
(***************************************************************************)
(* One wager transaction in memory (internal/domain/wagering) and its row   *)
(* of wager_transactions: what the aggregate lets callers do, what Insert   *)
(* and Update write of it, which rows the schema refuses, and what          *)
(* scanTransaction and Rehydrate make of a row.  WagerService decides when  *)
(* these calls are made; here they come in any order the aggregate allows.  *)
(*                                                                         *)
(* Identifiers and instants are present or absent.  An absent string is ""  *)
(* in Go and NULL in the row; the conversion is nullableString and          *)
(* derefString, and NULL stands for both here.                              *)
(***************************************************************************)
EXTENDS Integers, FiniteSets

CONSTANTS
  Currencies,
  Amounts,      \* bound: minor units, of both signs
  MaxAttempts,  \* bound: calls of ScheduleRetry
  NULL, NoTx

Kinds    == {"OPENING", "BET", "WIN", "LOSS", "REFUND", "ROLLBACK"}
Statuses == {"PENDING", "PENDING_REFERENCE", "PROCESSED", "REJECTED", "FAILED"}
Terminal == {"PROCESSED", "REJECTED", "FAILED"}
Waiting  == {"PENDING", "PENDING_REFERENCE"}
Reversal == {"REFUND", "ROLLBACK"}

\* What an external operation carries besides its wallet and its player.
Metadata == {"providerId", "externalTransactionId", "idempotencyKey",
             "payloadHash", "roundId", "gameId"}

Codes == {"INSUFFICIENT_FUNDS", "REVERSAL_INSUFFICIENT_FUNDS",
          "REFERENCE_NOT_FOUND", "REFERENCE_NOT_PROCESSED",
          "REFERENCE_MISMATCH", "REFERENCE_AMOUNT_MISMATCH",
          "REVERSAL_CONFLICT", "WALLET_PLAYER_MISMATCH", "CURRENCY_MISMATCH"}

Money == [minor : Int, currency : Currencies]

Transaction ==
  [origin : {"INTERNAL", "EXTERNAL"}, metadata : SUBSET Metadata, kind : Kinds,
   amount : Money, ref : {"given", NULL}, refTx : {"resolved", NULL},
   status : Statuses, code : Codes \cup {NULL}, balance : Money \cup {NULL},
   attempts : 0..MaxAttempts, next : {"set", NULL}]

\* A row keeps one currency for the amount and for the balance.
Row ==
  [origin : {"INTERNAL", "EXTERNAL"}, metadata : SUBSET Metadata, kind : Kinds,
   amount : Int, currency : Currencies, ref : {"given", NULL},
   refTx : {"resolved", NULL}, status : Statuses, code : Codes \cup {NULL},
   balance : Int \cup {NULL}, attempts : 0..MaxAttempts, next : {"set", NULL}]

VARIABLES
  tx,      \* the aggregate in memory, or NoTx
  row,     \* its row, or NoTx before Insert
  saved,   \* history: the aggregate when the row was last written
  refused  \* history: PostgreSQL refused a statement

vars == <<tx, row, saved, refused>>

Init == tx = NoTx /\ row = NoTx /\ saved = NoTx /\ refused = FALSE

-----------------------------------------------------------------------------
(* The constructors and transitions of the aggregate.                       *)

\* Fault: a LOSS may carry an amount.
LossMayPay(kind, minor) == minor >= 0 /\ (kind # "LOSS" => minor > 0)

\* validateAmountForKind
AmountFits(kind, minor) == IF kind = "LOSS" THEN minor = 0 ELSE minor > 0

\* What the parameters of NewExternal say of the reference.
ReferenceFits(kind, ref) ==
  /\ kind \in Reversal => ref # NULL
  /\ kind \notin Reversal \cup {"WIN"} => ref = NULL

\* NewExternal, and its caller when it refuses the parameters.
NewExternal(metadata, kind, amount, ref) ==
  /\ tx = NoTx /\ row = NoTx
  /\ metadata = Metadata
  /\ kind # "OPENING"
  /\ AmountFits(kind, amount.minor)
  /\ ReferenceFits(kind, ref)
  /\ tx' = [origin |-> "EXTERNAL", metadata |-> metadata, kind |-> kind,
            amount |-> amount, ref |-> ref, refTx |-> NULL,
            status |-> "PENDING", code |-> NULL, balance |-> NULL,
            attempts |-> 0, next |-> NULL]
  /\ UNCHANGED <<row, saved, refused>>

NewOpening(amount) ==
  /\ tx = NoTx /\ row = NoTx
  /\ amount.minor > 0
  /\ tx' = [origin |-> "INTERNAL", metadata |-> {}, kind |-> "OPENING",
            amount |-> amount, ref |-> NULL, refTx |-> NULL,
            status |-> "PROCESSED", code |-> NULL, balance |-> amount,
            attempts |-> 0, next |-> NULL]
  /\ UNCHANGED <<row, saved, refused>>

\* assertTransition
MayBecome(status) ==
  /\ tx # NoTx /\ tx.status \in Waiting
  /\ status = "PENDING_REFERENCE" => tx.status = "PENDING"

MarkPendingReference ==
  /\ MayBecome("PENDING_REFERENCE")
  /\ tx' = [tx EXCEPT !.status = "PENDING_REFERENCE"]
  /\ UNCHANGED <<row, saved, refused>>

ScheduleRetry ==
  /\ tx # NoTx /\ tx.status \in Waiting
  /\ tx.attempts < MaxAttempts
  /\ tx' = [tx EXCEPT !.attempts = @ + 1, !.next = "set"]
  /\ UNCHANGED <<row, saved, refused>>

SetReferenceResolution ==
  /\ tx # NoTx
  /\ tx' = [tx EXCEPT !.refTx = "resolved"]
  /\ UNCHANGED <<row, saved, refused>>

\* The balance is a wallet's, hence not negative.
MarkProcessed(minor) ==
  /\ MayBecome("PROCESSED") /\ minor >= 0
  /\ tx' = [tx EXCEPT !.status = "PROCESSED", !.code = NULL, !.next = NULL,
            !.balance = [minor |-> minor, currency |-> tx.amount.currency]]
  /\ UNCHANGED <<row, saved, refused>>

\* The codes reject passes, by kind.
RejectionCodes(t) ==
  {"WALLET_PLAYER_MISMATCH", "CURRENCY_MISMATCH"}
  \cup (IF t.kind = "BET" THEN {"INSUFFICIENT_FUNDS"} ELSE {})
  \cup (IF t.kind = "ROLLBACK" THEN {"REVERSAL_INSUFFICIENT_FUNDS"} ELSE {})
  \cup (IF t.kind \in Reversal THEN {"REFERENCE_AMOUNT_MISMATCH"} ELSE {})
  \cup (IF t.ref = NULL THEN {}
        ELSE {"REFERENCE_NOT_FOUND", "REFERENCE_NOT_PROCESSED",
              "REFERENCE_MISMATCH", "REVERSAL_CONFLICT"})

\* The balance reject passes: none for a reference that expired, and the
\* wallet's own for every other code.
RejectedBalance(code) ==
  IF code = "REFERENCE_NOT_FOUND" THEN {NULL}
  ELSE {b \in [minor : {a \in Amounts : a >= 0}, currency : Currencies] :
          (code = "CURRENCY_MISMATCH") <=> (b.currency # tx.amount.currency)}

MarkRejected(code) ==
  /\ MayBecome("REJECTED") /\ code \in RejectionCodes(tx)
  /\ \E balance \in RejectedBalance(code) :
       tx' = [tx EXCEPT !.status = "REJECTED", !.code = code,
              !.balance = balance, !.next = NULL]
  /\ UNCHANGED <<row, saved, refused>>

\* Nobody calls it yet.
MarkFailed(code) ==
  /\ MayBecome("FAILED") /\ code # NULL
  /\ tx' = [tx EXCEPT !.status = "FAILED", !.code = code, !.next = NULL]
  /\ UNCHANGED <<row, saved, refused>>

-----------------------------------------------------------------------------
(* The repository and the schema.                                           *)

Columns(t) ==
  [origin |-> t.origin, metadata |-> t.metadata, kind |-> t.kind,
   amount |-> t.amount.minor, currency |-> t.amount.currency, ref |-> t.ref,
   refTx |-> t.refTx, status |-> t.status, code |-> t.code,
   balance |-> IF t.balance = NULL THEN NULL ELSE t.balance.minor,
   attempts |-> t.attempts, next |-> t.next]

\* Fault: the resolved reference is not among the columns.
WithoutReference(r, t) ==
  [Columns(t) EXCEPT !.origin = r.origin, !.metadata = r.metadata,
     !.kind = r.kind, !.amount = r.amount, !.currency = r.currency,
     !.ref = r.ref, !.refTx = r.refTx]

\* The columns UPDATE sets.
Overwritten(r, t) ==
  [Columns(t) EXCEPT !.origin = r.origin, !.metadata = r.metadata,
     !.kind = r.kind, !.amount = r.amount, !.currency = r.currency,
     !.ref = r.ref]

\* The CHECK constraints of wager_transactions.
Checks(r) ==
  /\ r.origin \in {"INTERNAL", "EXTERNAL"}
  /\ r.kind \in Kinds
  /\ r.status \in Statuses
  /\ r.attempts >= 0
  /\ (r.kind = "LOSS") <=> (r.amount = 0)
  /\ r.origin = "INTERNAL" => r.kind = "OPENING" /\ r.status = "PROCESSED"
  /\ \/ r.origin = "INTERNAL" /\ r.metadata = {} /\ r.ref = NULL
     \/ r.origin = "EXTERNAL" /\ r.metadata = Metadata /\ r.kind # "OPENING"
  /\ r.kind \in Reversal => r.ref # NULL
  /\ r.balance # NULL => r.balance >= 0
  /\ (r.status \in {"REJECTED", "FAILED"}) <=> (r.code # NULL)

Insert ==
  /\ tx # NoTx /\ row = NoTx
  /\ IF Checks(Columns(tx))
       THEN row' = Columns(tx) /\ saved' = tx /\ UNCHANGED refused
       ELSE refused' = TRUE /\ UNCHANGED <<row, saved>>
  /\ UNCHANGED tx

\* Fault: UPDATE without its predicate on the status.
Always(r) == TRUE

\* The predicate of UPDATE; a row it misses is answered TRANSACTION_TERMINAL.
Updatable(r) == r.status \in Waiting

\* The trigger refuses a row that is terminal, the CHECKs what it becomes.
Update ==
  /\ tx # NoTx /\ row # NoTx /\ Updatable(row)
  /\ IF row.status \notin Terminal /\ Checks(Overwritten(row, tx))
       THEN row' = Overwritten(row, tx) /\ saved' = tx /\ UNCHANGED refused
       ELSE refused' = TRUE /\ UNCHANGED <<row, saved>>
  /\ UNCHANGED tx

\* WakeDependents, in the transaction that processes the reference; it waits
\* for the lock of one that holds the row.
Wake ==
  /\ tx = NoTx /\ row # NoTx /\ row.status = "PENDING_REFERENCE"
  /\ row' = [row EXCEPT !.next = "set"]
  /\ saved' = [saved EXCEPT !.next = "set"]
  /\ UNCHANGED <<tx, refused>>

\* Rehydrate's conditions; ParseKind, ParseStatus and NewCurrency are
\* membership in the type of the row.
Loadable(r) ==
  /\ r.attempts >= 0
  /\ r.status = "PROCESSED" /\ r.kind # "LOSS" => r.balance # NULL
  /\ r.status \in {"REJECTED", "FAILED"} => r.code # NULL

\* scanTransaction: the balance is read in the currency of the amount.
Loaded(r) ==
  [origin |-> r.origin, metadata |-> r.metadata, kind |-> r.kind,
   amount |-> [minor |-> r.amount, currency |-> r.currency], ref |-> r.ref,
   refTx |-> r.refTx, status |-> r.status, code |-> r.code,
   balance |-> IF r.balance = NULL THEN NULL
               ELSE [minor |-> r.balance, currency |-> r.currency],
   attempts |-> r.attempts, next |-> r.next]

\* GetByID, GetByProviderExternal, ClaimOne, ...
Load ==
  /\ row # NoTx /\ Loadable(row)
  /\ tx' = Loaded(row)
  /\ UNCHANGED <<row, saved, refused>>

\* The transaction ends, or the process does.
Forget ==
  /\ tx # NoTx
  /\ tx' = NoTx
  /\ UNCHANGED <<row, saved, refused>>

Next ==
  \/ \E metadata \in SUBSET Metadata, kind \in Kinds, minor \in Amounts,
        currency \in Currencies, ref \in {"given", NULL} :
          NewExternal(metadata, kind,
                      [minor |-> minor, currency |-> currency], ref)
  \/ \E minor \in Amounts, currency \in Currencies :
          NewOpening([minor |-> minor, currency |-> currency])
  \/ MarkPendingReference \/ ScheduleRetry \/ SetReferenceResolution
  \/ \E minor \in Amounts : MarkProcessed(minor)
  \/ \E code \in Codes \cup {NULL} : MarkRejected(code) \/ MarkFailed(code)
  \/ Insert \/ Update \/ Wake \/ Load \/ Forget

Spec == Init /\ [][Next]_vars

-----------------------------------------------------------------------------

\* No order of calls makes PostgreSQL refuse the row: the aggregate allows
\* nothing that a CHECK of wager_transactions or the trigger on terminal rows
\* forbids, so neither ever ends a transaction with an internal error
\* (NewExternal, NewOpening and the Mark methods against 0001_init.up.sql).
NeverRefused == ~refused

\* Every row that was written can be read, or Rehydrate would end every tick of
\* the resolver in ClaimOne; and what is read is what was written, in every
\* field a decision depends on, but for the currency of the balance: a row has
\* one currency, and the balance of a CURRENCY_MISMATCH is the wallet's
\* (Insert and Update against scanTransaction).
ComesBack ==
  row # NoTx =>
    LET t == Loaded(row) IN
    /\ Loadable(row)
    /\ [t EXCEPT !.balance = NULL] = [saved EXCEPT !.balance = NULL]
    /\ t.balance = NULL <=> saved.balance = NULL
    /\ t.balance # NULL => t.balance.minor = saved.balance.minor
=============================================================================
