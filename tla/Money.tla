--------------------------------- MODULE Money ---------------------------------
(***************************************************************************)
(* internal/domain/money: amounts of minor units in an int64, with the two  *)
(* movements of internal/domain/wallet and the check of                     *)
(* internal/domain/ledger that rest on them.                                *)
(*                                                                         *)
(* A decimal text is what the amount pattern lets through: a sign, a whole  *)
(* part and up to two further digits.                                       *)
(***************************************************************************)
EXTENDS Words

CONSTANTS
  Currencies,
  Unset,       \* the currency of a Money nobody constructed
  Operands,    \* the amounts the operations are called with
  Texts        \* the decimal texts that are parsed

MinorUnitsPerMajor == 100

MoneyType == [amount : Int64, currency : Currencies \cup {Unset}]
TextType ==
  [negative : BOOLEAN, major : Nat, places : 0..2, digits : 0..99]

ASSUME MoneyAssumption ==
  /\ Half \in Nat /\ Half > MinorUnitsPerMajor
  /\ Unset \notin Currencies
  /\ Operands \subseteq MoneyType
  /\ Texts \subseteq TextType
  /\ \A t \in Texts : /\ t.places = 0 => t.digits = 0
                      /\ t.places = 1 => t.digits \in 0..9

VARIABLE call  \* the last operation: its name, operands and result

-----------------------------------------------------------------------------
(* Add, Sub, Neg and Abs.                                                   *)

Amount(n, currency) == [code |-> "ok", amount |-> n, currency |-> currency]
Refused(code)       == [code |-> code, amount |-> 0, currency |-> Unset]

\* assertCompatible
Incompatibility(m, other) ==
  CASE m.currency = Unset \/ other.currency = Unset -> "INVALID_MONEY_CURRENCY"
    [] m.currency # Unset /\ other.currency # Unset
       /\ m.currency # other.currency -> "MONEY_CURRENCY_MISMATCH"
    [] OTHER -> "none"

\* Fault: only growth past the top is noticed.
OverflowAtTheTop(m, other, sum) == other.amount > 0 /\ sum < m.amount

\* The test of Add, on the sum that has already wrapped around.
SumOverflowed(m, other, sum) ==
  (other.amount > 0 /\ sum < m.amount) \/ (other.amount < 0 /\ sum > m.amount)

Add(m, other) ==
  LET sum == Wrap(m.amount + other.amount) IN
  IF Incompatibility(m, other) # "none" THEN Refused(Incompatibility(m, other))
  ELSE IF SumOverflowed(m, other, sum) THEN Refused("MONEY_OVERFLOW")
  ELSE Amount(sum, m.currency)

\* The test of Sub.
DiffOverflowed(m, other, diff) ==
  (other.amount < 0 /\ diff < m.amount) \/ (other.amount > 0 /\ diff > m.amount)

Sub(m, other) ==
  LET diff == Wrap(m.amount - other.amount) IN
  IF Incompatibility(m, other) # "none" THEN Refused(Incompatibility(m, other))
  ELSE IF DiffOverflowed(m, other, diff) THEN Refused("MONEY_OVERFLOW")
  ELSE Amount(diff, m.currency)

Neg(m) ==
  IF m.amount = -Half THEN Refused("MONEY_OVERFLOW")
  ELSE Amount(-m.amount, m.currency)

Abs(m) == IF m.amount < 0 THEN Neg(m) ELSE Amount(m.amount, m.currency)

-----------------------------------------------------------------------------
(* Wallet.Debit and Wallet.Credit, and the entry made of a movement.        *)

\* assertMovement, for a wallet whose balance is m.
MovementFault(m, other) ==
  CASE other.currency = Unset -> "INVALID_WALLET"
    [] other.currency # Unset /\ other.amount <= 0 -> "NON_POSITIVE_AMOUNT"
    [] other.currency # Unset /\ other.amount > 0
       /\ other.currency # m.currency -> "WALLET_CURRENCY_MISMATCH"
    [] OTHER -> "none"

Overdrawn(after) == after < 0

Debit(m, other) ==
  LET after == Sub(m, other) IN
  IF MovementFault(m, other) # "none" THEN Refused(MovementFault(m, other))
  ELSE IF after.code = "ok" /\ Overdrawn(after.amount)
  THEN Refused("INSUFFICIENT_FUNDS")
  ELSE after

Credit(m, other) ==
  IF MovementFault(m, other) # "none" THEN Refused(MovementFault(m, other))
  ELSE Add(m, other)

\* Entry.validate: the ledger computes the movement again.
ValidEntry(debit, amount, before, after) ==
  /\ amount.currency # Unset /\ amount.amount > 0
  /\ before.currency # Unset /\ after.currency # Unset
  /\ before.amount >= 0 /\ after.amount >= 0
  /\ LET expected == IF debit THEN Sub(before, amount) ELSE Add(before, amount)
     IN  /\ expected.code = "ok"
         /\ expected.amount = after.amount
         /\ expected.currency = after.currency

-----------------------------------------------------------------------------
(* Texts.                                                                   *)

\* "0" without a fraction, else the digits padded to two places.
Minor(t) == IF t.places = 1 THEN 10 * t.digits ELSE t.digits

\* Fault: the smallest int64 has no magnitude of its own.
OneLimit(negative) == Half - 1

MaxMagnitude(negative) == IF negative THEN Half ELSE Half - 1

\* parseMinorUnits; the whole part must fit an uint64.
Parse(t) ==
  LET magnitude == t.major * MinorUnitsPerMajor + Minor(t) IN
  IF t.major \notin UInt64
     \/ t.major > (MaxMagnitude(t.negative) - Minor(t)) \div MinorUnitsPerMajor
  THEN Refused("MONEY_OVERFLOW")
  ELSE Amount(IF t.negative THEN -magnitude ELSE magnitude, Unset)

\* FormatMinorUnits, by way of an uint64; the minor part has two digits.
Format(units) ==
  LET absolute == IF units < 0 THEN -(units + 1) + 1 ELSE units
      minor    == absolute % MinorUnitsPerMajor
  IN  [negative |-> units < 0, major |-> absolute \div MinorUnitsPerMajor,
       places |-> 2, digits |-> minor]

-----------------------------------------------------------------------------
(* Calls.                                                                   *)

Called(op, a, b, result) == [op |-> op, a |-> a, b |-> b, result |-> result]

NoCall == Called("none", 0, 0, Refused("none"))

Init == call = NoCall

Return == call # NoCall /\ call' = NoCall

CallAdd(m, other) == call' = Called("add", m, other, Add(m, other))
CallSub(m, other) == call' = Called("sub", m, other, Sub(m, other))
CallNeg(m)        == call' = Called("neg", m, m, Neg(m))
CallAbs(m)        == call' = Called("abs", m, m, Abs(m))
CallParse(t)      == call' = Called("parse", t, t, Parse(t))
CallFormat(m)     == call' = Called("format", m, Format(m.amount), Parse(Format(m.amount)))

\* A wallet holds a constructed, non-negative balance.
Balance(m) == m.currency # Unset /\ m.amount >= 0

CallDebit(m, other) ==
  Balance(m) /\ call' = Called("debit", m, other, Debit(m, other))
CallCredit(m, other) ==
  Balance(m) /\ call' = Called("credit", m, other, Credit(m, other))

Call ==
  \/ \E m, other \in Operands :
       \/ CallAdd(m, other) \/ CallSub(m, other)
       \/ CallDebit(m, other) \/ CallCredit(m, other)
  \/ \E m \in Operands : CallNeg(m) \/ CallAbs(m) \/ CallFormat(m)
  \/ \E t \in Texts : CallParse(t)

Next == (call = NoCall /\ Call) \/ Return

Spec == Init /\ [][Next]_call

-----------------------------------------------------------------------------
(* Properties.                                                              *)

\* The exact result n, or an overflow exactly when an int64 cannot hold it.
Exactly(n, currency) ==
  IF n \in Int64 THEN Amount(n, currency) ELSE Refused("MONEY_OVERFLOW")

\* A sum, a difference, a negation and a magnitude are the mathematical ones,
\* and an overflow is reported exactly when there is one, although Add and Sub
\* look only at a result that has wrapped around (money.go).
ArithmeticExact ==
  LET m == call.a
      o == call.b
      r == call.result IN
  /\ call.op \in {"add", "sub"} =>
       IF m.currency = o.currency /\ m.currency # Unset
       THEN r = Exactly(IF call.op = "add" THEN m.amount + o.amount
                        ELSE m.amount - o.amount, m.currency)
       ELSE r.code \in {"INVALID_MONEY_CURRENCY", "MONEY_CURRENCY_MISMATCH"}
  /\ call.op = "neg" => r = Exactly(-m.amount, m.currency)
  /\ call.op = "abs" =>
       r = Exactly(IF m.amount < 0 THEN -m.amount ELSE m.amount, m.currency)

\* The hundredths a text denotes.
Denoted(t) ==
  LET magnitude == 100 * t.major
                   + (CASE t.places = 0 -> 0
                        [] t.places = 1 -> 10 * t.digits
                        [] t.places = 2 -> t.digits)
  IN  IF t.negative THEN -magnitude ELSE magnitude

\* "BRL therefore supports values in the range [-92233720368547758.08,
\* 92233720368547758.07]" (money.go): each text in that range is parsed to what
\* it denotes, the bounds included, and each other text is an overflow.
ParsingExact ==
  call.op = "parse" => call.result = Exactly(Denoted(call.a), Unset)

\* What is printed denotes the amount and is read back as the amount, for the
\* smallest int64 too (FormatMinorUnits, parseMinorUnits).
RoundTrip ==
  call.op = "format" =>
    /\ Denoted(call.b) = call.a.amount
    /\ call.result = Amount(call.a.amount, Unset)

\* A movement never leaves a negative balance, is refused for lack of funds
\* exactly when the amount exceeds the balance, and the ledger accepts the
\* entry made of it (Wallet.Debit, Wallet.Credit, Entry.validate).
MovementsBookable ==
  call.op \in {"debit", "credit"} =>
    /\ call.result.code = "ok" =>
         /\ call.result.amount >= 0
         /\ ValidEntry(call.op = "debit", call.b, call.a, call.result)
    /\ call.result.code = "INSUFFICIENT_FUNDS" <=>
         /\ call.op = "debit"
         /\ call.b.currency = call.a.currency
         /\ call.b.amount > call.a.amount

\* What the service relies on of amounts, and of their texts.
AmountsExact == ArithmeticExact /\ MovementsBookable

\* Reading and printing are right and inverse to each other.
TextsExact == ParsingExact /\ RoundTrip
=============================================================================
