----------------------------- MODULE DomainProofs -----------------------------
(***************************************************************************)
(* What TLAPS proves about the sequential code, for an int64 of any width:  *)
(* Money for any operands and any texts, and Backoff for every pair of      *)
(* settings whose doubles fit.                                              *)
(***************************************************************************)
EXTENDS MCDomain, FiniteSetTheorems, TLAPS

-----------------------------------------------------------------------------
(* Amounts and texts.                                                       *)

(* The wrapped sum of two int64 tells whether the sum itself is one. *)
LEMMA AddExact ==
  ASSUME NEW m \in MoneyType, NEW other \in MoneyType
  PROVE  Add(m, other) =
           IF Incompatibility(m, other) # "none"
           THEN Refused(Incompatibility(m, other))
           ELSE Exactly(m.amount + other.amount, m.currency)
<1>1. m.amount \in Int64 /\ other.amount \in Int64 /\ Half \in Nat
  BY MoneyAssumption DEF MoneyType
<1>2. SumOverflowed(m, other, Wrap(m.amount + other.amount))
        <=> m.amount + other.amount \notin Int64
  BY <1>1 DEF SumOverflowed, Wrap, Int64
<1>3. m.amount + other.amount \in Int64
        => Wrap(m.amount + other.amount) = m.amount + other.amount
  BY <1>1 DEF Wrap, Int64
<1> QED
  BY <1>2, <1>3 DEF Add, Exactly

(* The same for a difference. *)
LEMMA SubExact ==
  ASSUME NEW m \in MoneyType, NEW other \in MoneyType
  PROVE  Sub(m, other) =
           IF Incompatibility(m, other) # "none"
           THEN Refused(Incompatibility(m, other))
           ELSE Exactly(m.amount - other.amount, m.currency)
<1>1. m.amount \in Int64 /\ other.amount \in Int64 /\ Half \in Nat
  BY MoneyAssumption DEF MoneyType
<1>2. DiffOverflowed(m, other, Wrap(m.amount - other.amount))
        <=> m.amount - other.amount \notin Int64
  BY <1>1 DEF DiffOverflowed, Wrap, Int64
<1>3. m.amount - other.amount \in Int64
        => Wrap(m.amount - other.amount) = m.amount - other.amount
  BY <1>1 DEF Wrap, Int64
<1> QED
  BY <1>2, <1>3 DEF Sub, Exactly

(* Negation fails for the smallest int64 only. *)
LEMMA NegExact ==
  ASSUME NEW m \in MoneyType
  PROVE  /\ Neg(m) = Exactly(-m.amount, m.currency)
         /\ Abs(m) = Exactly(IF m.amount < 0 THEN -m.amount ELSE m.amount,
                             m.currency)
<1>1. m.amount \in Int64 /\ Half \in Nat
  BY MoneyAssumption DEF MoneyType
<1>2. Neg(m) = Exactly(-m.amount, m.currency)
  BY <1>1 DEF Neg, Exactly, Int64
<1> QED
  BY <1>1, <1>2 DEF Abs, Exactly, Int64

(* Operands of one currency are compatible, all others are not. *)
LEMMA CompatibleCurrencies ==
  ASSUME NEW m, NEW other
  PROVE  /\ Incompatibility(m, other) = "none"
              <=> m.currency = other.currency /\ m.currency # Unset
         /\ Incompatibility(m, other) # "none"
              => Incompatibility(m, other)
                   \in {"INVALID_MONEY_CURRENCY", "MONEY_CURRENCY_MISMATCH"}
BY DEF Incompatibility

(* The digits of a text. *)
LEMMA MinorDigits ==
  ASSUME NEW t \in TextType,
         t.places = 0 => t.digits = 0,
         t.places = 1 => t.digits \in 0..9
  PROVE  /\ Minor(t) \in 0..99
         /\ t.major \in Nat
         /\ Denoted(t) = IF t.negative THEN -(100 * t.major + Minor(t))
                         ELSE 100 * t.major + Minor(t)
BY DEF TextType, Minor, Denoted

(* Division by the hundred minor units of a major one. *)
LEMMA Hundreds ==
  ASSUME NEW n \in Nat
  PROVE  /\ n \div 100 \in Nat
         /\ n % 100 \in 0..99
         /\ n = 100 * (n \div 100) + (n % 100)
         /\ \A k \in Nat : k > n \div 100 <=> 100 * k > n
OBVIOUS

(* The limit on the whole part, taken after a division, is the limit on the
   amount. *)
LEMMA ParseExact ==
  ASSUME NEW t \in TextType,
         t.places = 0 => t.digits = 0,
         t.places = 1 => t.digits \in 0..9
  PROVE  Parse(t) = Exactly(Denoted(t), Unset)
<1> DEFINE limit == MaxMagnitude(t.negative)
           magnitude == t.major * 100 + Minor(t)
<1>1. Minor(t) \in 0..99 /\ t.major \in Nat /\ magnitude = 100 * t.major + Minor(t)
  BY MinorDigits
<1>2. Half \in Nat /\ Half > 100 /\ t.negative \in BOOLEAN
  BY MoneyAssumption DEF MinorUnitsPerMajor, TextType
<1>3. limit = IF t.negative THEN Half ELSE Half - 1
  BY DEF MaxMagnitude
<1>4. t.major > (limit - Minor(t)) \div 100 <=> magnitude > limit
  <2> HIDE DEF limit
  <2>1. limit - Minor(t) \in Nat
    BY <1>1, <1>2, <1>3
  <2>2. t.major > (limit - Minor(t)) \div 100 <=> 100 * t.major > limit - Minor(t)
    BY <2>1, <1>1, Hundreds
  <2>3. limit \in Int
    BY <1>2, <1>3
  <2> QED
    BY <2>2, <2>3, <1>1
<1>5. t.major \notin UInt64 => magnitude > limit
  BY <1>1, <1>2, <1>3 DEF UInt64
<1>6. magnitude > limit <=> Denoted(t) \notin Int64
  BY <1>1, <1>2, <1>3, MinorDigits DEF Int64
<1>7. Parse(t) = IF magnitude > limit THEN Refused("MONEY_OVERFLOW")
                 ELSE Amount(IF t.negative THEN -magnitude ELSE magnitude, Unset)
  BY <1>4, <1>5 DEF Parse, MinorUnitsPerMajor
<1>8. Denoted(t) = IF t.negative THEN -magnitude ELSE magnitude
  BY <1>1, MinorDigits
<1> QED
  BY <1>6, <1>7, <1>8 DEF Exactly

(* A printed amount is a text that denotes it. *)
LEMMA FormatExact ==
  ASSUME NEW n \in Int64
  PROVE  /\ Format(n) \in TextType
         /\ Format(n).places = 2
         /\ Denoted(Format(n)) = n
<1> DEFINE absolute == IF n < 0 THEN -(n + 1) + 1 ELSE n
<1>1. n \in Int /\ absolute \in Nat /\ n = IF n < 0 THEN -absolute ELSE absolute
  BY MoneyAssumption DEF Int64
<1>2. /\ absolute \div 100 \in Nat
      /\ absolute % 100 \in 0..99
      /\ absolute = 100 * (absolute \div 100) + (absolute % 100)
  BY <1>1, Hundreds
<1>3. Format(n) = [negative |-> n < 0, major |-> absolute \div 100,
                   places |-> 2, digits |-> absolute % 100]
  BY DEF Format, MinorUnitsPerMajor
<1> HIDE DEF absolute
<1>4. Format(n) \in TextType /\ Format(n).places = 2
  BY <1>2, <1>3 DEF TextType
<1>5. Denoted(Format(n)) = IF n < 0 THEN -absolute ELSE absolute
  <2>1. /\ Format(n).major = absolute \div 100
        /\ Format(n).places = 2
        /\ Format(n).digits = absolute % 100
    BY <1>3
  <2>3. Format(n).negative <=> n < 0
    <3> DEFINE sign == n < 0
    <3>1. Format(n) = [negative |-> sign, major |-> absolute \div 100,
                       places |-> 2, digits |-> absolute % 100]
      BY <1>3
    <3>2. sign <=> n < 0
      OBVIOUS
    <3> HIDE DEF sign
    <3>3. Format(n).negative = sign
      BY <3>1
    <3> QED
      BY <3>2, <3>3
  <2>2. Denoted(Format(n)) =
          IF Format(n).negative
          THEN -(100 * Format(n).major + Format(n).digits)
          ELSE 100 * Format(n).major + Format(n).digits
    BY <2>1 DEF Denoted
  <2> QED
    BY <1>2, <2>1, <2>2, <2>3
<1> QED
  BY <1>1, <1>4, <1>5

(* A debit takes no more than there is, a credit no more than fits, and the
   ledger finds the same result. *)
LEMMA MovementExact ==
  ASSUME NEW m \in MoneyType, NEW other \in MoneyType, Balance(m)
  PROVE  /\ Debit(m, other).code = "ok" =>
              /\ Debit(m, other).amount >= 0
              /\ ValidEntry(TRUE, other, m, Debit(m, other))
         /\ Credit(m, other).code = "ok" =>
              /\ Credit(m, other).amount >= 0
              /\ ValidEntry(FALSE, other, m, Credit(m, other))
         /\ Credit(m, other).code # "INSUFFICIENT_FUNDS"
         /\ Debit(m, other).code = "INSUFFICIENT_FUNDS" <=>
              other.currency = m.currency /\ other.amount > m.amount
<1>1. /\ m.amount \in Int64 /\ other.amount \in Int64 /\ Half \in Nat
      /\ m.amount >= 0 /\ m.currency # Unset
  BY MoneyAssumption DEF MoneyType, Balance
<1>2. CASE MovementFault(m, other) # "none"
  <2>1. /\ MovementFault(m, other) \notin {"ok", "INSUFFICIENT_FUNDS"}
        /\ ~(other.currency = m.currency /\ other.amount > m.amount)
    BY <1>1, <1>2 DEF MovementFault, Int64
  <2> QED
    BY <1>2, <2>1 DEF Debit, Credit, Refused
<1>3. CASE MovementFault(m, other) = "none"
  <2>1. other.amount > 0 /\ other.currency = m.currency
    BY <1>1, <1>3 DEF MovementFault, Int64
  <2>2. /\ Incompatibility(m, other) = "none"
        /\ m.amount - other.amount \in Int64
    BY <1>1, <2>1, CompatibleCurrencies DEF Int64
  <2>3. /\ Sub(m, other) = Amount(m.amount - other.amount, m.currency)
        /\ Add(m, other) = Exactly(m.amount + other.amount, m.currency)
    BY <2>2, SubExact, AddExact DEF Exactly
  <2>4. /\ Credit(m, other) = Add(m, other)
        /\ Debit(m, other) = IF m.amount - other.amount < 0
                             THEN Refused("INSUFFICIENT_FUNDS")
                             ELSE Sub(m, other)
    BY <1>3, <2>3 DEF Debit, Credit, Overdrawn, Amount
  <2>5. Add(m, other).code = "ok" =>
          Add(m, other) = Amount(m.amount + other.amount, m.currency)
    BY <2>3 DEF Exactly, Refused
  <2>6. Credit(m, other).code # "INSUFFICIENT_FUNDS"
    BY <2>3, <2>4 DEF Exactly, Refused, Amount
  <2>7. Debit(m, other).code = "INSUFFICIENT_FUNDS" <=>
          other.currency = m.currency /\ other.amount > m.amount
    BY <1>1, <2>1, <2>3, <2>4 DEF Refused, Amount, Int64
  <2>8. Debit(m, other).code = "ok" =>
          /\ Debit(m, other).amount >= 0
          /\ ValidEntry(TRUE, other, m, Debit(m, other))
    BY <1>1, <2>1, <2>3, <2>4 DEF Refused, Amount, Int64, ValidEntry
  <2>9. Credit(m, other).code = "ok" =>
          /\ Credit(m, other).amount >= 0
          /\ ValidEntry(FALSE, other, m, Credit(m, other))
    BY <1>1, <2>1, <2>4, <2>5 DEF Amount, Int64, ValidEntry
  <2> QED
    BY <2>6, <2>7, <2>8, <2>9
<1> QED
  BY <1>2, <1>3

-----------------------------------------------------------------------------

Exact == ArithmeticExact /\ ParsingExact /\ RoundTrip /\ MovementsBookable

(* Every call is made on operands of the right type, and its result is exact
   whatever was called before. *)
LEMMA CallsExact ==
  ASSUME Next
  PROVE  Exact'
<1> USE DEF Called, Exact, ArithmeticExact, ParsingExact, RoundTrip, MovementsBookable
<1>1. Operands \subseteq MoneyType
  BY MoneyAssumption
<1>2. ASSUME NEW m \in Operands, NEW other \in Operands, CallAdd(m, other)
      PROVE  Exact'
  BY <1>1, <1>2, AddExact, CompatibleCurrencies DEF CallAdd, Refused
<1>3. ASSUME NEW m \in Operands, NEW other \in Operands, CallSub(m, other)
      PROVE  Exact'
  BY <1>1, <1>3, SubExact, CompatibleCurrencies DEF CallSub, Refused
<1>4. ASSUME NEW m \in Operands, NEW other \in Operands, CallDebit(m, other)
      PROVE  Exact'
  BY <1>1, <1>4, MovementExact DEF CallDebit
<1>5. ASSUME NEW m \in Operands, NEW other \in Operands, CallCredit(m, other)
      PROVE  Exact'
  BY <1>1, <1>5, MovementExact DEF CallCredit
<1>6. ASSUME NEW m \in Operands, CallNeg(m)
      PROVE  Exact'
  BY <1>1, <1>6, NegExact DEF CallNeg
<1>7. ASSUME NEW m \in Operands, CallAbs(m)
      PROVE  Exact'
  BY <1>1, <1>7, NegExact DEF CallAbs
<1>8. ASSUME NEW m \in Operands, CallFormat(m)
      PROVE  Exact'
  <2>1. m.amount \in Int64
    BY <1>1 DEF MoneyType
  <2>2. Parse(Format(m.amount)) = Amount(m.amount, Unset)
    BY <2>1, FormatExact, ParseExact DEF Exactly
  <2> QED
    BY <1>8, <2>1, <2>2, FormatExact DEF CallFormat
<1>9. ASSUME NEW t \in Texts, CallParse(t)
      PROVE  Exact'
  <2>1. Parse(t) = Exactly(Denoted(t), Unset)
    BY MoneyAssumption, ParseExact
  <2> QED
    BY <1>9, <2>1 DEF CallParse
<1>10. ASSUME Return
       PROVE  Exact'
  BY <1>10 DEF Return, NoCall
<1> QED
  BY <1>2, <1>3, <1>4, <1>5, <1>6, <1>7, <1>8, <1>9, <1>10 DEF Next, Call

(* All four hold together, whatever was called before. *)
LEMMA MoneyExact == Spec => []Exact
<1>1. Init => Exact
  BY DEF Init, NoCall, Called, Exact, ArithmeticExact, ParsingExact, RoundTrip,
         MovementsBookable
<1>2. Exact /\ [Next]_call => Exact'
  <2>1. CASE Next
    BY <2>1, CallsExact
  <2>2. ASSUME Exact, UNCHANGED call
        PROVE  Exact'
    BY <2>2 DEF Exact, ArithmeticExact, ParsingExact, RoundTrip, MovementsBookable
  <2> QED
    BY <2>1, <2>2
<1> QED
  BY <1>1, <1>2, PTL DEF Spec

(* Add, Sub, Neg and Abs return the mathematical result or an overflow that
   really is one, for a machine word of any width (money.go). *)
THEOREM ArithmeticIsExact == Spec => []ArithmeticExact
<1>1. Exact => ArithmeticExact
  BY DEF Exact
<1> QED
  BY <1>1, MoneyExact, PTL

(* Every text that denotes an int64 is parsed to what it denotes, every other
   is refused (parseMinorUnits). *)
THEOREM ParsingIsExact == Spec => []ParsingExact
<1>1. Exact => ParsingExact
  BY DEF Exact
<1> QED
  BY <1>1, MoneyExact, PTL

(* Every int64 is printed as a text that is read back as the same int64
   (FormatMinorUnits, parseMinorUnits). *)
THEOREM TextsRoundTrip == Spec => []RoundTrip
<1>1. Exact => RoundTrip
  BY DEF Exact
<1> QED
  BY <1>1, MoneyExact, PTL

(* Debit and Credit never leave a negative balance, and the ledger accepts
   every entry made of them (Wallet.Debit, Wallet.Credit, Entry.validate). *)
THEOREM MovementsAreBookable == Spec => []MovementsBookable
<1>1. Exact => MovementsBookable
  BY DEF Exact
<1> QED
  BY <1>1, MoneyExact, PTL

(* Both about amounts: what Debit and Credit book is exact. *)
THEOREM AmountsAreExact == Spec => []AmountsExact
<1>1. ArithmeticExact /\ MovementsBookable => AmountsExact
  BY DEF AmountsExact
<1> QED
  BY <1>1, ArithmeticIsExact, MovementsAreBookable, PTL

(* Both about texts: each is read as what it denotes, and printed amounts are
   read back, at both ends of the range too. *)
THEOREM TextsAreExact == Spec => []TextsExact
<1>1. ParsingExact /\ RoundTrip => TextsExact
  BY DEF TextsExact
<1> QED
  BY <1>1, ParsingIsExact, TextsRoundTrip, PTL

-----------------------------------------------------------------------------
(* The delays between attempts.                                             *)

\* What the loop keeps: it goes on only with a value below the cap, or with
\* the base itself, so the next doubling fits.
LoopInv ==
  /\ pc \in {"new", "claimed", "loop", "scheduled"}
  /\ base \in Int64 /\ cap \in Int64 /\ backoff \in Int
  /\ i \in Nat /\ attempt \in Nat
  /\ user = "outbox" => base >= 1 /\ cap >= 1
  /\ (pc = "loop" /\ user = "outbox" /\ Fits) =>
       backoff >= 1 /\ 2 * backoff < Half
  /\ (pc = "scheduled" /\ user = "outbox" /\ Fits) => backoff \in 1..cap

\* A number in range is not changed by the word.
LEMMA WrapFits ==
  ASSUME NEW n \in Int, -Half <= n, n < Half
  PROVE  Wrap(n) = n
BY BackoffAssumption DEF Wrap

\* The word keeps every number an integer.
LEMMA WrapInt ==
  ASSUME NEW n \in Int
  PROVE  Wrap(n) \in Int
BY BackoffAssumption DEF Wrap

\* Nothing is configured yet.
LEMMA InitLoop == BackoffInit => LoopInv
BY BackoffAssumption DEF BackoffInit, LoopInv, Fits, Int64

\* NewPublisher leaves no duration that is not positive.
LEMMA ConfigureLoop == LoopInv /\ Configure => LoopInv'
<1> SUFFICES ASSUME LoopInv, Configure PROVE LoopInv'
  OBVIOUS
<1>1. PICK b \in Settings, c \in Settings :
        /\ base' = IF user' = "outbox" THEN OrDefault(b, DefaultBase) ELSE b
        /\ cap'  = IF user' = "outbox" THEN OrDefault(c, DefaultCap) ELSE c
  BY DEF Configure
<1>2. b \in Int64 /\ c \in Int64
  BY BackoffAssumption
<1>3. base' \in Int64 /\ (user' = "outbox" => base' >= 1)
  BY <1>1, <1>2, BackoffAssumption DEF OrDefault, Int64
<1>4. cap' \in Int64 /\ (user' = "outbox" => cap' >= 1)
  BY <1>1, <1>2, BackoffAssumption DEF OrDefault, Int64
<1> QED BY <1>3, <1>4 DEF Configure, LoopInv

\* One step per action.
LEMMA NextLoop == LoopInv /\ [BackoffNext]_loop => LoopInv'
<1> SUFFICES ASSUME LoopInv, [BackoffNext]_loop PROVE LoopInv'
  OBVIOUS
<1> USE BackoffAssumption
<1>1. ASSUME Fail PROVE LoopInv'
  BY <1>1 DEF Fail, LoopInv, Fits, Int64
<1>2. ASSUME Double PROVE LoopInv'
  <2>1. Wrap(2 * backoff) \in Int
    BY WrapInt DEF LoopInv
  <2>2. (user = "outbox" /\ Fits) => Wrap(2 * backoff) = 2 * backoff
    BY <1>2, WrapFits DEF Double, LoopInv
  <2>3. CASE Enough
    BY <1>2, <2>3 DEF Double, LoopInv, Fits, Int64
  <2>4. CASE ~Enough
    <3>1. backoff' = Wrap(2 * backoff) /\ pc' = "loop" /\ i' = i + 1
      BY <1>2, <2>4 DEF Double
    <3>2. (user = "outbox" /\ Fits) => 2 * backoff < cap
      BY <2>2, <2>4 DEF Enough, LoopInv, Int64
    <3> QED BY <1>2, <2>1, <2>2, <3>1, <3>2 DEF Double, LoopInv, Fits, Int64
  <2> QED BY <2>3, <2>4
<1>3. ASSUME Leave PROVE LoopInv'
  BY <1>3 DEF Leave, LoopInv, Fits, Int64
<1>4. ASSUME ClaimAgain PROVE LoopInv'
  BY <1>4 DEF ClaimAgain, LoopInv, Fits
<1>5. CASE UNCHANGED loop
  BY <1>5 DEF loop, LoopInv, Fits
<1>6. ASSUME Configure PROVE LoopInv'
  BY <1>6, ConfigureLoop
<1> QED BY <1>1, <1>2, <1>3, <1>4, <1>5, <1>6 DEF BackoffNext

\* 2^n counts the subsets of 1..n; that is all the provers know of powers.
LEMMA PowerCounts ==
  ASSUME NEW n \in Nat
  PROVE  /\ IsFiniteSet(SUBSET (1..n)) /\ Cardinality(SUBSET (1..n)) = 2^n
         /\ 2^n \in Nat /\ 2^n >= 1
<1>1. IsFiniteSet(1..n) /\ Cardinality(1..n) = n
  BY FS_Interval
<1>2. IsFiniteSet(SUBSET (1..n)) /\ Cardinality(SUBSET (1..n)) = 2^n
  BY <1>1, FS_SUBSET
<1>3. 2^n \in Nat /\ (2^n = 0 <=> SUBSET (1..n) = {})
  BY <1>2, FS_CardinalityType, FS_EmptySet
<1>4. {} \in SUBSET (1..n)
  OBVIOUS
<1>5. 2^n # 0
  BY <1>3, <1>4
<1> QED BY <1>2, <1>3, <1>5

\* A larger exponent, a larger power.
LEMMA PowerGrows ==
  ASSUME NEW m \in Nat, NEW n \in Nat, m <= n
  PROVE  2^m <= 2^n
<1>1. SUBSET (1..m) \in SUBSET (SUBSET (1..n))
  OBVIOUS
<1>2. IsFiniteSet(SUBSET (1..n))
  BY PowerCounts
<1>3. Cardinality(SUBSET (1..m)) <= Cardinality(SUBSET (1..n))
  BY <1>1, <1>2, FS_Subset
<1> QED BY <1>3, PowerCounts

\* One more, twice as much: the subsets of 1..n, without and with n + 1.
LEMMA PowerDoubles ==
  ASSUME NEW n \in Nat
  PROVE  2^(n + 1) = 2 * 2^n
<1> DEFINE S == SUBSET (1..n)
           T == {X \cup {n + 1} : X \in S}
           f == [X \in S |-> X \cup {n + 1}]
<1>1. SUBSET (1..(n + 1)) = S \cup T
  <2>1. S \cup T \subseteq SUBSET (1..(n + 1))
    <3>1. 1..n \subseteq 1..(n + 1) /\ n + 1 \in 1..(n + 1)
      OBVIOUS
    <3> QED BY <3>1
  <2>2. ASSUME NEW Y \in SUBSET (1..(n + 1)), Y \notin S PROVE Y \in T
    <3>1. n + 1 \in Y
      BY <2>2
    <3>2. Y \ {n + 1} \in S
      OBVIOUS
    <3>3. Y = (Y \ {n + 1}) \cup {n + 1}
      BY <3>1
    <3> QED BY <3>2, <3>3
  <2> QED BY <2>1, <2>2
<1>2. S \cap T = {}
  OBVIOUS
<1>3. f \in Bijection(S, T)
  <2>1. f \in [S -> T]
    OBVIOUS
  <2>2. \A t \in T : \E s \in S : f[s] = t
    OBVIOUS
  <2>3. ASSUME NEW a \in S, NEW b \in S, f[a] = f[b] PROVE a = b
    <3>1. a \cup {n + 1} = b \cup {n + 1}
      BY <2>3
    <3>2. n + 1 \notin a /\ n + 1 \notin b
      OBVIOUS
    <3> QED BY <3>1, <3>2
  <2> HIDE DEF f
  <2> QED BY <2>1, <2>2, <2>3 DEF Bijection, Injection, Surjection, IsInjective
<1>4. IsFiniteSet(S) /\ Cardinality(S) = 2^n /\ 2^n \in Nat
  BY PowerCounts
<1>5. IsFiniteSet(T) /\ Cardinality(T) = 2^n
  BY <1>3, <1>4, FS_Bijection DEF ExistsBijection
<1>6. Cardinality(S \cap T) = 0
  BY <1>2, FS_EmptySet
<1> HIDE DEF S, T
<1>7. Cardinality(S \cup T) = 2^n + 2^n - 0
  BY <1>4, <1>5, <1>6, FS_Union
<1>8. Cardinality(SUBSET (1..(n + 1))) = 2^(n + 1)
  <2>1. n + 1 \in Nat
    OBVIOUS
  <2> QED BY <2>1, PowerCounts
<1> QED BY <1>1, <1>4, <1>7, <1>8

\* Where the loop of a delay stands: after i - 1 doublings, below the cap if
\* there was one; and where it ends.
ExactInv ==
  (Fits /\ base >= 0) =>
    /\ pc = "loop" => /\ i \in 1..attempt
                      /\ backoff = base * 2^(i - 1)
                      /\ i > 1 => backoff < cap
    /\ pc = "scheduled" => attempt >= 1 /\ backoff = Documented

\* A multiple of twice p is twice the multiple, and grows with it.
LEMMA Multiples ==
  ASSUME NEW b \in Nat, NEW p \in Nat, NEW q \in Nat
  PROVE  /\ b * p \in Nat /\ 2 * (b * p) = b * (2 * p)
         /\ p <= q => b * p <= b * q
<1>1. b * p \in Nat /\ 2 * (b * p) = b * (2 * p)
  OBVIOUS
<1>2. ASSUME p <= q PROVE b * p <= b * q
  <2>1. q - p \in Nat /\ b * (q - p) \in Nat
    BY <1>2
  <2>2. b * q = b * p + b * (q - p)
    OBVIOUS
  <2> QED BY <1>1, <2>1, <2>2
<1> QED BY <1>1, <1>2

\* The first try is the base itself, and base * 2^0.
LEMMA FailExact == LoopInv /\ Fail => ExactInv'
<1> SUFFICES ASSUME LoopInv, Fail PROVE ExactInv'
  OBVIOUS
<1>1. /\ i' = 1 /\ backoff' = base /\ base' = base /\ pc' = "loop"
      /\ attempt' = attempt + 1 /\ attempt \in Nat /\ base \in Int
  BY DEF Fail, LoopInv, Int64
<1>2. 2^0 = 1
  OBVIOUS
<1>3. base * 2^(1 - 1) = base
  BY <1>1, <1>2
<1> QED BY <1>1, <1>3 DEF ExactInv

\* Another doubling is another power of two; at the cap, all later ones are
\* at the cap or above it.
LEMMA DoubleExact == LoopInv /\ ExactInv /\ Double => ExactInv'
<1> SUFFICES ASSUME LoopInv, ExactInv, Double, Fits, base >= 0 PROVE ExactInv'
  BY DEF Double, ExactInv, Fits
<1> DEFINE p == 2^(i - 1)
           q == 2^i
           r == 2^(attempt - 1)
<1>1. /\ pc = "loop" /\ i < attempt /\ i' = i + 1
      /\ UNCHANGED <<base, cap, attempt>>
  BY DEF Double, MoreToDouble
<1>2. /\ base \in Nat /\ cap \in Int /\ i \in Nat /\ i >= 1 /\ attempt \in Nat
      /\ backoff = base * p /\ (i > 1 => backoff < cap)
  BY <1>1 DEF LoopInv, ExactInv, Int64
<1>3. p \in Nat /\ p >= 1 /\ q = 2 * p /\ q \in Nat
  <2>1. i - 1 \in Nat /\ i = (i - 1) + 1
    BY <1>2
  <2>2. 2^((i - 1) + 1) = 2 * 2^(i - 1) /\ 2^(i - 1) \in Nat /\ 2^(i - 1) >= 1
    BY <2>1, PowerCounts, PowerDoubles
  <2> QED BY <2>1, <2>2
<1>4. q <= r /\ r \in Nat
  <2>1. i \in Nat /\ attempt - 1 \in Nat /\ i <= attempt - 1
    BY <1>1, <1>2
  <2> QED BY <2>1, PowerCounts, PowerGrows
<1>5. i = 1 => p = 1
  OBVIOUS
<1> HIDE DEF p, q, r
<1>6. 2 * backoff = base * q /\ base * q <= base * r /\ backoff \in Nat
  BY <1>2, <1>3, <1>4, Multiples
<1>7. 2 * backoff < Half
  <2>1. CASE i = 1
    BY <1>2, <1>5, <2>1 DEF Fits
  <2>2. CASE i # 1
    BY <1>2, <1>6, <2>2, BackoffAssumption DEF Fits
  <2> QED BY <2>1, <2>2
<1>8. Wrap(2 * backoff) = 2 * backoff
  BY <1>6, <1>7, WrapFits, BackoffAssumption
<1>9. CASE Enough
  <2>1. backoff' = cap /\ pc' = "scheduled"
    BY <1>9 DEF Double
  <2>2. base * r >= cap /\ base * r \in Nat
    BY <1>2, <1>4, <1>6, <1>8, <1>9, Multiples DEF Enough
  <2>3. Documented' = cap
    BY <1>1, <1>2, <2>2 DEF Documented, r
  <2> QED BY <1>1, <1>2, <2>1, <2>3 DEF ExactInv
<1>10. CASE ~Enough
  <2>1. backoff' = 2 * backoff /\ pc' = "loop"
    BY <1>8, <1>10 DEF Double
  <2>2. backoff' < cap
    BY <1>2, <1>6, <1>8, <1>10, <2>1 DEF Enough
  <2>3. backoff' = base * 2^(i' - 1)
    <3>1. i' - 1 = i
      BY <1>1, <1>2
    <3> QED BY <1>6, <2>1, <3>1 DEF q
  <2>4. i' \in 1..attempt'
    BY <1>1, <1>2
  <2> QED BY <1>1, <2>1, <2>2, <2>3, <2>4 DEF ExactInv
<1> QED BY <1>9, <1>10

\* The loop ends with as many doublings as were due, and caps the last.
LEMMA LeaveExact == LoopInv /\ ExactInv /\ Leave => ExactInv'
<1> SUFFICES ASSUME LoopInv, ExactInv, Leave, Fits, base >= 0 PROVE ExactInv'
  BY DEF Leave, ExactInv, Fits
<1>1. /\ pc = "loop" /\ ~(i < attempt) /\ pc' = "scheduled"
      /\ UNCHANGED <<base, cap, attempt>>
      /\ backoff' = IF backoff > cap THEN cap ELSE backoff
  BY DEF Leave, MoreToDouble
<1>2. i \in 1..attempt /\ attempt \in Nat /\ backoff = base * 2^(i - 1)
  BY <1>1 DEF LoopInv, ExactInv
<1>3. i = attempt /\ attempt >= 1
  BY <1>1, <1>2
<1>4. Documented' = IF backoff > cap THEN cap ELSE backoff
  BY <1>1, <1>2, <1>3 DEF Documented
<1> QED BY <1>1, <1>3, <1>4 DEF ExactInv

\* One step per action.
LEMMA NextExact == LoopInv /\ ExactInv /\ [BackoffNext]_loop => ExactInv'
<1> SUFFICES ASSUME LoopInv, ExactInv, [BackoffNext]_loop PROVE ExactInv'
  OBVIOUS
<1>1. CASE Configure
  BY <1>1 DEF Configure, ExactInv
<1>2. CASE ClaimAgain
  BY <1>2 DEF ClaimAgain, ExactInv
<1>3. CASE UNCHANGED loop
  BY <1>3 DEF loop, ExactInv, Fits, Documented
<1> QED
  BY <1>1, <1>2, <1>3, FailExact, DoubleExact, LeaveExact DEF BackoffNext

\* Every delay is base * 2^(attempt-1), capped, though the loop stops at the
\* cap and compares words; an outbox event waits between one unit and the cap
\* (referenceBackoff and backoff).
THEOREM DelaysAreRight == DomainSpec => []DelaysRight
<1>1. BackoffInit => ExactInv
  BY DEF BackoffInit, ExactInv
<1>2. LoopInv /\ ExactInv => DelaysRight
  BY DEF LoopInv, ExactInv, DelaysRight, DelayExact, OutboxWaits
<1>3. DomainInit => BackoffInit
  BY DEF DomainInit
<1>4. [DomainNext]_<<call, loop, aggregate>> => [BackoffNext]_loop
  BY DEF DomainNext
<1> QED
  BY InitLoop, NextLoop, NextExact, <1>1, <1>2, <1>3, <1>4, PTL DEF DomainSpec

-----------------------------------------------------------------------------
(* A transaction and its row.                                               *)

\* A transaction whose row the schema takes and Rehydrate reads.
Sound(t) ==
  /\ t \in A!Transaction
  /\ A!Checks(A!Columns(t)) /\ A!Loadable(A!Columns(t))

SoundRow(r) == r \in A!Row /\ A!Checks(r) /\ A!Loadable(r)

\* What UPDATE leaves alone is the same in the aggregate.
SameOperation(r, t) ==
  /\ r.origin = t.origin /\ r.metadata = t.metadata /\ r.kind = t.kind
  /\ r.amount = t.amount.minor /\ r.currency = t.amount.currency /\ r.ref = t.ref

\* What the row keeps of an aggregate.
Keeps(r, t) ==
  /\ SameOperation(r, t) /\ r.refTx = t.refTx /\ r.status = t.status
  /\ r.code = t.code /\ r.attempts = t.attempts /\ r.next = t.next
  /\ r.balance = IF t.balance = NULL THEN NULL ELSE t.balance.minor

AggregateInv ==
  /\ ~refused
  /\ tx # NoTx => Sound(tx)
  /\ row # NoTx => SoundRow(row) /\ saved \in A!Transaction /\ Keeps(row, saved)
  /\ tx # NoTx /\ row # NoTx => SameOperation(row, tx)

\* A transaction's columns are a row that keeps it.
LEMMA ColumnsAreRows ==
  ASSUME NEW t \in A!Transaction
  PROVE  A!Columns(t) \in A!Row /\ Keeps(A!Columns(t), t)
<1>1. t.balance # NULL => t.balance.minor \in Int
  BY DEF A!Transaction, A!Money
<1>2. t.amount.minor \in Int /\ t.amount.currency \in Currencies
  BY DEF A!Transaction, A!Money
<1>3. A!Columns(t) \in A!Row
  BY <1>1, <1>2 DEF A!Transaction, A!Row, A!Columns
<1> QED BY <1>3 DEF A!Columns, Keeps, SameOperation

\* A row that is read is a transaction it keeps.
LEMMA RowsLoad ==
  ASSUME NEW r \in A!Row
  PROVE  A!Loaded(r) \in A!Transaction /\ Keeps(r, A!Loaded(r)) /\ A!Columns(A!Loaded(r)) = r
<1> DEFINE t == A!Loaded(r)
<1>1. [minor |-> r.amount, currency |-> r.currency] \in A!Money
  BY DEF A!Row, A!Money
<1>2. r.balance # NULL =>
        /\ [minor |-> r.balance, currency |-> r.currency] \in A!Money
        /\ [minor |-> r.balance, currency |-> r.currency] # NULL
  BY AggregateAssumption DEF A!Row, A!Money
<1>3. t \in A!Transaction
  BY <1>1, <1>2 DEF A!Row, A!Transaction, A!Loaded
<1>4. Keeps(r, t)
  BY <1>2 DEF A!Loaded, Keeps, SameOperation, A!Row
<1>5. A!Columns(t) = r
  BY <1>2 DEF A!Loaded, A!Columns, A!Row
<1> QED BY <1>3, <1>4, <1>5

\* The aggregate changes in memory only.
LEMMA InMemory ==
  ASSUME AggregateInv, UNCHANGED <<row, saved, refused>>,
         tx' # NoTx => Sound(tx'),
         tx' # NoTx /\ row # NoTx => SameOperation(row, tx')
  PROVE  AggregateInv'
BY DEF AggregateInv

\* A transition keeps the operation, and what it sets is sound.
LEMMA Transition ==
  ASSUME AggregateInv, tx # NoTx, UNCHANGED <<row, saved, refused>>,
         tx' \in A!Transaction,
         /\ tx'.origin = tx.origin /\ tx'.metadata = tx.metadata /\ tx'.kind = tx.kind
         /\ tx'.amount = tx.amount /\ tx'.ref = tx.ref,
         tx'.origin = "INTERNAL" => tx'.status = "PROCESSED",
         tx'.status \in {"REJECTED", "FAILED"} <=> tx'.code # NULL,
         tx'.status = "PROCESSED" /\ tx'.kind # "LOSS" => tx'.balance # NULL,
         tx'.balance # NULL => tx'.balance.minor >= 0
  PROVE  AggregateInv'
<1> DEFINE u == tx'
<1>1. Sound(tx) /\ (row # NoTx => SameOperation(row, tx))
  BY DEF AggregateInv
<1>2. u.balance # NULL => u.balance.minor \in Int /\ u.balance.minor # NULL
  BY AggregateAssumption DEF A!Transaction, A!Money
<1>3. A!Checks(A!Columns(tx))
  BY <1>1 DEF Sound
<1>4. u.status \in A!Statuses /\ u.attempts >= 0
  BY DEF A!Transaction
<1>5. A!Checks(A!Columns(u)) /\ A!Loadable(A!Columns(u))
  BY <1>2, <1>3, <1>4 DEF A!Checks, A!Loadable, A!Columns, A!Statuses
<1>6. row # NoTx => SameOperation(row, u)
  BY <1>1 DEF SameOperation
<1> QED BY <1>5, <1>6, InMemory DEF Sound

\* What soundness says field by field.
LEMMA SoundFields ==
  ASSUME NEW t, Sound(t)
  PROVE  /\ t \in A!Transaction
         /\ t.origin = "INTERNAL" => t.status = "PROCESSED"
         /\ t.status \in {"REJECTED", "FAILED"} <=> t.code # NULL
         /\ t.status = "PROCESSED" /\ t.kind # "LOSS" => t.balance # NULL
         /\ t.balance # NULL => t.balance.minor >= 0
<1>1. t \in A!Transaction /\ A!Checks(A!Columns(t)) /\ A!Loadable(A!Columns(t))
  BY DEF Sound
<1>2. t.balance # NULL => t.balance.minor \in Int /\ t.balance.minor # NULL
  BY <1>1, AggregateAssumption DEF A!Transaction, A!Money
<1> QED BY <1>1, <1>2 DEF A!Checks, A!Loadable, A!Columns

LEMMA InitAggregate == A!Init => AggregateInv
BY DEF A!Init, AggregateInv

\* The constructors.
LEMMA CreateAggregate ==
  ASSUME AggregateInv,
         \/ \E metadata \in SUBSET A!Metadata, kind \in A!Kinds, minor \in Minors,
               currency \in Currencies, ref \in {"given", NULL} :
              A!NewExternal(metadata, kind, [minor |-> minor, currency |-> currency], ref)
         \/ \E minor \in Minors, currency \in Currencies :
              A!NewOpening([minor |-> minor, currency |-> currency])
  PROVE  AggregateInv'
<1>1. ASSUME NEW metadata \in SUBSET A!Metadata, NEW kind \in A!Kinds,
             NEW minor \in Minors, NEW currency \in Currencies,
             NEW ref \in {"given", NULL},
             A!NewExternal(metadata, kind, [minor |-> minor, currency |-> currency], ref)
      PROVE  AggregateInv'
  <2> DEFINE t == [origin |-> "EXTERNAL", metadata |-> metadata, kind |-> kind,
                   amount |-> [minor |-> minor, currency |-> currency],
                   ref |-> ref, refTx |-> NULL, status |-> "PENDING",
                   code |-> NULL, balance |-> NULL, attempts |-> 0, next |-> NULL]
  <2>1. /\ row = NoTx /\ tx' = t /\ UNCHANGED <<row, saved, refused>>
        /\ metadata = A!Metadata /\ kind # "OPENING"
        /\ IF kind = "LOSS" THEN minor = 0 ELSE minor > 0
        /\ kind \in {"REFUND", "ROLLBACK"} => ref # NULL
    BY <1>1 DEF A!NewExternal, A!AmountFits, A!ReferenceFits, A!Reversal
  <2>2. minor \in Int /\ [minor |-> minor, currency |-> currency] \in A!Money
    BY AggregateAssumption DEF A!Money
  <2>3. t \in A!Transaction
    BY <2>2 DEF A!Transaction, A!Kinds, A!Statuses
  <2>4. A!Checks(A!Columns(t)) /\ A!Loadable(A!Columns(t))
    <3> DEFINE r == A!Columns(t)
    <3>1. A!Checks(r)
      <4>1. /\ r.origin = "EXTERNAL" /\ r.kind = kind /\ r.status = "PENDING"
            /\ r.attempts = 0 /\ r.amount = minor /\ r.metadata = metadata
            /\ r.ref = ref /\ r.balance = NULL /\ r.code = NULL
        BY DEF A!Columns
      <4> HIDE DEF r
      <4> QED BY <2>1, <2>2, <4>1 DEF A!Checks, A!Statuses, A!Reversal
    <3>2. A!Loadable(A!Columns(t))
      BY <2>1, <2>2 DEF A!Loadable, A!Columns, A!Statuses, A!Reversal
    <3> QED BY <3>1, <3>2
  <2> QED BY <2>1, <2>3, <2>4, InMemory DEF Sound
<1>2. ASSUME NEW minor \in Minors, NEW currency \in Currencies,
             A!NewOpening([minor |-> minor, currency |-> currency])
      PROVE  AggregateInv'
  <2> DEFINE money == [minor |-> minor, currency |-> currency]
             t == [origin |-> "INTERNAL", metadata |-> {}, kind |-> "OPENING",
                   amount |-> money, ref |-> NULL, refTx |-> NULL,
                   status |-> "PROCESSED", code |-> NULL, balance |-> money,
                   attempts |-> 0, next |-> NULL]
  <2>1. row = NoTx /\ tx' = t /\ UNCHANGED <<row, saved, refused>> /\ minor > 0
    BY <1>2 DEF A!NewOpening
  <2>2. minor \in Int /\ money \in A!Money
    BY AggregateAssumption DEF A!Money
  <2>3. money # NULL
    BY <2>2, AggregateAssumption
  <2>4. t \in A!Transaction
    BY <2>2 DEF A!Transaction, A!Kinds, A!Statuses
  <2>5. A!Columns(t) =
          [origin |-> "INTERNAL", metadata |-> {}, kind |-> "OPENING",
           amount |-> minor, currency |-> currency, ref |-> NULL, refTx |-> NULL,
           status |-> "PROCESSED", code |-> NULL, balance |-> minor,
           attempts |-> 0, next |-> NULL]
    BY <2>3 DEF A!Columns
  <2>6. A!Checks(A!Columns(t)) /\ A!Loadable(A!Columns(t))
    <3> DEFINE r == A!Columns(t)
    <3>1. /\ r.origin = "INTERNAL" /\ r.kind = "OPENING" /\ r.status = "PROCESSED"
          /\ r.attempts = 0 /\ r.amount = minor /\ r.metadata = {}
          /\ r.ref = NULL /\ r.balance = minor /\ r.code = NULL
      BY <2>5
    <3>2. minor # NULL
      BY AggregateAssumption
    <3> HIDE DEF r
    <3>3. A!Checks(r)
      BY <2>1, <2>2, <3>1 DEF A!Checks, A!Statuses, A!Reversal, A!Kinds
    <3>4. A!Loadable(r)
      BY <3>1, <3>2 DEF A!Loadable
    <3> QED BY <3>3, <3>4 DEF r
  <2> QED BY <2>1, <2>4, <2>6, InMemory DEF Sound
<1> QED BY <1>1, <1>2

\* The methods that change it.
LEMMA MarkAggregate ==
  ASSUME AggregateInv,
         \/ A!MarkPendingReference \/ A!ScheduleRetry \/ A!SetReferenceResolution
         \/ \E minor \in Minors : A!MarkProcessed(minor)
         \/ \E code \in A!Codes \cup {NULL} : A!MarkRejected(code) \/ A!MarkFailed(code)
  PROVE  AggregateInv'
<1> DEFINE t == tx
           u == tx'
<1>1. tx # NoTx /\ UNCHANGED <<row, saved, refused>> /\ Sound(t)
  <2>1. tx # NoTx /\ UNCHANGED <<row, saved, refused>>
    <3>1. ASSUME NEW minor \in Minors, A!MarkProcessed(minor)
          PROVE  tx # NoTx /\ UNCHANGED <<row, saved, refused>>
      BY <3>1 DEF A!MarkProcessed, A!MayBecome
    <3>2. ASSUME NEW code \in A!Codes \cup {NULL}, A!MarkRejected(code) \/ A!MarkFailed(code)
          PROVE  tx # NoTx /\ UNCHANGED <<row, saved, refused>>
      BY <3>2 DEF A!MarkRejected, A!MarkFailed, A!MayBecome
    <3>3. CASE A!MarkPendingReference \/ A!ScheduleRetry \/ A!SetReferenceResolution
      BY <3>3 DEF A!MarkPendingReference, A!ScheduleRetry, A!SetReferenceResolution,
                  A!MayBecome
    <3> QED BY <3>1, <3>2, <3>3
  <2> QED BY <2>1 DEF AggregateInv
<1>2. t \in A!Transaction
  BY <1>1 DEF Sound
<1>3. /\ t.origin = "INTERNAL" => t.status = "PROCESSED"
      /\ t.status \in {"REJECTED", "FAILED"} <=> t.code # NULL
      /\ t.status = "PROCESSED" /\ t.kind # "LOSS" => t.balance # NULL
      /\ t.balance # NULL => t.balance.minor >= 0
  BY <1>1, SoundFields
<1>4. CASE A!MarkPendingReference
  <2>1. t.status \in {"PENDING", "PENDING_REFERENCE"}
        /\ u = [t EXCEPT !.status = "PENDING_REFERENCE"]
    BY <1>4 DEF A!MarkPendingReference, A!MayBecome, A!Waiting
  <2> HIDE DEF t, u
  <2>2. u \in A!Transaction
    BY <1>2, <2>1 DEF A!Transaction, A!Statuses
  <2>3. u.status = "PENDING_REFERENCE" /\ u.origin = t.origin /\ u.metadata = t.metadata
        /\ u.kind = t.kind /\ u.amount = t.amount /\ u.ref = t.ref /\ u.code = t.code
        /\ u.balance = t.balance
    BY <1>2, <2>1 DEF A!Transaction
  <2> QED BY <1>1, <1>3, <2>1, <2>2, <2>3, Transition DEF t, u
<1>5. CASE A!ScheduleRetry
  <2> DEFINE attempts == t.attempts + 1
  <2>1. t.attempts < 2 /\ u = [t EXCEPT !.attempts = attempts, !.next = "set"]
    BY <1>5 DEF A!ScheduleRetry
  <2> HIDE DEF t, u
  <2>2. u \in A!Transaction
    <3>1. attempts \in 0..2
      BY <1>2, <2>1 DEF A!Transaction
    <3> HIDE DEF attempts
    <3> QED BY <1>2, <2>1, <3>1 DEF A!Transaction
  <2>3. u.status = t.status /\ u.origin = t.origin /\ u.metadata = t.metadata
        /\ u.kind = t.kind /\ u.amount = t.amount /\ u.ref = t.ref /\ u.code = t.code
        /\ u.balance = t.balance
    BY <1>2, <2>1 DEF A!Transaction
  <2> QED BY <1>1, <1>3, <2>2, <2>3, Transition DEF t, u
<1>6. CASE A!SetReferenceResolution
  <2>1. u = [t EXCEPT !.refTx = "resolved"]
    BY <1>6 DEF A!SetReferenceResolution
  <2> HIDE DEF t, u
  <2>2. u \in A!Transaction
    BY <1>2, <2>1 DEF A!Transaction
  <2>3. u.status = t.status /\ u.origin = t.origin /\ u.metadata = t.metadata
        /\ u.kind = t.kind /\ u.amount = t.amount /\ u.ref = t.ref /\ u.code = t.code
        /\ u.balance = t.balance
    BY <1>2, <2>1 DEF A!Transaction
  <2> QED BY <1>1, <1>3, <2>2, <2>3, Transition DEF t, u
<1>7. ASSUME NEW minor \in Minors, A!MarkProcessed(minor) PROVE AggregateInv'
  <2> DEFINE balance == [minor |-> minor, currency |-> t.amount.currency]
  <2>1. t.status \in {"PENDING", "PENDING_REFERENCE"} /\ minor >= 0
        /\ u = [t EXCEPT !.status = "PROCESSED", !.code = NULL, !.next = NULL,
                         !.balance = balance]
    BY <1>7 DEF A!MarkProcessed, A!MayBecome, A!Waiting
  <2> HIDE DEF t, u
  <2>2. balance \in A!Money /\ balance # NULL /\ balance.minor >= 0
    BY <1>2, <2>1, AggregateAssumption DEF A!Transaction, A!Money
  <2> HIDE DEF balance
  <2>3. u \in A!Transaction
    BY <1>2, <2>1, <2>2 DEF A!Transaction, A!Statuses
  <2>4. u.status = "PROCESSED" /\ u.origin = t.origin /\ u.metadata = t.metadata
        /\ u.kind = t.kind /\ u.amount = t.amount /\ u.ref = t.ref /\ u.code = NULL
        /\ u.balance = balance
    BY <1>2, <2>1 DEF A!Transaction
  <2> QED BY <1>1, <1>3, <2>1, <2>2, <2>3, <2>4, Transition DEF t, u
<1>8. ASSUME NEW code \in A!Codes \cup {NULL}, A!MarkRejected(code) PROVE AggregateInv'
  <2>1. PICK balance \in A!RejectedBalance(code) :
          u = [t EXCEPT !.status = "REJECTED", !.code = code, !.balance = balance,
                        !.next = NULL]
    BY <1>8 DEF A!MarkRejected
  <2>2. t.status \in {"PENDING", "PENDING_REFERENCE"} /\ code \in A!Codes /\ code # NULL
    BY <1>8, AggregateAssumption
       DEF A!MarkRejected, A!MayBecome, A!Waiting, A!RejectionCodes, A!Codes
  <2>3. balance \in A!Money \cup {NULL} /\ (balance # NULL => balance.minor >= 0)
    BY AggregateAssumption DEF A!RejectedBalance, A!Money
  <2> HIDE DEF t, u
  <2>4. u \in A!Transaction
    BY <1>2, <2>1, <2>2, <2>3 DEF A!Transaction, A!Statuses
  <2>5. u.status = "REJECTED" /\ u.origin = t.origin /\ u.metadata = t.metadata
        /\ u.kind = t.kind /\ u.amount = t.amount /\ u.ref = t.ref /\ u.code = code
        /\ u.balance = balance
    BY <1>2, <2>1 DEF A!Transaction
  <2> QED BY <1>1, <1>3, <2>2, <2>3, <2>4, <2>5, Transition DEF t, u
<1>9. ASSUME NEW code \in A!Codes \cup {NULL}, A!MarkFailed(code) PROVE AggregateInv'
  <2>1. t.status \in {"PENDING", "PENDING_REFERENCE"} /\ code # NULL
        /\ u = [t EXCEPT !.status = "FAILED", !.code = code, !.next = NULL]
    BY <1>9 DEF A!MarkFailed, A!MayBecome, A!Waiting
  <2> HIDE DEF t, u
  <2>2. u \in A!Transaction
    BY <1>2, <2>1 DEF A!Transaction, A!Statuses
  <2>3. u.status = "FAILED" /\ u.origin = t.origin /\ u.metadata = t.metadata
        /\ u.kind = t.kind /\ u.amount = t.amount /\ u.ref = t.ref /\ u.code = code
        /\ u.balance = t.balance
    BY <1>2, <2>1 DEF A!Transaction
  <2> QED BY <1>1, <1>3, <2>1, <2>2, <2>3, Transition DEF t, u
<1> QED BY <1>4, <1>5, <1>6, <1>7, <1>8, <1>9

\* INSERT takes every sound transaction.
LEMMA InsertAggregate == AggregateInv /\ A!Insert => AggregateInv'
<1> SUFFICES ASSUME AggregateInv, A!Insert PROVE AggregateInv'
  OBVIOUS
<1>1. tx # NoTx /\ tx' = tx /\ Sound(tx)
  BY DEF A!Insert, AggregateInv
<1>2. row' = A!Columns(tx) /\ saved' = tx /\ refused' = refused
  BY <1>1 DEF A!Insert, Sound
<1>3. tx \in A!Transaction /\ SoundRow(A!Columns(tx)) /\ Keeps(A!Columns(tx), tx)
  BY <1>1, ColumnsAreRows DEF Sound, SoundRow
<1> QED BY <1>1, <1>2, <1>3 DEF AggregateInv, Keeps

\* UPDATE writes the columns of the transaction in memory.
LEMMA UpdateAggregate == AggregateInv /\ A!Update => AggregateInv'
<1> SUFFICES ASSUME AggregateInv, A!Update PROVE AggregateInv'
  OBVIOUS
<1> DEFINE t == tx
           r == row
<1>1. /\ tx # NoTx /\ row # NoTx /\ tx' = tx /\ Sound(t)
      /\ SoundRow(r) /\ SameOperation(r, t) /\ r.status \in {"PENDING", "PENDING_REFERENCE"}
  BY DEF A!Update, AggregateInv, A!Updatable, A!Waiting
<1>2. t \in A!Transaction /\ A!Columns(t) \in A!Row /\ Keeps(A!Columns(t), t)
  BY <1>1, ColumnsAreRows DEF Sound
<1>3. A!Overwritten(r, t) = A!Columns(t)
  <2> DEFINE c == A!Columns(t)
  <2>1. A!Overwritten(r, t) =
          [c EXCEPT !.origin = r.origin, !.metadata = r.metadata, !.kind = r.kind,
                    !.amount = r.amount, !.currency = r.currency, !.ref = r.ref]
    BY DEF A!Overwritten
  <2>2. /\ r.origin = c.origin /\ r.metadata = c.metadata /\ r.kind = c.kind
        /\ r.amount = c.amount /\ r.currency = c.currency /\ r.ref = c.ref
    BY <1>1, <1>2 DEF SameOperation, Keeps
  <2>3. c \in A!Row
    BY <1>2
  <2> HIDE DEF c, r, t
  <2>4. [c EXCEPT !.origin = r.origin, !.metadata = r.metadata, !.kind = r.kind,
                  !.amount = r.amount, !.currency = r.currency, !.ref = r.ref] = c
    BY <2>2, <2>3 DEF A!Row
  <2> QED BY <2>1, <2>4 DEF c
<1>4. r.status \notin A!Terminal /\ A!Checks(A!Columns(t)) /\ A!Loadable(A!Columns(t))
  BY <1>1 DEF A!Terminal, Sound
<1>5. row' = A!Columns(t) /\ saved' = t /\ refused' = refused
  BY <1>3, <1>4 DEF A!Update
<1> QED BY <1>1, <1>2, <1>4, <1>5 DEF AggregateInv, SoundRow, Keeps

\* The processing of a reference wakes the row and nothing else.
LEMMA WakeAggregate == AggregateInv /\ A!Wake => AggregateInv'
<1> SUFFICES ASSUME AggregateInv, A!Wake PROVE AggregateInv'
  OBVIOUS
<1> DEFINE s == saved
           r == row
           u == row'
           v == saved'
<1>1. /\ tx = NoTx /\ tx' = tx /\ refused' = refused
      /\ u = [r EXCEPT !.next = "set"] /\ v = [s EXCEPT !.next = "set"]
      /\ SoundRow(r) /\ s \in A!Transaction /\ Keeps(r, s)
  BY DEF A!Wake, AggregateInv
<1> HIDE DEF s, r, u, v
<1>2. u \in A!Row /\ v \in A!Transaction
  BY <1>1 DEF SoundRow, A!Row, A!Transaction
<1>3. Keeps(u, v)
  BY <1>1 DEF SoundRow, A!Row, A!Transaction, Keeps, SameOperation
<1>4. A!Checks(u) /\ A!Loadable(u)
  BY <1>1 DEF SoundRow, A!Row, A!Checks, A!Loadable
<1> QED BY <1>1, <1>2, <1>3, <1>4 DEF AggregateInv, SoundRow, u, v

\* What is read is sound.
LEMMA LoadAggregate == AggregateInv /\ A!Load => AggregateInv'
<1> SUFFICES ASSUME AggregateInv, A!Load PROVE AggregateInv'
  OBVIOUS
<1> DEFINE r == row
<1>1. row # NoTx /\ tx' = A!Loaded(r) /\ UNCHANGED <<row, saved, refused>> /\ SoundRow(r)
  BY DEF A!Load, AggregateInv
<1> HIDE DEF r
<1>2. /\ A!Loaded(r) \in A!Transaction /\ Keeps(r, A!Loaded(r))
      /\ A!Columns(A!Loaded(r)) = r
  BY <1>1, RowsLoad DEF SoundRow
<1>3. Sound(A!Loaded(r)) /\ SameOperation(r, A!Loaded(r))
  BY <1>1, <1>2 DEF Sound, SoundRow, Keeps
<1> QED BY <1>1, <1>3, InMemory DEF r

\* One step per action.
LEMMA NextAggregate == AggregateInv /\ [DomainNext]_<<call, loop, aggregate>> => AggregateInv'
<1> SUFFICES ASSUME AggregateInv, [DomainNext]_<<call, loop, aggregate>>
             PROVE  AggregateInv'
  OBVIOUS
<1>1. CASE UNCHANGED aggregate
  BY <1>1 DEF aggregate, AggregateInv
<1>2. CASE A!Next
  <2>1. CASE A!Forget
    BY <2>1, InMemory DEF A!Forget
  <2> QED
    BY <1>2, <2>1, CreateAggregate, MarkAggregate, InsertAggregate, UpdateAggregate,
       WakeAggregate, LoadAggregate DEF A!Next
<1> QED BY <1>1, <1>2 DEF DomainNext

\* Transactions that differ in their balances only.
LEMMA SameButBalance ==
  ASSUME NEW t \in A!Transaction, NEW s \in A!Transaction,
         /\ t.origin = s.origin /\ t.metadata = s.metadata /\ t.kind = s.kind
         /\ t.amount = s.amount /\ t.ref = s.ref /\ t.refTx = s.refTx
         /\ t.status = s.status /\ t.code = s.code /\ t.attempts = s.attempts
         /\ t.next = s.next
  PROVE  [t EXCEPT !.balance = NULL] = [s EXCEPT !.balance = NULL]
<1> DEFINE Bare(u) ==
      [origin |-> u.origin, metadata |-> u.metadata, kind |-> u.kind,
       amount |-> u.amount, ref |-> u.ref, refTx |-> u.refTx,
       status |-> u.status, code |-> u.code, balance |-> NULL,
       attempts |-> u.attempts, next |-> u.next]
<1>1. ASSUME NEW u \in A!Transaction PROVE [u EXCEPT !.balance = NULL] = Bare(u)
  <2>1. u = [origin |-> u.origin, metadata |-> u.metadata, kind |-> u.kind,
             amount |-> u.amount, ref |-> u.ref, refTx |-> u.refTx,
             status |-> u.status, code |-> u.code, balance |-> u.balance,
             attempts |-> u.attempts, next |-> u.next]
    BY DEF A!Transaction
  <2> QED BY <2>1
<1>2. Bare(t) = Bare(s)
  OBVIOUS
<1>3. [t EXCEPT !.balance = NULL] = Bare(t) /\ [s EXCEPT !.balance = NULL] = Bare(s)
  BY <1>1
<1> HIDE DEF Bare
<1> QED BY <1>2, <1>3

\* What is read of a sound row is what was written.
LEMMA SoundComesBack == AggregateInv => ComesBack
<1> SUFFICES ASSUME AggregateInv, row # NoTx
             PROVE  LET t == A!Loaded(row) IN
                    /\ A!Loadable(row)
                    /\ [t EXCEPT !.balance = NULL] = [saved EXCEPT !.balance = NULL]
                    /\ t.balance = NULL <=> saved.balance = NULL
                    /\ t.balance # NULL => t.balance.minor = saved.balance.minor
  BY DEF ComesBack, A!ComesBack
<1> DEFINE r == row
           s == saved
           t == A!Loaded(r)
<1>1. SoundRow(r) /\ s \in A!Transaction /\ Keeps(r, s)
  BY DEF AggregateInv
<1>2. t \in A!Transaction /\ Keeps(r, t)
  BY <1>1, RowsLoad DEF SoundRow
<1> HIDE DEF r, s, t
<1>3. t.amount = s.amount
  <2>1. t.amount = [minor |-> t.amount.minor, currency |-> t.amount.currency]
    BY <1>2 DEF A!Transaction, A!Money
  <2>2. s.amount = [minor |-> s.amount.minor, currency |-> s.amount.currency]
    BY <1>1 DEF A!Transaction, A!Money
  <2>3. t.amount.minor = s.amount.minor /\ t.amount.currency = s.amount.currency
    BY <1>1, <1>2 DEF Keeps, SameOperation
  <2> QED BY <2>1, <2>2, <2>3
<1>4. /\ t.balance = NULL <=> s.balance = NULL
      /\ t.balance # NULL => t.balance.minor = s.balance.minor
  <2>1. /\ t.balance # NULL => t.balance.minor \in Int
        /\ s.balance # NULL => s.balance.minor \in Int
    BY <1>1, <1>2 DEF A!Transaction, A!Money
  <2>2. /\ r.balance = IF t.balance = NULL THEN NULL ELSE t.balance.minor
        /\ r.balance = IF s.balance = NULL THEN NULL ELSE s.balance.minor
    BY <1>1, <1>2 DEF Keeps
  <2>3. NULL \notin Int
    BY AggregateAssumption
  <2> QED BY <2>1, <2>2, <2>3
<1>5. [t EXCEPT !.balance = NULL] = [s EXCEPT !.balance = NULL]
  <2>1. /\ t.origin = s.origin /\ t.metadata = s.metadata /\ t.kind = s.kind
        /\ t.amount = s.amount /\ t.ref = s.ref /\ t.refTx = s.refTx
        /\ t.status = s.status /\ t.code = s.code /\ t.attempts = s.attempts
        /\ t.next = s.next
    BY <1>1, <1>2, <1>3 DEF Keeps, SameOperation
  <2> QED BY <1>1, <1>2, <2>1, SameButBalance
<1> QED BY <1>1, <1>4, <1>5 DEF SoundRow, r, s, t

\* No order of the calls the aggregate allows writes a row that a CHECK or the
\* trigger refuses (the Mark methods against 0001_init.up.sql).
THEOREM NothingIsRefused == DomainSpec => []NeverRefused
<1>1. DomainInit => AggregateInv
  BY InitAggregate DEF DomainInit
<1>2. AggregateInv => NeverRefused
  BY DEF AggregateInv, NeverRefused, A!NeverRefused
<1> QED BY <1>1, <1>2, NextAggregate, PTL DEF DomainSpec

\* Every row can be read, and is read as the transaction it was written from
\* (Insert and Update against scanTransaction and Rehydrate).
THEOREM EverythingComesBack == DomainSpec => []ComesBack
<1>1. DomainInit => AggregateInv
  BY InitAggregate DEF DomainInit
<1> QED BY <1>1, SoundComesBack, NextAggregate, PTL DEF DomainSpec
=============================================================================
