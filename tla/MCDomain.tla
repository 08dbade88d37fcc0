------------------------------- MODULE MCDomain -------------------------------
(***************************************************************************)
(* The sequential code: the arithmetic of money, the delays between         *)
(* attempts, and a transaction with its row.  They share no state, so one   *)
(* is looked at at a time.                                                  *)
(*                                                                         *)
(* A word of 9 bits is wide enough for two digits of minor units: every     *)
(* pair of amounts, and texts and durations around the ends of the range.   *)
(***************************************************************************)
EXTENDS Money, Backoff

CONSTANTS Minors, NULL, NoTx

VARIABLES tx, row, saved, refused

aggregate == <<tx, row, saved, refused>>

A == INSTANCE WagerAggregate
       WITH Amounts <- Minors, MaxAttempts <- 2

ASSUME AggregateAssumption ==
  /\ Minors \subseteq Int
  /\ NULL \notin Int \cup A!Codes \cup A!Money
  /\ NoTx # NULL

\* Every amount in reais, and a few of another currency or of none.
EveryAmount ==
  [amount : Int64, currency : {"BRL"}]
  \cup [amount : {-Half, -1, 0, 1, Half - 1}, currency : {"USD", Unset}]

\* Every text around both ends of the range and around uint64's end.
EveryText ==
  {t \in [negative : BOOLEAN,
          major : 0..((Half \div 100) + 2) \cup {2 * Half - 1, 2 * Half},
          places : 0..2, digits : 0..99] :
     /\ t.places = 0 => t.digits = 0
     /\ t.places = 1 => t.digits < 10}

\* Durations around zero, the middle of the range and its ends.
AnySetting ==
  {-Half, -Half \div 2} \cup -2..12 \cup {Half - 1}
  \cup (Half \div 2 - 2)..(Half \div 2 + 1)
  \cup (Half \div 4 - 1)..(Half \div 4 + 1)

OneOfEachSign == -1..1

DomainInit == Init /\ BackoffInit /\ A!Init

NoDelay == pc = "new"
NoRow   == tx = NoTx /\ row = NoTx

DomainNext ==
  \/ NoDelay /\ NoRow /\ UNCHANGED <<loop, aggregate>> /\ Next
  \/ call = NoCall /\ NoRow /\ UNCHANGED <<call, aggregate>> /\ BackoffNext
  \/ call = NoCall /\ NoDelay /\ UNCHANGED <<call, loop>> /\ A!Next

DomainSpec == DomainInit /\ [][DomainNext]_<<call, loop, aggregate>>

\* The properties of WagerAggregate, stated there.
NeverRefused == A!NeverRefused
ComesBack    == A!ComesBack
=============================================================================
