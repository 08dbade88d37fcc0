------------------------------ MODULE WagerLedger ------------------------------
(***************************************************************************)
(* What the wager service promises its clients, with no transaction,       *)
(* retry, lock or version in sight: operations are accepted under one key, *)
(* wait for their reference, and settle once.  Settling as processed is    *)
(* one atomic step that is justified by the state it is taken in; nothing  *)
(* is promised about when an operation may be rejected, since a rejection  *)
(* moves no money and may have been decided on an older state.             *)
(***************************************************************************)
EXTENDS WagerTypes

VARIABLES
  balance,   \* [Wallets -> 0..MaxMinor]
  accepted,  \* [ExternalIds -> Commands or NoCommand], the operations known
  state      \* [ExternalIds -> status], "ABSENT" while not accepted

ledgerVars == <<balance, accepted, state>>

Init ==
  /\ balance = [w \in Wallets |-> Opening[w]]
  /\ accepted = [e \in ExternalIds |-> NoCommand]
  /\ state = [e \in ExternalIds |-> "ABSENT"]

\* c may take effect now: it is new under an unused key, or it is the very
\* command that waits.
Admissible(c) ==
  IF state[c.ext] = "ABSENT"
  THEN /\ c.wallet \in Wallets
       /\ \A e \in ExternalIds : accepted[e] # NoCommand => accepted[e].key # c.key
  ELSE state[c.ext] = "PENDING_REFERENCE" /\ accepted[c.ext] = c

Succeeded(e) == state[e] = "PROCESSED"

\* The signed effect of c on its wallet.
Effect(c) ==
  CASE c.kind = "LOSS" -> 0
    [] c.kind = "BET" -> -c.amount
    [] c.kind \in {"WIN", "REFUND"} -> c.amount
    [] c.kind = "ROLLBACK" ->
         IF accepted[c.ref].kind = "BET" THEN c.amount ELSE -c.amount

\* The successes on a reference that rule out one more of the given kind.
Barring(kind) ==
  IF kind = "WIN" THEN {"WIN", "ROLLBACK"} ELSE {"REFUND", "ROLLBACK"}

\* c names a processed operation of its own player, wallet, currency and
\* round that c may act upon, and no earlier success stands in its way.
ReferenceHonoured(c) ==
  LET r == accepted[c.ref] IN
  /\ Succeeded(c.ref)
  /\ r.player = c.player /\ r.wallet = c.wallet
  /\ r.currency = c.currency /\ r.round = c.round
  /\ r.kind = "BET" \/ (c.kind = "ROLLBACK" /\ r.kind \in {"WIN", "REFUND"})
  /\ c.kind # "WIN" => c.amount = r.amount
  /\ \A e \in ExternalIds :
       (Succeeded(e) /\ accepted[e].ref = c.ref)
         => accepted[e].kind \notin Barring(c.kind)

Record(c, status) ==
  /\ accepted' = [accepted EXCEPT ![c.ext] = c]
  /\ state' = [state EXCEPT ![c.ext] = status]

Process(c) ==
  /\ Admissible(c)
  /\ c.ref # NoRef => ReferenceHonoured(c)
  /\ Player[c.wallet] = c.player /\ Currency[c.wallet] = c.currency
  /\ balance[c.wallet] + Effect(c) \in 0..MaxMinor
  /\ balance' = [balance EXCEPT ![c.wallet] = @ + Effect(c)]
  /\ Record(c, "PROCESSED")

\* Only an operation with a reference waits.
Wait(c) ==
  /\ Admissible(c) /\ c.ref # NoRef
  /\ Record(c, "PENDING_REFERENCE")
  /\ UNCHANGED balance

Reject(c) ==
  /\ Admissible(c)
  /\ Record(c, "REJECTED")
  /\ UNCHANGED balance

Next == \E c \in Commands : Process(c) \/ Wait(c) \/ Reject(c)

Spec == Init /\ [][Next]_ledgerVars
=============================================================================
