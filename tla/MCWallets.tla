------------------------------ MODULE MCWallets ------------------------------
(***************************************************************************)
(* Small instances of WalletAccounts and of LedgerPages, the second for a   *)
(* wallet of its own: a behaviour opens, moves and reconciles wallets, or   *)
(* reads the ledger of one that moves.                                      *)
(***************************************************************************)
EXTENDS LedgerPages, TLC

CONSTANTS Owners, Requests, Owner, Initial, Amounts, MaxMinor, MaxMovements,
  MaxCrashes, NoOne

ASSUME AccountsAssumption ==
  /\ MaxMinor \in Nat
  /\ Owner \in [Requests -> Owners]
  /\ Initial \in [Requests -> 0..MaxMinor]
  /\ Amounts \subseteq Int
  /\ \A amount \in Amounts : amount # 0 /\ amount <= MaxMinor
  /\ MaxMovements \in Nat /\ MaxCrashes \in Nat
  /\ NoOne \notin Requests

VARIABLES wallets, accounts, outbox, pc, reply, audit, crashes

office == <<wallets, accounts, outbox, pc, reply, audit, crashes>>

Accounts == INSTANCE WalletAccounts WITH ledger <- accounts

\* Three clients: two race to open one wallet with different balances and one
\* opens an empty one.
RacingOwners == ("r1" :> "ann" @@ "r2" :> "ann" @@ "r3" :> "bob")
RacingBalances == ("r1" :> 3 @@ "r2" :> 5 @@ "r3" :> 0)
GainAndLoss == {-2, 3}

WalletsInit == Init /\ Accounts!Init

Unread   == clock = 1 /\ begun = [o \in Operations |-> None] /\ ledger = <<>>
            /\ cursor = End /\ read = <<>>
Unopened == crashes = 0 /\ pc = [r \in Requests |-> "idle"]
            /\ reply = [r \in Requests |-> "none"]

WalletsNext ==
  \/ Unread /\ UNCHANGED vars /\ Accounts!Next
  \/ Unopened /\ UNCHANGED office /\ Next

WalletsSpec == WalletsInit /\ [][WalletsNext]_<<vars, office>>

\* The properties of WalletAccounts, stated there.
OpenedOnce   == Accounts!OpenedOnce
NoFalseAlarm == Accounts!NoFalseAlarm
=============================================================================
