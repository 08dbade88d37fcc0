--------------------------- MODULE MCOutboxPublisher ---------------------------
(***************************************************************************)
(* Small instances of OutboxPublisher: a wallet with two or three balance   *)
(* changes and a transaction with one event.                                *)
(***************************************************************************)
EXTENDS OutboxPublisher, TLC

OneWallet == ("balance2" :> "wallet" @@ "balance3" :> "wallet")

WalletAndTransaction == OneWallet @@ ("processed" :> "tx")
=============================================================================
