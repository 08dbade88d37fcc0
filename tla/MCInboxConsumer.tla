---------------------------- MODULE MCInboxConsumer ----------------------------
(***************************************************************************)
(* A small instance of InboxConsumer: five entries of which a behaviour    *)
(* sends a few, in any order.                                               *)
(***************************************************************************)
EXTENDS InboxConsumer, TLC

Message(id, ext, payload, group, fault) ==
  [id |-> id, ext |-> ext, payload |-> payload, group |-> group, fault |-> fault]

\* A bet, the producer's second copy of it, another operation under the same
\* message id, and messages no delivery can apply, both for the wallet
\* of the bet.  Either operation may also arrive over HTTP, with the same money
\* or with other money.
Bodies ==
  ("bet"    :> Message("i1", "x1", "ten", "w1", "none") @@
   "copy"   :> Message("i1", "x1", "ten", "w1", "none") @@
   "forged" :> Message("i1", "x2", "six", "w2", "none") @@
   "broken" :> Message("i1", "x1", "ten", "w1", "invalid") @@
   "lost"   :> Message("i2", "x2", "ten", "w1", "nowhere"))

\* Two operations of one wallet, sent one after the other.
BodiesOfOneWallet ==
  ("bet" :> Message("i1", "x1", "ten", "w1", "none") @@
   "win" :> Message("i2", "x2", "ten", "w1", "none"))
=============================================================================
