---------------------------- MODULE MCResolverQueue ----------------------------
(***************************************************************************)
(* Parked operations: a REFUND whose BET may come or not, a ROLLBACK of that *)
(* REFUND, and a WIN.                                                        *)
(***************************************************************************)
EXTENDS ResolverQueue, TLC

Waiting == ("win" :> None @@ "refund" :> None @@ "undo" :> "refund")

WaitingTwo == ("win" :> None @@ "refund" :> None)
=============================================================================
