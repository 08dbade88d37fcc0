----------------------------- MODULE MCBootstrap -----------------------------
(* Two processes that start, with different attributes for the queues.      *)
EXTENDS Bootstrap

OldAndNew == [s \in Instances |-> IF s = "a" THEN "old" ELSE "new"]
=============================================================================
