------------------------------ MODULE MCWagerApi ------------------------------
(* Two providers, the internal service and a token without the claim.  Alice *)
(* repeats a request under another key and with another amount, and shares   *)
(* one key between two operations.                                           *)
EXTENDS WagerApi, TLC

CONSTANTS alice, bob, ops, nameless, pa, pb

MCClients == {alice, bob, ops, nameless}
MCProviders == {pa, pb}
MCRoles == [c \in MCClients |-> IF c = ops THEN {"internal"} ELSE {"provider"}]
MCClaim == [c \in MCClients |-> CASE c = alice -> pa [] c = bob -> pb
                                  [] OTHER -> ""]

By(c, form, provider, ext, key, data) ==
  [by |-> c, form |-> form, provider |-> provider, ext |-> ext, key |-> key,
   data |-> data]

MCRequests ==
  {By(alice, "good", pa, "x", "k", "a"), By(alice, "good", pa, "x", "l", "a"),
   By(alice, "good", pa, "x", "k", "b"), By(alice, "good", pa, "y", "k", "a"),
   By(alice, "bad field", pa, "y", "l", "a"),
   By(bob, "good", pb, "x", "k", "a"), By(bob, "good", pa, "x", "k", "a"),
   By(nameless, "good", pa, "y", "l", "a"), By(ops, "good", pa, "x", "k", "a"),
   By(bob, "no key", pb, "x", "k", "a")}
Symmetry == Permutations(Handlers)
=============================================================================
