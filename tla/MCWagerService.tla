---------------------------- MODULE MCWagerService ----------------------------
(***************************************************************************)
(* Small instances of WagerService.  One wallet "w" of player "ann" in BRL  *)
(* holding 10.  A behaviour tells one of Stories: a few commands that        *)
(* compete for the wallet, how often the clients submit each, and how many   *)
(* transactions a crash may cut short.                                       *)
(***************************************************************************)
EXTENDS WagerService, TLC

CONSTANT Stories

OneWallet == {"w"}
AnnOwns   == ("w" :> "ann")
InReais   == ("w" :> "BRL")
TenMinor  == ("w" :> 10)

Op(ext, kind, amount, ref) ==
  [ext |-> ext, key |-> ext, kind |-> kind, wallet |-> "w", player |-> "ann",
   currency |-> "BRL", round |-> "r1", amount |-> amount, ref |-> ref]

Story(S, n, k) == [commands |-> S, times |-> n, crashes |-> k]

Bet(amount) == Op("bet", "BET", amount, NoRef)

\* A BET and two reversals that compete to return its stake.
TwoReversals ==
  {Bet(6), Op("x", "REFUND", 6, "bet"), Op("y", "ROLLBACK", 6, "bet")}

\* The same with a second REFUND.
Rivals == TwoReversals \cup {Op("z", "REFUND", 6, "bet")}

\* Two debits of which the wallet can pay one, and two credits of which it
\* can hold one unless a debit made room.
Spending ==
  {Bet(8), Op("x", "BET", 8, NoRef),
   Op("y", "WIN", 9, NoRef), Op("z", "WIN", 9, NoRef)}

\* One operation under two keys, with another payload, and another operation
\* under its key.
Keyed ==
  {Bet(6), Bet(7), [Bet(6) EXCEPT !.key = "z"],
   [Op("x", "BET", 3, NoRef) EXCEPT !.key = "bet"]}

\* A BET, its WIN, the ROLLBACK of that WIN, and a second BET that may spend
\* the money the ROLLBACK wants back.
Chain ==
  {Bet(6), Op("x", "WIN", 8, "bet"), Op("y", "ROLLBACK", 8, "x"),
   Op("z", "BET", 9, NoRef)}

\* A REFUND, its own ROLLBACK, and a late WIN on the same BET.
UndoneRefund ==
  {Bet(6), Op("x", "REFUND", 6, "bet"), Op("y", "ROLLBACK", 6, "x"),
   Op("z", "WIN", 8, "bet")}

\* References that do not fit: another round, another amount, a REFUND of a
\* REFUND; and a ROLLBACK of a ROLLBACK.
MisfitReferences ==
  {Bet(6), [Op("x", "REFUND", 6, "bet") EXCEPT !.round = "r2"],
   Op("y", "REFUND", 5, "bet"), Op("z", "REFUND", 5, "y")}
MisfitKinds ==
  {Bet(6), Op("x", "ROLLBACK", 6, "bet"), Op("y", "ROLLBACK", 6, "x")}

\* Another player's, another currency's and nobody's wallet, and a LOSS,
\* which only looks at the balance.
MisfitWallets ==
  {Op("bet", "LOSS", 0, NoRef),
   [Op("x", "BET", 1, NoRef) EXCEPT !.player = "bob"],
   [Op("y", "BET", 1, NoRef) EXCEPT !.currency = "USD"],
   [Op("z", "BET", 1, NoRef) EXCEPT !.wallet = "unknown"]}

\* References that never resolve: two operations that wait for each other and
\* one that waits for an operation nobody submits.
Endless ==
  {Op("x", "ROLLBACK", 6, "y"), Op("y", "ROLLBACK", 6, "x"),
   Op("z", "REFUND", 6, "bet")}

SafetyStories ==
  {Story(TwoReversals, 1, 1), Story(Rivals, 1, 0),
   Story(Spending, 1, 1), Story(Keyed, 2, 1),
   Story(Chain, 1, 0), Story(UndoneRefund, 1, 0),
   Story(MisfitReferences, 1, 0), Story(MisfitKinds, 1, 1),
   Story(MisfitWallets, 1, 0)}
SettlingStories == {Story(TwoReversals, 1, 1), Story(Endless, 1, 0)}

AllCommands == UNION {s.commands : s \in Stories}
AllIds == {c.ext : c \in AllCommands}
            \cup ({c.ref : c \in AllCommands} \ {NoRef})
AllKeys == {c.key : c \in AllCommands}

\* A story starts with the submissions and crashes it has no use for spent.
StoriesInit ==
  /\ StartUp
  /\ \E s \in Stories :
       /\ submissions = [c \in Commands |->
            IF c \in s.commands THEN MaxSubmissions - s.times
                                ELSE MaxSubmissions]
       /\ crashes = MaxCrashes - s.crashes

StoriesSpec     == StoriesInit /\ [][Next]_vars
FairStoriesSpec == StoriesSpec /\ Fairness

\* Servers do not differ, nor do resolvers.
AnyProcess == Permutations(Servers) \cup Permutations(Resolvers)
=============================================================================
