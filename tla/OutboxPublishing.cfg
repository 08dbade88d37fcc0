SPECIFICATION FairSpec
CONSTANTS
  Events = {"balance2", "balance3", "processed"}
  Aggregates = {"wallet", "tx"}
  Aggregate <- WalletAndTransaction
  Publishers = {p1, p2}
  BatchSize = 2
  MaxMishaps = 1
  NoEvent = NoEvent
INVARIANTS OrderKept DuplicatesExplained
PROPERTIES DeliversStream EventuallyPublished
\* Every event may have been published for good.
CHECK_DEADLOCK FALSE
