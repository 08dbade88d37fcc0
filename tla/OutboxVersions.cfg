SPECIFICATION Spec
CONSTANTS
  Events = {"balance2", "balance3"}
  Aggregates = {"wallet"}
  Aggregate <- OneWallet
  Publishers = {p1, p2}
  BatchSize = 2
  MaxMishaps = 2
  NoEvent = NoEvent
INVARIANTS VersionOrder
\* Every event may have been published for good.
CHECK_DEADLOCK FALSE
