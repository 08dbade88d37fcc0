SPECIFICATION WalletsSpec
CONSTANTS
  Operations = {o1, o2, o3}
  MaxInstant = 2
  MaxLimit = 2
  None = None
  Owners = {"ann", "bob"}
  Requests = {"r1", "r2", "r3"}
  Owner <- RacingOwners
  Initial <- RacingBalances
  Amounts <- GainAndLoss
  MaxMinor = 6
  MaxMovements = 4
  MaxCrashes = 2
  NoOne = NoOne
INVARIANTS StablePages OpenedOnce NoFalseAlarm
