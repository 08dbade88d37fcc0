SPECIFICATION FairSpec
CONSTANTS
  Rows = {"win", "refund", "undo"}
  Ref <- Waiting
  Poison = {}
  Resolvers = {r1, r2}
  Batch = 2
  MaxAttempts = 3
  MaxMishaps = 1
  None = None
PROPERTIES NoSecondTurn OthersSettle
