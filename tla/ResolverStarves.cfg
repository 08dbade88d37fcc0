SPECIFICATION FairSpec
CONSTANTS
  Rows = {"win", "refund"}
  Ref <- WaitingTwo
  Poison = {"win"}
  Resolvers = {r1}
  Batch = 2
  MaxAttempts = 3
  MaxMishaps = 0
  None = None
PROPERTIES OthersSettle
