SPECIFICATION BootFairSpec
CONSTANTS
  MaxMessages = 2
  MaxRequests = 2
  Versions = {1, 2}
  Instances = {"a", "b"}
  Me = "a"
  Operators = {"o"}
  Steps = 1
  MaxMishaps = 1
  Settings <- OldAndNew
  MaxTries = 1
INVARIANTS
  PoolOutlivesWork CleanStop SomeoneComesUp RecordTellsSchema ExitsExplained
PROPERTIES StopCompletes StartsEnd
\* Every process may have exited.
CHECK_DEADLOCK FALSE
