SPECIFICATION FairSpec
CONSTANTS
  Entries = {"bet", "copy", "forged", "broken", "lost"}
  Body <- Bodies
  MessageIds = {"i1", "i2"}
  ExternalIds = {"x1", "x2"}
  Payloads = {"ten", "six"}
  Groups = {"w1", "w2"}
  Consumers = {c1, c2}
  MaxMessages = 2
  MaxReceiveCount = 2
  MaxSent = 2
  MaxMishaps = 2
  None = None
INVARIANTS NothingDropped VerdictsStand
PROPERTIES EveryEntryLeaves KeepsIntake
\* Every entry may have left the queue.
CHECK_DEADLOCK FALSE
