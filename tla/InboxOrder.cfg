SPECIFICATION Spec
CONSTANTS
  Entries = {"bet", "win"}
  Body <- BodiesOfOneWallet
  MessageIds = {"i1", "i2"}
  ExternalIds = {"x1", "x2"}
  Payloads = {"ten", "six"}
  Groups = {"w1"}
  Consumers = {c1}
  MaxMessages = 2
  MaxReceiveCount = 2
  MaxSent = 2
  MaxMishaps = 1
  None = None
INVARIANT GroupOrder
\* Every entry may have left the queue.
CHECK_DEADLOCK FALSE
