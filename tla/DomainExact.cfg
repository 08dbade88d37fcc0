SPECIFICATION DomainSpec
CONSTANTS
  Half = 256
  Currencies = {"BRL", "USD"}
  Unset = "unset"
  Operands <- EveryAmount
  Texts <- EveryText
  Settings <- AnySetting
  DefaultBase = 2
  DefaultCap = 9
  MaxAttempt = 8
  Minors <- OneOfEachSign
  NULL = NULL
  NoTx = NoTx
INVARIANTS
  AmountsExact TextsExact DelaysRight NeverRefused ComesBack
\* A row of the outbox may have used up its attempts.
CHECK_DEADLOCK FALSE
