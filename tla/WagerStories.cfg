SPECIFICATION StoriesSpec
CONSTANTS
  Wallets <- OneWallet
  WalletIds = {"w", "unknown"}
  Players = {"ann", "bob"}
  Currencies = {"BRL", "USD"}
  Rounds = {"r1", "r2"}
  Player <- AnnOwns
  Currency <- InReais
  Opening <- TenMinor
  NoRef = NoRef
  NoCommand = NoCommand
  Stories <- SafetyStories
  Commands <- AllCommands
  ExternalIds <- AllIds
  Keys <- AllKeys
  MaxMinor = 20
  Servers = {s1, s2}
  Resolvers = {v1, v2}
  MaxWalletRetries = 1
  ReferenceMaxAttempts = 2
  MaxSubmissions = 2
  MaxCrashes = 1
SYMMETRY AnyProcess
INVARIANTS TypeOK LedgerChain ExactlyOnce SingleReversal
INVARIANTS RepliesPersisted KeysUnique OutboxMatchesTables SomeoneRuns
PROPERTIES TerminalIsFinal KeepsPromise
\* The system stops once the clients have submitted all they will.
CHECK_DEADLOCK FALSE
