SPECIFICATION FairSpec
CONSTANTS
  regtest = regtest  mainnet = mainnet  testnet = testnet
  NoRow = NoRow
  Unknown = Unknown
  PoxInfos <- MCPoxInfos
  MaxChanges = 2
  MaxFailures = 3
INVARIANTS
  TypeOK
  SlowOnlyUnread
PROPERTIES
  PoxInfoConverges
  CloseEndsJob
CHECK_DEADLOCK FALSE
