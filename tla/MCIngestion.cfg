SPECIFICATION Spec
CONSTANTS
  s1 = s1  s2 = s2
  blockA = blockA  blockB = blockB  blockC = blockC  blockD = blockD
  NoRow = NoRow
  Signers = {s1, s2}
  Hashes = {blockA, blockB, blockC, blockD}
  Cycles <- MCCycles
  Header <- MCHeader
  Messages <- ForkMessages
  PoxInfos <- MCPoxInfos
  RpcSigners <- MCRpcSigners
  MaxStream = 4
  MaxCrashes = 1
  MaxFailures = 1
  MaxLost = 1
INVARIANTS
  TypeOK
  BlocksIngestedOnce
  NoMessageLost
  AnnouncedOnceAndDurable
  CountersBacked
PROPERTIES
  StatusNeverReverts
