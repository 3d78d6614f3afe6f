SPECIFICATION Spec
CONSTANTS
  s1 = s1  s2 = s2
  blockA = blockA  blockB = blockB  blockC = blockC  blockD = blockD
  NoRow = NoRow
  NoDate = NoDate
  Signers = {s1, s2}
  Hashes = {blockA, blockB, blockC, blockD}
  Cycles <- MCCycles
  Header <- MCHeader
  SignedBy <- MCSignedBy
  MoreThanAnHour <- MCMoreThanAnHour
  Messages <- SignedMessages
  PoxInfos <- MCPoxInfos
  RpcSigners <- MCRpcSigners
  MaxStream = 2
  MaxCrashes = 0
  MaxFailures = 0
  MaxLost = 0
INVARIANTS
  MissingWithinTotal
