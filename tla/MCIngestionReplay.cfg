SPECIFICATION FairSpec
CONSTANTS
  s1 = s1  s2 = s2
  blockA = blockA  blockB = blockB  blockC = blockC  blockD = blockD
  NoRow = NoRow
  Signers = {s1, s2}
  Hashes = {blockA, blockB, blockC, blockD}
  Cycles <- MCCycles
  Header <- MCHeader
  Messages <- ReplayMessages
  PoxInfos <- MCPoxInfos
  RpcSigners <- MCRpcSigners
  MaxStream = 3
  MaxCrashes = 2
  MaxFailures = 1
  MaxLost = 0
INVARIANTS
  HalfAppliedSetsAreReplayed
PROPERTIES
  StreamDrains
  HalfAppliedSetsHeal
