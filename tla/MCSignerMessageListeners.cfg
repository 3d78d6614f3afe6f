SPECIFICATION ListenersSpec
CONSTANTS
  s1 = s1  s2 = s2
  a = a  b = b
  blockA = blockA  blockB = blockB  blockC = blockC  blockD = blockD
  NoRow = NoRow
  Signers = {s1, s2}
  Hashes = {blockA, blockB, blockC, blockD}
  Cycles <- MCCycles
  Header <- MCHeader
  Messages <- ListenerMessages
  PoxInfos = {}
  RpcSigners <- MCRpcSigners
  MaxStream = 2
  MaxCrashes = 1
  MaxFailures = 0
  MaxLost = 0
  Clients = {a, b}
  EnableListenNotify = TRUE
  BatchSize = 2
  MaxFailedBroadcasts = 1
  MaxFailedNotifies = 1
INVARIANTS
  ListenersTypeOK
  BroadcastsFollowCommits
  AnnouncedRowsAreShown
  FailedNotifiesLoseOneBatch
SYMMETRY ClientSymmetry
