SPECIFICATION FairSpec
CONSTANTS
  block = block  chunk = chunk  broken = broken
  parsedBlock = parsedBlock  parsedChunk = parsedChunk
  NoResult = NoResult
  Bodies = {block, chunk, broken}
  Parse <- MCParse
  MaxCalls = 4
INVARIANTS
  TypeOK
  WaitersAreOpenCalls
  OpenCallsAreUnderWay
  RepliesAreExpected
PROPERTIES
  ParsableCallsReturn
  ImplementsParser
\* Calls that wait for a body that cannot be parsed wait for ever.
CHECK_DEADLOCK FALSE
