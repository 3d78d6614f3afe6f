SPECIFICATION Spec
CONSTANTS
  Chunks <- MCChunks
  Encoded <- MCEncoded
INVARIANTS
  TypeOK
  CompleteBlocks
  SlotsRoundTrip
  HashCoversHeader
CHECK_DEADLOCK FALSE
