SPECIFICATION FairSpec
CONSTANTS
  early = early  good = good  lost1 = lost1  lost2 = lost2
  NoJob = NoJob
  Cycles <- MCCycles
  PrePox4 <- MCPrePox4
  Unavailable <- MCUnavailable
  Concurrency = 2
  MaxRequests = 5
  MaxFailures = 1
INVARIANTS
  TypeOK
  OneJobPerCycle
  QueuedIsPending
  QuietAfterStop
PROPERTIES
  RequestsSettle
  StopReturns
  ImplementsRequests
CHECK_DEADLOCK FALSE
