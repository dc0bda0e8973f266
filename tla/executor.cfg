SPECIFICATION FairESpec
CONSTANTS
  Attempts = {1, 2}
  NumPartitions = 2
  Throttle = 2
  MaxRecords = 2
  MaxHandlers = 2
  MaxStops = 1
  Bufsize = 4
  InitCap = 0
  MaxLen = 2
  MaxBytes = 6
INVARIANTS
  OneStore
  CommittedStored
  ServedInOrder
  ServedComplete
  BufferReleased
PROPERTIES
  FetchEnds
CHECK_DEADLOCK FALSE
