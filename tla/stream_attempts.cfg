SPECIFICATION SSpec
CONSTANTS
  Attempts = {1, 2}
  Speculation = TRUE
  SpillThrottles <- MCThrottles
  BufCap = 3
  SerCap = 1
  MaxRecord = 2
  MaxBytes <- MCMaxBytes
INVARIANTS
  NothingLost
  ReportMatchesStore
  NoOverflow
  ReadsWholeBlocks
  CommittedBytesRead
CHECK_DEADLOCK FALSE
