SPECIFICATION SSpec
CONSTANTS
  Attempts = {1, 2}
  Speculation = FALSE
  SpillThrottles = {3}
  BufCap = 5
  SerCap = 1
  MaxRecord = 2
  MaxBytes <- MCMaxBytes
INVARIANTS
  ReadsCommittedAttempt
CHECK_DEADLOCK FALSE
