SPECIFICATION BSpec
CONSTANTS
  Bufsize = 3
  InitCap = 2
  MaxLen = 3
  MaxBytes = 8
INVARIANTS
  FlushedOnce
