SPECIFICATION FairSorterSpec
CONSTANTS
  Keys = {1, 3, 4}
  SpillEvery = 2
  MaxRecords = 5
  HashCode <- MCHashCode
  Partitioner <- MCPartitioner
  Modes <- MCModes
INVARIANTS
  RecordsConserved
  OutputSorted
  OneRecordPerKey
  StreamsWellFormed
PROPERTIES
  MergeFinishes
CHECK_DEADLOCK FALSE
