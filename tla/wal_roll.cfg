CONSTANTS
  Policies = {2}
  SegmentSize = 3
  BufCap = 2
  MaxRecords = 5
  MaxLives = 1
  MaxErrors = 0
  MaxOutages = 1
SPECIFICATION Spec
INVARIANT LosesOnlyLastBatch
CHECK_DEADLOCK FALSE
