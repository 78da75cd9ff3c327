CONSTANTS
  Policies = {0, 1, 2}
  SegmentSize = 2
  BufCap = 2
  MaxRecords = 4
  MaxLives = 3
  MaxErrors = 1
  MaxOutages = 1
SPECIFICATION Spec
INVARIANTS ReplayInOrder OkIsDurable NoGaps
CHECK_DEADLOCK FALSE
