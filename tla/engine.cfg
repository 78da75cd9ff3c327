CONSTANTS
  Producer = {p, q}
  Own = own
  Late = {r1, r2}
  Symbol = {0, 1, 3}
  Listed = {0, 1}
  NumShards = 2
  RingCapacity = 1
  BatchSize = 2
  MaxSeq = 2
  MaxFailures = 1
  None = None
SPECIFICATION FairSpec
INVARIANTS TypeOK NumbersUnique AppliedInOrder LogAhead BatchesWhole NothingMissed ShutdownDrains
PROPERTY ShutdownReturns
CHECK_DEADLOCK FALSE
