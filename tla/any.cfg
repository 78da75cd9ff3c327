CONSTANTS
  OrderId = {a, b}
  StopIds = {}
  None = None
  QtyMod = 4
  MaxStale = 1
  MaxDepth = 3
  Commands <- AnyCommands
SPECIFICATION BoundedFeedSpec
SYMMETRY IdSymmetry
CHECK_DEADLOCK FALSE
INVARIANTS TypeOK LevelsNonEmpty IndexSound
