CONSTANTS
  OrderId = {a, b, s}
  StopIds = {s}
  None = None
  QtyMod = 64
  MaxStale = 2
  MaxDepth = 8
  Commands <- StopLimitCommands
SPECIFICATION FeedSpec
SYMMETRY IdSymmetry
INVARIANT BoundedCalls
