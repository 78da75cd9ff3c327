CONSTANTS
  OrderId = {a, b, s, t}
  StopIds = {s, t}
  None = None
  QtyMod = 64
  MaxStale = 2
  MaxDepth = 6
  Commands <- StopCommands
SPECIFICATION FeedSpec
SYMMETRY IdSymmetry
INVARIANTS ListsAgree TotalsAgree FeedMatchesBook StopsDrained BoundedCalls FiresOnlyReached
PROPERTIES KeepsPriceTimePriority
