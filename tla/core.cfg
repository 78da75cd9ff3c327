CONSTANTS
  OrderId = {o1, o2, o3}
  None = None
  QtyMod = 64
  StopIds = {}
  MaxStale = 0
  MaxDepth = 2
  Commands <- CoreCommands
SPECIFICATION FeedSpec
SYMMETRY IdSymmetry
INVARIANTS ListsAgree TotalsAgree NoPanic NoCross FeedMatchesBook FokAllOrNothing FokKilledRightly
PROPERTIES KeepsPriceTimePriority
