CONSTANTS
  OrderId = {a, b, s, t}
  StopIds = {s, t}
  None = None
  QtyMod = 8
  MaxStale = 2
  MaxDepth = 6
  Commands <- ReturnCommands
SPECIFICATION FairFeedSpec
PROPERTIES ApplyReturns
