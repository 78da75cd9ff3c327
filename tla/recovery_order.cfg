CONSTANTS
  OrderId = {a, b}
  StopIds = {}
  None = None
  Torn = Torn
  QtyMod = 64
  MaxDepth = 2
  Commands <- RestingCommands
  MaxRecords = 2
  MaxLives = 1
  MaxSaves = 1
  MaxTorn = 0
  MaxKills = 1
  MaxOutages = 0
SPECIFICATION RecoverySpec
INVARIANT RecoveredIsLive
CHECK_DEADLOCK FALSE
