CONSTANTS
  OrderId = {1, 2, 3}
  StopIds = {}
  None = None
  Torn = Torn
  QtyMod = 64
  MaxDepth = 2
  Commands <- RecoveryCommands
  MaxRecords = 3
  MaxLives = 2
  MaxSaves = 1
  MaxTorn = 1
  MaxKills = 1
  MaxOutages = 1
SPECIFICATION FairRecoverySpec
INVARIANTS BookIntegrity LoadedIsSaved ExactWithoutTies
PROPERTY RecoveryEnds
CHECK_DEADLOCK FALSE
