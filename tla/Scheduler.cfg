SPECIFICATION Spec
CONSTANTS
  e1 = e1
  NoEntry = NoEntry
  Id <- OneId
  Item <- MCItem
  Given <- MCGiven
  Epoch = 4
  MaxWall = 6
  MaxRunCount = 1
  MaxFaults = 1
  MaxCrashes = 1
INVARIANTS ScheduledIsLegit PauseHolds DefinitionsSaved NoReplay
CHECK_DEADLOCK FALSE
