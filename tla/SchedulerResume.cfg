SPECIFICATION Spec
CONSTANTS
  e1 = e1
  NoEntry = NoEntry
  Id <- OneId
  Item <- MCItem
  Given <- MCGiven
  Epoch = 4
  MaxWall = 6
  MaxRunCount = 1
  MaxFaults = 0
  MaxCrashes = 0
PROPERTIES ResumeResumes
CHECK_DEADLOCK FALSE
