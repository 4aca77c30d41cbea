SPECIFICATION FairSpec
CONSTANTS
  j1 = j1
  j2 = j2
  j3 = j3
  name = name
  group = group
  Nothing = Nothing
  stopper = stopper
  watcher = watcher
  Job <- TwoJobs
  Name <- NoNames
  Group <- OneGroup
  Replace <- MCReplace
  Stopper <- MCStopper
  Watcher <- MCWatcher
  MaxJobs = 2
  MaxConcurrent = 2
PROPERTIES CallReturns
CHECK_DEADLOCK FALSE
