SPECIFICATION Spec
CONSTANTS
  j1 = j1
  j2 = j2
  j3 = j3
  name = name
  group = group
  Nothing = Nothing
  stopper = stopper
  watcher = watcher
  Job <- MCJob
  Name <- MCName
  Group <- MCGroup
  Replace <- MCReplace
  Stopper <- NoProc
  Watcher <- NoProc
  MaxJobs = 2
  MaxConcurrent = 2
INVARIANTS ActiveExclude
CHECK_DEADLOCK FALSE
