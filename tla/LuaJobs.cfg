SPECIFICATION Spec
CONSTANTS
  j1 = j1
  j2 = j2
  j3 = j3
  name = name
  group = group
  Nothing = Nothing
  stopper = stopper
  watcher = watcher
  Job <- MCJob
  Name <- MCName
  Group <- MCGroup
  Replace <- MCReplace
  Stopper <- MCStopper
  Watcher <- NoProc
  MaxJobs = 2
  MaxConcurrent = 2
INVARIANTS CountExact ScriptsExclude ScriptKeepsSlot StoppedIsOver StoppedWasMeant
CHECK_DEADLOCK FALSE
