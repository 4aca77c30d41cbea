SPECIFICATION MemorySpec
CONSTANTS
  Key = {k1, k2}
  Label = {l1, l2}
  Threshold = 5
  Capacity = 2
  MaxIds = 4
  MaxFails = 0
  MaxFaults = 0
INVARIANT UpdateKeeps
CHECK_DEADLOCK FALSE
