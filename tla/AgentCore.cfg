\* A response queue shorter than the number of asks.
SPECIFICATION FairSpec
CONSTANTS
  r1 = r1  a1 = a1  a2 = a2  a3 = a3
  router = router  console1 = console1  console2 = console2
  Request <- MCRequest  Caller <- MCCaller  CallerOf <- MCCallerOf
  SkipResponse <- MCSkipResponse  RequestLen = 1  ResponseLen = 1
  MaxIterations = 2  NoRequest = NoRequest
INVARIANTS NoMissedResponse CancelledWasMeant
PROPERTIES ServesInOrder QueuedIsServed CallReturns
CHECK_DEADLOCK FALSE
