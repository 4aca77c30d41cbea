SPECIFICATION LockFairSpec
CONSTANTS
  Console = {c1}
  SchedulerTask = scheduler
  RouterTask = router
  AgentTask = agent
  RuleCalls = {"trigger", "submit"}
  EventLen = 1
  CoreQueueLen = 1
  MaxFires = 1
  MaxActions = 1
  MaxCalls = 4
PROPERTY PassesEnd
CHECK_DEADLOCK FALSE
