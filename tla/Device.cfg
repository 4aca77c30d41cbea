SPECIFICATION MCSpec
CONSTANTS
  Plugin = {g1, g2}
  TableSize = 2
  Call = {c1, c2}
  NoPlugin = NoPlugin
  MaxPolls = 1
  File = {f1, f2}
  Idle = f1
  Setter = {t1}
  Script = {s1}
  QueueLen = 1
  MaxTries = 2
  MaxEvents = 2
  Text = {1}
  Attached = {2}
  Notice = {3}
  InboundLen = 1
  Recent = 1
  Slots = 2
  MaxAdmin = 3
  MaxForgotten = 1
  Tool = {o1}
  Async = Async
  RequestLen = 1
  FrameLen = 2
  RingSize = 1
  MaxFrames = 2
  MaxTexts = 2
  MaxSessions = 2
  MaxReleases = 2
  Key = {k1, k2}
  Label = {l1, l2}
  Threshold = 2
  Capacity = 1
  MaxIds = 2
  MaxFails = 1
  MaxFaults = 1
  MaxSlots = 4
  MaxTurns = 4
  MaxCuts = 2
  MaxRequests = 4
  JobQueueLen = 1
  Console = {t1}
  SchedulerTask = scheduler
  RouterTask = router
  AgentTask = agent
  RuleCalls = {"rules", "publish", "submit"}
  EventLen = 1
  CoreQueueLen = 1
  MaxFires = 1
  MaxActions = 2
  MaxCalls = 4
  MotionTask = {m1, m2}
  NoTask = NoTask
INVARIANTS
  QuietUnload
  StartedIsLive
  OneLateFrame
  QueueOutlivesWorker
  PublishedOnce
  SpokenInFull
  CaptureIsWaitedFor
  CatalogMatches
  WholeTurns
PROPERTIES
  AdminReturns
  EmotionShows
  StopLosesNothing
  NoteReturns
  CallsReturn
  ActivityStopsBreathing
CHECK_DEADLOCK FALSE
