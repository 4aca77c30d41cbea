\* Shared ids, and a table too small for the outstanding events.
SPECIFICATION FairSpec
CONSTANTS
  e1 = e1  e2 = e2  e3 = e3  e4 = e4  i1 = i1  i2 = i2  i3 = i3
  k1 = k1  k2 = k2  NoId = NoId  NoKind = NoKind  NoEvent = NoEvent
  Event <- MCEvent  EventId <- MCEventId  Kind <- MCKind  KindOf <- MCKindOf
  Emitted <- OneEmitted  SelfSourced <- OneEmitted  DefaultToAgent = TRUE
  IdOf <- SharedIdOf  QueueLen = 1  TableSize = 2  MaxSenders = 2
INVARIANTS NoSpuriousSkip
PROPERTIES PublishReturns EvictsWhenCrowded
