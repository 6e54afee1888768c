CONSTANTS
  Producers = {p1, p2}
  MaxRecords = 3
  MaxSessions = 2
SPECIFICATION FairSpec
INVARIANTS
  UnsettledInOrder
  QueuedCountersTrail
  WrittenCountersExact
PROPERTIES
  StopFlushes
  ImplementsLog
  EventuallySettled
  StopReturns
CHECK_DEADLOCK FALSE
