CONSTANTS
  MaxStarts = 2
  MaxFaults = 1
  MaxAttempts = 1
SPECIFICATION FairSpec
INVARIANTS
  AlwaysServed
  DriverUsedByOneTask
  QueueAliveWhenUsed
  ConfiguredUnlessInterrupted
  FailureIsReported
PROPERTIES
  SilenceIsReported
  SensorsComeBack
  StopReturns
CHECK_DEADLOCK FALSE
