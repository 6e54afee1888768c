CONSTANTS
  Receivers = {"GPS1", "GPS2"}
  QueueSize = 2
  BatchSize = 2
  MaxItems = 3
SPECIFICATION FairScriptSpec
INVARIANTS
  StopWritesAll
PROPERTIES
  ImplementsLog
  RecorderStops
  MeasurementsReachDisk
  FailureEndsRecording
CHECK_DEADLOCK FALSE
