CONSTANTS
  MaxStarts = 2
  MaxReads = 1
  CatchesErrors = FALSE
  MaxLines = 3
SPECIFICATION FairSpec
INVARIANTS
  StoppedManagerIsQuiet
  OnceUnlessRaced
PROPERTY NewestReachesCallback
CHECK_DEADLOCK FALSE
