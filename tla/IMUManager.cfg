CONSTANTS
  MaxFixes = 2
  MaxStamp = 2
  MaxTime = 1
  MaxReboots = 1
  Modulus = 16
SPECIFICATION FairSpec
INVARIANTS
  FixesInOrder
  ExactUnlessRaced
  CallsUseFreshReadings
  DtNeverWraps
PROPERTY FixReachesEkf
