CONSTANTS
  MaxFixes = 2
  MaxStamp = 2
  MaxTime = 1
  MaxReboots = 0
  Modulus = 4
SPECIFICATION Spec
INVARIANT SentFlagMeansSent
