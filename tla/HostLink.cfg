CONSTANTS
  MaxMissing = 7
  MaxFaults = 1
SPECIFICATION LinkSpec
INVARIANTS
  NothingLostWithoutFault
  DamageIsLocal
  KindsAreKept
