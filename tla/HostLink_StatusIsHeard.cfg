CONSTANTS
  MaxMissing = 2
  MaxFaults = 0
SPECIFICATION LinkSpec
INVARIANT StatusIsHeard
