CONSTANTS
  MaxStarts = 3
  MaxReads = 3
  CatchesErrors = TRUE
SPECIFICATION FairSpec
INVARIANTS
  FilterUsedByOneThread
  EstimateOfThisRun
PROPERTY OperationsReturn
