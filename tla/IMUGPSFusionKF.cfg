CONSTANTS
  Depths = {0, 1, 3}
  Periods = {0, 1, 2}
  MaxSteps = 8
SPECIFICATION Spec
INVARIANTS
  WindowIsRecent
  NoiseIsOfItsWindow
