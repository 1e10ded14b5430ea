SPECIFICATION Spec
CONSTANTS
  NFlavors = 2
  FlavorLimit = 2
  StageLimit = 4
  StageUsed = {1}
  Distances = {1, 2}
CHECK_DEADLOCK FALSE
INVARIANT WorkWithinContract
