SPECIFICATION Spec
CONSTANTS
  top = top
  inner = inner
  dir = dir
  Files = {top, inner}
  Dirs = {dir}
  DirOf <- MCDirOf
  MaxRuns = 2
  MaxUser = 2
  MaxFaults = 2
  MaxCrashes = 1
  WindowOpen = FALSE
CHECK_DEADLOCK FALSE
INVARIANTS RestoredOnFailure CompleteOnSuccess NoOrphans
PROPERTIES UserFilesKept
