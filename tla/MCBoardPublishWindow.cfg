SPECIFICATION Spec
CONSTANTS
  top = top
  inner = inner
  dir = dir
  Files = {top, inner}
  Dirs = {dir}
  DirOf <- MCDirOf
  MaxRuns = 2
  MaxUser = 1
  MaxFaults = 0
  MaxCrashes = 0
  WindowOpen = TRUE
CHECK_DEADLOCK FALSE
PROPERTIES UserFilesKept
