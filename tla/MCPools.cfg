SPECIFICATION PartsSpec
CONSTANTS
  Renders = {r1, r2}
  Identities = {"i", "j", "k"}
  Keys = {"small", "big"}
  KeyOf <- MCKeyOf
  Charge <- MCCharge
  MaxCacheEntries = 2
  MaxCacheBytes = 4
  LoadLimits = {1, 2}
  MaxCalls = 3
  Names = {"a", "b", "c"}
  Images = {"small", "medium", "large", "oversize"}
  Size <- MCSize
  MaxImages = 2
  MaxImageBytes = 3
  NHrefs = 3
  BundleWorkers = 2
  Sizes = {1, 2}
  MaxBundled = 4
  MaxOutput = 3
  NFlavors = 2
  FlavorLimit = 2
  StageLimit = 5
  StageUsed = {1, 2}
  Distances = {1, 2}
CHECK_DEADLOCK FALSE
INVARIANTS
  LimitsHold
  NoStaleImage
  PartialOutputKept FailureExplained
  ScheduleIndependent
PROPERTIES
  OwnFailure
  PoolsEnd
