SPECIFICATION PartsSpec
CONSTANTS
  NSeeds = 3
  Concurrency = 2
  MaxPenalty = 2
  MaxArea = 1
  NObjects = 4
  NBoards = 3
  Contents <- MCContents
  Strides = {3, 4}
  Limits = {0, 1, 6, 8, 14}
  Charges <- MCCharges
  MaxWorkInt = 15
  Nodes = {"box", "in", "out"}
  Width <- MCWidth
  Inside <- MCInside
  Starts <- MCStarts
  Places = {0, 1, 2}
  MaxMoves = 2
  NPaths = 4
  BoardNames <- MCBoardNames
  Unportable = {".."}
  Prefixed = {"_d2_index"}
  NKeys = 4
  KeyNames <- MCKeyNames
  ImportFiles = {"main", "a", "b", "c"}
  Main = "main"
  Sources <- MCSources
  Flaws <- MCFlaws
  MaxImportDepth = 3
CHECK_DEADLOCK FALSE
INVARIANTS
  PartsTypeOK
  SelectionIsBest
  ExtractionIsSequential LayoutRestores
  ReuseIsHarmless
  CachingIsHarmless
  ChargesExact PollingExact
  AcceptedIsValid
  PathsClaimed
  AsPredicted
PROPERTIES NothingLeaks RejectionRestores
