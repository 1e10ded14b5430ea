SPECIFICATION MCSpec
CONSTANTS
    c1 = c1
    Clients <- MCClients
    MaxRes = 2
    Input = "input"
    Imports = {"import"}
    Boards = {"index"}
    FirstBoard = "index"
    MaxEdits = 3
    MayLose = TRUE
    MayCancel = TRUE
    Edits = {"save", "replace", "chmod", "delete"}
INVARIANTS
    BurstHasChange
    NoBlindSpot
    ChangeNoticed
    TabsShowDisk
CHECK_DEADLOCK FALSE
