SPECIFICATION FairSpec
CONSTANTS
    Input = "input"
    Imports = {"import"}
    Boards = {"index", "layer"}
    FirstBoard = "index"
    MaxEdits = 3
    MayLose = TRUE
    MayCancel = FALSE
    Edits = {"save", "replace"}
PROPERTIES
    Converges
CHECK_DEADLOCK FALSE
