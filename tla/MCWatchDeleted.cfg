SPECIFICATION FairSpec
CONSTANTS
    Input = "input"
    Imports = {"import"}
    Boards = {"index"}
    FirstBoard = "index"
    MaxEdits = 3
    MayLose = FALSE
    MayCancel = FALSE
    Edits = {"save", "delete"}
PROPERTIES
    InputReloads
CHECK_DEADLOCK FALSE
