SPECIFICATION RecreatingSpec
CONSTANTS
    Input = "input"
    Imports = {"import"}
    Boards = {"index"}
    FirstBoard = "index"
    MaxEdits = 2
    MayLose = FALSE
    MayCancel = FALSE
    Edits = {"deleteAny"}
PROPERTIES
    ImportsReload
CHECK_DEADLOCK FALSE
