SPECIFICATION StoppingSpec
CONSTANTS
    Input = "input"
    Imports = {"import"}
    Boards = {"index"}
    FirstBoard = "index"
    MaxEdits = 2
    MayLose = FALSE
    MayCancel = TRUE
    Edits = {"delete", "save", "replace", "chmod"}
PROPERTIES
    LoopsStop
    ConvergesWhenRecreated
CHECK_DEADLOCK FALSE
