--------------------------- MODULE MCBoardPublish ---------------------------
(* Small output trees: one file at the root, and files in one directory.   *)
EXTENDS BoardPublish, TLC

CONSTANTS top, inner, dir

MCDirOf == [f \in Files |-> IF f = top THEN Root ELSE dir]
=============================================================================
