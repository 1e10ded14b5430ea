---------------------------- MODULE MCWatchMode ----------------------------
(* Watch mode with an input that may import one file, one board and one    *)
(* browser.                                                                *)
EXTENDS WatchMode

CONSTANT c1

MCClients == {c1}

\* Bounds: the third edit is made before a browser has come, after at most one
\* broadcast; d2 is stopped before it sees an edit.
Alone == \A c \in Clients : conn[c] = "idle" /\ got[c] = 0 /\ ~token[c]
FewEdits ==
    /\ edits > 2 => res <= 1 /\ Alone
    /\ cancelled => edits = 1

MCSpec == ModeInit /\ [][ModeNext /\ FewEdits']_modeVars

=============================================================================
