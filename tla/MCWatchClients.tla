--------------------------- MODULE MCWatchClients ---------------------------
(* WatchClients on two connections.                                        *)
EXTENDS WatchClients

CONSTANTS c1, c2

MCClients == {c1, c2}

=============================================================================
