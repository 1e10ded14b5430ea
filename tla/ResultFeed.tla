----------------------------- MODULE ResultFeed -----------------------------
(***************************************************************************)
(* What watch mode promises a browser tab: a feed of compile results.      *)
(*                                                                         *)
(* Results are numbered in the order the compile loop publishes them; 0 is *)
(* "nothing yet".  A connected client's view may lag behind the newest     *)
(* result and may skip results, but it never goes back while the           *)
(* connection lasts.  Once the watcher is closed no connection is left and *)
(* none is opened.                                                         *)
(***************************************************************************)
EXTENDS Naturals

CONSTANT Clients

VARIABLES
    latest,     \* number of the newest published result
    view,       \* view[c]: the last result delivered on c's connection
    open,       \* the clients the watcher holds a connection of
    closed      \* the watcher has returned

vars == <<latest, view, open, closed>>

Init ==
    /\ latest = 0
    /\ view = [c \in Clients |-> 0]
    /\ open = {}
    /\ closed = FALSE

Publish ==
    /\ ~closed
    /\ latest' = latest + 1
    /\ UNCHANGED <<view, open, closed>>

Connect(c) ==
    /\ ~closed
    /\ c \notin open
    /\ open' = open \cup {c}
    /\ view' = [view EXCEPT ![c] = 0]
    /\ UNCHANGED <<latest, closed>>

\* A delivery moves the view forward (or repeats it), never past the newest.
Deliver(c) ==
    /\ c \in open
    /\ \E r \in 1..latest :
        /\ view[c] <= r
        /\ view' = [view EXCEPT ![c] = r]
    /\ UNCHANGED <<latest, open, closed>>

Disconnect(c) ==
    /\ c \in open
    /\ open' = open \ {c}
    /\ UNCHANGED <<latest, view, closed>>

Close ==
    /\ ~closed
    /\ open = {}
    /\ closed' = TRUE
    /\ UNCHANGED <<latest, view, open>>

Next ==
    \/ Publish
    \/ Close
    \/ \E c \in Clients : Connect(c) \/ Deliver(c) \/ Disconnect(c)

Spec == Init /\ [][Next]_vars

=============================================================================
