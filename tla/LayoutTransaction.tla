-------------------------- MODULE LayoutTransaction --------------------------
(***************************************************************************)
(* Transaction of TALA's layoutgraph: a stage tries a move of the graph's  *)
(* nodes, keeps it when no node gets closer to another than it may, and    *)
(* goes back to its rollback point otherwise.  While a trial runs it may   *)
(* try further moves in a transaction cloned from its own, which shares    *)
(* the rollback point.  A stage can pin the first rollback point, to undo  *)
(* all it has accepted.  Refreshing a rollback point recycles the memory   *)
(* of an older one, unless that is shared.                                 *)
(*                                                                         *)
(* Geometry has one dimension here: a node takes Width[n] from its place.  *)
(***************************************************************************)
EXTENDS Integers, Sequences, FiniteSetsExt

CONSTANTS
    Nodes, Width,
    Inside,         \* Inside[n]: the container of n, for the n that have one
    Starts,         \* bound: where the nodes are at first, and which are fixed
    Places,         \* bound: where they may be put
    MaxMoves        \* bound: moves tried

VARIABLES
    placed,         \* g.Nodes: their places, and the order they are listed in
    basis,          \* where the stage found them: existingOverlaps
    fixed,          \* the nodes whose place is locked
    wraps,          \* options.AffectContainers
    snapshot,       \* the GraphStates there are
    prior, spare,   \* PriorGraphState and spareGraphState of each transaction
    shared,         \* priorGraphStateShared
    pinned,         \* the GraphState the stage keeps, or None
    committing,     \* the transactions whose Commit runs, outermost first
    accepted,       \* the outermost transaction has accepted what is placed
    moves,          \* moves tried
    kept            \* history: kept[t] is what t has to roll back to, kept[Stage]
                    \* what the stage has to

txnVars == <<placed, basis, fixed, wraps, snapshot, prior, spare, shared, pinned,
             committing, accepted, moves, kept>>
stageVars == <<basis, fixed, wraps>>

Outer == 1      \* the transaction of the stage
Inner == 2      \* one that a trial of the stage clones from it
Txns == {Outer, Inner}
Stage == 3
None == 0
States == 1..5  \* all that can be referred to at a time

Orders == {"given", "sorted"}
Graphs == [at : [Nodes -> Int], order : Orders]
Partial == [at |-> [n \in Nodes |-> 0], order |-> "partial"]

TypeOK ==
    /\ placed \in Graphs /\ basis \in Graphs
    /\ fixed \subseteq Nodes /\ wraps \in BOOLEAN
    /\ snapshot \in [States -> Graphs \cup {Partial}]
    /\ prior \in [Txns -> States \cup {None}] /\ spare \in [Txns -> States \cup {None}]
    /\ prior[Outer] # None /\ pinned \in States \cup {None}
    /\ shared \in [Txns -> BOOLEAN] /\ accepted \in BOOLEAN
    /\ committing \in {<<>>, <<Outer>>, <<Outer, Inner>>}
    /\ kept \in [{Outer, Inner, Stage} -> Graphs]

Started(start, w) ==
    /\ placed = [at |-> start.at, order |-> "given"] /\ basis = placed
    /\ fixed = start.fixed /\ wraps = w
    /\ snapshot = [s \in States |-> IF s = 1 THEN placed ELSE Partial]
    /\ prior = [t \in Txns |-> IF t = Outer THEN 1 ELSE None]
    /\ spare = [t \in Txns |-> None]
    /\ shared = [t \in Txns |-> FALSE]
    /\ pinned = None /\ committing = <<>> /\ accepted = FALSE /\ moves = 0
    /\ kept = [t \in {Outer, Inner, Stage} |-> placed]

Init == \E start \in Starts, w \in BOOLEAN : Started(start, w)
AtRest == Started(CHOOSE start \in Starts : TRUE, FALSE)

-----------------------------------------------------------------------------
(* What a trial must not do                                                *)

\* doesOverlap with its clearance, and DoesOverlapExact.
Within(at, a, b, gap) ==
    at[a] < at[b] + Width[b] + gap /\ at[b] < at[a] + Width[a] + gap
Near(at, a, b) == Within(at, a, b, 1)
Exact(at, a, b) == Within(at, a, b, 0)

Surrounds(at, c, n) == at[c] <= at[n] /\ at[n] + Width[n] <= at[c] + Width[c]

\* isStructurallyBadState: a node escapes its container, or a fixed one moved.
StructurallyBad(at, old, n) ==
    \/ n \in DOMAIN Inside /\ ~Surrounds(at, Inside[n], n)
    \/ \E m \in DOMAIN Inside : Inside[m] = n /\ ~Surrounds(at, n, m)
    \/ n \in fixed /\ at[n] # old[n]

\* Close nodes that were close when the transaction was made are no regression,
\* which covers containers and what is in them.
BadPair(at, a, b) == Near(at, a, b) /\ ~Near(basis.at, a, b)

\* Nodes that overlap now but were only close then.
BecameExact(at, a, b) ==
    Near(basis.at, a, b) /\ ~Exact(basis.at, a, b) /\ Exact(at, a, b)

\* Mutant: a pair is looked at when both of its nodes have moved.
BothMoved(old, a, b) ==
    old.order = placed.order =>
        old.at[a] # placed.at[a] /\ old.at[b] # placed.at[b]

\* collectOverlapValidationNodes: pairs that did not move since the rollback point
\* are not looked at, unless the nodes are listed in another order.
LookedAt(old, a, b) ==
    old.order = placed.order =>
        old.at[a] # placed.at[a] \/ old.at[b] # placed.at[b]

\* repositionContainers: containers close around their contents.
Wrapped(g) ==
    [g EXCEPT !.at = [n \in Nodes |->
        IF \E m \in DOMAIN Inside : Inside[m] = n
        THEN Min({g.at[m] : m \in {m \in DOMAIN Inside : Inside[m] = n}})
        ELSE g.at[n]]]

Valid(old) ==
    LET at == placed.at
    IN  /\ \A n \in Nodes : ~StructurallyBad(at, old.at, n)
        /\ \A a, b \in Nodes : a # b /\ LookedAt(old, a, b) =>
             ~BadPair(at, a, b) /\ ~BecameExact(at, a, b)

-----------------------------------------------------------------------------
(* Rollback points                                                         *)

Running == committing # <<>>
Current == committing[Len(committing)]
MayUse(t) ==    \* the code that uses t has control
    /\ prior[t] # None
    /\ committing = IF t = Outer THEN <<>> ELSE <<Outer>>

Unused == CHOOSE s \in States :
            s \notin {pinned} \cup {prior[t] : t \in Txns} \cup {spare[t] : t \in Txns}

\* CloneGeometryContext, by a trial that will try further moves.
Clone ==
    /\ committing = <<Outer>> /\ prior[Inner] = None
    /\ prior' = [prior EXCEPT ![Inner] = prior[Outer]]
    /\ shared' = [shared EXCEPT ![Outer] = TRUE, ![Inner] = TRUE]
    /\ kept' = [kept EXCEPT ![Inner] = kept[Outer]]
    /\ UNCHANGED <<placed, stageVars, snapshot, spare, pinned, committing, accepted,
                   moves>>

\* PreservePriorGraphState; or the stage goes on with a clone, which has no memory
\* to recycle, and keeps the original for its rollback point.
Pin(detach) ==
    /\ committing = <<>> /\ pinned = None
    /\ pinned' = prior[Outer]
    /\ kept' = [kept EXCEPT ![Stage] = kept[Outer]]
    /\ shared' = [shared EXCEPT ![Outer] = TRUE]
    /\ spare' = IF detach THEN [spare EXCEPT ![Outer] = None] ELSE spare
    /\ UNCHANGED <<placed, stageVars, snapshot, prior, committing, accepted, moves>>

\* UpdateState: what is placed becomes the rollback point.
Refresh(t) ==
    LET s == IF spare[t] = None THEN Unused ELSE spare[t]
    IN  /\ MayUse(t)
        /\ snapshot' = [snapshot EXCEPT ![s] = placed]
        /\ prior' = [prior EXCEPT ![t] = s]
        /\ spare' = [spare EXCEPT ![t] = IF shared[t] THEN None ELSE prior[t]]
        /\ shared' = [shared EXCEPT ![t] = FALSE]
        /\ kept' = [kept EXCEPT ![t] = placed]
        /\ UNCHANGED <<placed, stageVars, pinned, committing, accepted, moves>>

\* UpdateState, when the work limit or the context ends it half-way.
RefreshFails(t) ==
    /\ MayUse(t) /\ spare[t] # None
    /\ snapshot' = [snapshot EXCEPT ![spare[t]] = Partial]
    /\ placed' = snapshot[prior[t]]
    /\ accepted' = FALSE
    /\ UNCHANGED <<stageVars, prior, spare, shared, pinned, committing, moves, kept>>

\* Mutant: the nodes stay in the order the trial left them in.
RollbackPlaces(t) == [snapshot[prior[t]] EXCEPT !.order = placed.order]

\* What Rollback restores.
RolledBack(t) == snapshot[prior[t]]

\* Rollback, by callers that reject what they have accepted.
Rollback ==
    /\ committing = <<>> /\ accepted
    /\ placed' = RolledBack(Outer)
    /\ accepted' = FALSE
    /\ UNCHANGED <<stageVars, snapshot, prior, spare, shared, pinned, committing,
                   moves, kept>>

\* A stage that fails restores the graph as it found it.
StageFails ==
    /\ committing = <<>> /\ pinned # None
    /\ placed' = snapshot[pinned]
    /\ accepted' = FALSE /\ moves' = MaxMoves
    /\ UNCHANGED <<stageVars, snapshot, prior, spare, shared, pinned, committing, kept>>

-----------------------------------------------------------------------------
(* Commit                                                                  *)

Commit(t) ==
    /\ MayUse(t) /\ moves < MaxMoves
    /\ committing' = Append(committing, t)
    /\ accepted' = FALSE
    /\ UNCHANGED <<placed, stageVars, snapshot, prior, spare, shared, pinned, moves,
                   kept>>

\* An operation of the trial moves a node, and containers follow.
Move(n, p) ==
    LET moved == [placed EXCEPT !.at[n] = p]
    IN  /\ Running /\ moves < MaxMoves
        /\ moves' = moves + 1
        /\ placed' = IF wraps THEN Wrapped(moved) ELSE moved
        /\ UNCHANGED <<stageVars, snapshot, prior, spare, shared, pinned, committing,
                       accepted, kept>>

\* It lists the nodes in another order.
Reorder ==
    /\ Running /\ moves < MaxMoves
    /\ moves' = moves + 1
    /\ \E o \in Orders \ {placed.order} : placed' = [placed EXCEPT !.order = o]
    /\ UNCHANGED <<stageVars, snapshot, prior, spare, shared, pinned, committing,
                   accepted, kept>>

\* Commit returns; a clone made by its operations is gone with it.
Returned ==
    /\ committing' = SubSeq(committing, 1, Len(committing) - 1)
    /\ IF Current = Outer
       THEN /\ prior' = [prior EXCEPT ![Inner] = None]
            /\ spare' = [spare EXCEPT ![Inner] = None]
            /\ kept' = [kept EXCEPT ![Inner] = basis]
            /\ shared' = [shared EXCEPT ![Inner] = FALSE]
            /\ snapshot' = [s \in States |->
                  IF s \in {prior[Outer], spare[Outer], pinned} THEN snapshot[s]
                                                                ELSE Partial]
       ELSE UNCHANGED <<prior, spare, kept, shared, snapshot>>
    /\ UNCHANGED <<stageVars, pinned, moves>>

Accept ==
    /\ Running /\ Valid(snapshot[prior[Current]])
    /\ accepted' = (Current = Outer)
    /\ Returned
    /\ UNCHANGED placed

\* The result is not valid; or an operation fails, panics, finds no improvement,
\* or the work limit or the context ends the commit.
Reject ==
    /\ Running
    /\ placed' = RolledBack(Current)
    /\ accepted' = FALSE
    /\ Returned

Next ==
    \/ Clone \/ Rollback \/ StageFails \/ Reorder \/ Accept \/ Reject
    \/ \E t \in Txns : Refresh(t) \/ RefreshFails(t) \/ Commit(t)
    \/ \E n \in Nodes, p \in Places : Move(n, p)
    \/ \E detach \in BOOLEAN : Pin(detach)

Spec == Init /\ [][Next]_txnVars

-----------------------------------------------------------------------------
(* Properties                                                              *)

\* No rollback point that anybody still needs is recycled: neither by a clone that
\* shares it, nor after the stage has pinned it.
RollbackPointsKept ==
    /\ \A t \in Txns : prior[t] # None => snapshot[prior[t]] = kept[t]
    /\ pinned # None => snapshot[pinned] = kept[Stage]

\* A trial that is rejected leaves no trace, whatever it and the transactions inside
\* it have done; nor does a stage that takes back what it has accepted.
RejectionRestores ==
    [][/\ Running /\ Len(committing') < Len(committing) /\ ~Valid(snapshot[prior[Current]])
            => placed' = kept[Current]
       /\ ~Running /\ placed' # placed => placed' \in {kept[Outer], kept[Stage]}]_txnVars

\* What the stage has accepted brings no two nodes too close and moves no fixed
\* node, although only pairs that have moved since the last rollback point are
\* looked at, and trials inside the trial see only their own.
AcceptedIsValid ==
    accepted =>
        /\ \A n \in Nodes : ~StructurallyBad(placed.at, basis.at, n)
        /\ \A a, b \in Nodes : a # b =>
             ~BadPair(placed.at, a, b) /\ ~BecameExact(placed.at, a, b)

=============================================================================
