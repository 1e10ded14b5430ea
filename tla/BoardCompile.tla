----------------------------- MODULE BoardCompile -----------------------------
(***************************************************************************)
(* compileBoard of d2lib: the boards of a diagram are laid out and         *)
(* exported one after the other, every board before those in its layers,   *)
(* scenarios and steps.  A scenario may reuse the geometry of its parent,  *)
(* a step that of the step before it, when layout would consume the same.  *)
(***************************************************************************)
EXTENDS Integers, SequencesExt

CONSTANTS
    NBoards,
    Contents    \* what boards may hold: of their fields, input is what layout
                \* consumes and style what only rendering does; special boards
                \* hold a sequence diagram, a grid or a constant near

VARIABLES
    parentOf, section,  \* the tree of boards, numbered in the order of the calls
    content,            \* content[b]
    builtin,            \* the layout engine is dagre or ELK
    compiling,          \* "idle", "running", "ok", "failed"
    board,              \* the board to compile next
    interrupted,        \* ctx.Err() # nil
    captured,           \* captured[b]: the geometry kept of b
    shown,              \* shown[b]: the geometry b is exported with
    late                \* history: boards with objects begun when interrupted

treeVars == <<parentOf, section, content, builtin>>
boardVars == <<treeVars, compiling, board, interrupted, captured, shown, late>>

Boards == 1..NBoards
Nothing == [input |-> "none", style |-> "none", special |-> FALSE]
NotCaptured == [signature |-> <<"none", FALSE>>, geometry |-> Nothing]

\* Every board comes after its parent and what is below its elder siblings.
Numbered(p, s) ==
    /\ p[1] = 0 /\ s[1] = 1
    /\ \A b \in Boards \ {1} :
         /\ \E above \in Boards : above < b /\ p[b] = above
         /\ \A x \in (p[b] + 1)..(b - 1) : p[x] >= p[b]
         /\ \A x \in 1..(b - 1) : p[x] = p[b] => s[x] <= s[b]

Described(p, s, c, e) ==
    /\ parentOf = p /\ section = s /\ content = c /\ builtin = e
    /\ compiling = "idle" /\ board = 1 /\ interrupted = FALSE
    /\ captured = [b \in Boards |-> NotCaptured]
    /\ shown = [b \in Boards |-> Nothing]
    /\ late = {}

Init ==
    \E p \in [Boards -> 0..(NBoards - 1)], s \in [Boards -> 1..3],
       c \in [Boards -> Contents \cup {Nothing}], e \in BOOLEAN :
        Numbered(p, s) /\ Described(p, s, c, e)

AtRest ==
    Described([b \in Boards |-> b - 1], [b \in Boards |-> 1],
              [b \in Boards |-> Nothing], TRUE)

Has(b) == content[b] # Nothing      \* b has objects
Steps(b) == {x \in Boards : parentOf[x] = parentOf[b] /\ section[x] = 3}

\* What a layout of b computes.  A custom engine may look at the style, too.
Fresh(b) ==
    IF builtin THEN [content[b] EXCEPT !.style = "none"] ELSE content[b]

TypeOK ==
    /\ parentOf \in [Boards -> 0..NBoards] /\ section \in [Boards -> 1..3]
    /\ content \in [Boards -> Contents \cup {Nothing}] /\ builtin \in BOOLEAN
    /\ compiling \in {"idle", "running", "ok", "failed"}
    /\ board \in 1..(NBoards + 1) /\ interrupted \in BOOLEAN
    /\ \A b \in Boards : shown[b].special \in BOOLEAN
    /\ late \subseteq Boards

-----------------------------------------------------------------------------

\* Mutant: geometry of any kind of board is captured and replayed.
SupportsAnything(b) == Has(b) /\ builtin

\* supportsLayoutReuse.
Supports(b) == Has(b) /\ builtin /\ ~content[b].special

\* newLayoutInputSignature: every field that layout consumes.
Signature(b) == <<content[b].input, content[b].special>>

\* The geometry that compileBoard gets for b: a layer gets none, a step that of
\* the step before it, everything else that of its parent.
Offered(b) ==
    LET elder == {x \in Steps(b) : x < b}
    IN  IF section[b] = 1 THEN NotCaptured
        ELSE IF section[b] = 3 /\ elder # {} THEN captured[Max(elder)]
        ELSE captured[parentOf[b]]

\* Geometry is captured for scenarios, steps, and the step that follows.
Wanted(b) ==
    \/ \E x \in Boards : parentOf[x] = b /\ section[x] \in {2, 3}
    \/ section[b] = 3 /\ b # Max(Steps(b))

\* What is captured does not hold the topology that laying out a special board
\* makes up.
Capture(b, geometry) ==
    IF Supports(b) /\ Wanted(b)
    THEN [signature |-> Signature(b),
          geometry |-> IF content[b].special THEN Nothing ELSE geometry]
    ELSE NotCaptured

\* Mutant: a board is replayed although the context is done.
ReplaysAnyway(b) ==
    /\ Supports(b) /\ Offered(b) # NotCaptured
    /\ Offered(b).signature = Signature(b)

\* apply, which replays all of a geometry or nothing.
Replays(b) ==
    /\ ~interrupted /\ Supports(b) /\ Offered(b) # NotCaptured
    /\ Offered(b).signature = Signature(b)

-----------------------------------------------------------------------------

Compile ==
    /\ compiling = "idle"
    /\ compiling' = "running"
    /\ UNCHANGED <<treeVars, board, interrupted, captured, shown, late>>

Interrupt ==
    /\ compiling = "running" /\ ~interrupted
    /\ interrupted' = TRUE
    /\ UNCHANGED <<treeVars, compiling, board, captured, shown, late>>

Shown(b, geometry) ==
    /\ captured' = [captured EXCEPT ![b] = Capture(b, geometry)]
    /\ shown' = [shown EXCEPT ![b] = geometry]
    /\ board' = b + 1
    /\ compiling' = IF b = NBoards THEN "ok" ELSE "running"

\* A board without objects is only exported.
CompileEmpty(b) ==
    /\ ~Has(b)
    /\ captured' = captured /\ shown' = shown /\ board' = b + 1
    /\ compiling' = IF b = NBoards THEN "ok" ELSE "running"
    /\ UNCHANGED late

\* The layout engine may surface the context, and fail for reasons of its own;
\* a failure ends the compilation of all boards.
CompileObjects(b, ok) ==
    /\ Has(b)
    /\ late' = IF interrupted THEN late \cup {b} ELSE late
    /\ IF Replays(b)
       THEN ok /\ Shown(b, Offered(b).geometry)
       ELSE IF ok /\ ~interrupted
       THEN Shown(b, Fresh(b))
       ELSE compiling' = "failed" /\ UNCHANGED <<board, captured, shown>>

CompileBoard(ok) ==
    /\ compiling = "running"
    /\ CompileEmpty(board) \/ CompileObjects(board, ok)
    /\ UNCHANGED <<treeVars, interrupted>>

Next == Compile \/ Interrupt \/ \E ok \in BOOLEAN : CompileBoard(ok)

Spec == Init /\ [][Next]_boardVars

-----------------------------------------------------------------------------
(* Properties                                                              *)

\* A board that reuses geometry shows what a layout of its own would have given,
\* along chains of steps too, and whatever the engine looks at.
GeometryIsFresh ==
    \A b \in Boards : b < board /\ Has(b) => shown[b] = Fresh(b)

\* Reuse does not hide a cancellation: a compilation succeeds only if the layout
\* engine, or nothing at all, was left to do when the context ended.
CancellationSurfaces == compiling = "ok" => late = {}

\* Reusing geometry is not to be noticed.
ReuseIsHarmless == GeometryIsFresh /\ CancellationSurfaces

=============================================================================
