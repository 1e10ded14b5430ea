------------------------------ MODULE MCDiagram ------------------------------
(* The parts of compiling and laying out a diagram, side by side: a behaviour *)
(* works on one part, and the others stand still before they begin.  Three    *)
(* seeds on two workers let two attempts arrive in either order around a      *)
(* third; the other bounds are explained in the README.                       *)
EXTENDS SeedCoordinator, FiniteSets

CONSTANTS NObjects, NBoards, Contents, Strides, Limits, Charges, MaxWorkInt,
          Nodes, Width, Inside, Starts, Places, MaxMoves,
          NPaths, BoardNames, Unportable, Prefixed,
          NKeys, KeyNames, ImportFiles, Main, Sources, Flaws, MaxImportDepth

VARIABLES part,
          graph, given, form, inGrid, nesting, batched, todo, external, pulled,
          nears,
          parentOf, section, content, builtin, compiling, board, interrupted,
          captured, shown, late,
          guarding, used, limit, stride, ended, charged, since,
          placed, basis, fixed, wraps, snapshot, prior, spare, shared, pinned,
          committing, accepted, moves, kept,
          above, listed, name, folderOnly, verdict,
          container, named, deleted, target, predicted,
          program, fault, stack, parsed, templates, seen, imports, errors, compiled

nestedState == <<graph, given, form, inGrid, nesting, batched, todo, external,
                 pulled, nears>>
boardState == <<parentOf, section, content, builtin, compiling, board, interrupted,
                captured, shown, late>>
guardState == <<guarding, used, limit, stride, ended, charged, since>>
trialState == <<placed, basis, fixed, wraps, snapshot, prior, spare, shared, pinned,
                committing, accepted, moves, kept>>
pathState == <<above, listed, name, folderOnly, verdict>>
keyState == <<container, named, deleted, target, predicted>>
importState == <<program, fault, stack, parsed, templates, seen, imports, errors,
                 compiled>>
partVars == <<vars, nestedState, boardState, guardState, trialState, pathState,
              keyState, importState, part>>

Nested == INSTANCE NestedLayout
Compilation == INSTANCE BoardCompile
MCContents == [input : {"p"}, style : {"red", "blue"}, special : {FALSE}]
                \cup [input : {"q"}, style : {"red"}, special : {FALSE}]
                \cup [input : {"p"}, style : {"red"}, special : {TRUE}]
Guard == INSTANCE WorkGuard
MCCharges == {-1, 0, 1, 2, 3, 5, 8, 14, 15}

Trial == INSTANCE LayoutTransaction
\* A node in a container, and one beside it: fixed, or close to it from the start.
MCWidth == [n \in Nodes |-> IF n = "box" THEN 2 ELSE 1]
MCInside == [n \in {"in"} |-> "box"]
MCStarts == {[at |-> [box |-> 0, in |-> 0, out |-> 3], fixed |-> {"out"}],
             [at |-> [box |-> 0, in |-> 1, out |-> 2], fixed |-> {}]}

Plain(stem) == [stem |-> stem, exts |-> 0, form |-> "composed"]
MCBoardNames == {Plain(stem) : stem \in {"a", "index", "_d2_index", ".."}}
                  \cup {[Plain(stem) EXCEPT !.exts = 1] : stem \in {"a", "index"}}
                  \cup {[Plain("a") EXCEPT !.form = "decomposed"]}
Output == INSTANCE BoardPaths WITH NBoards <- NPaths, Names <- BoardNames
Editor == INSTANCE EditorKeys WITH NObjects <- NKeys, Names <- KeyNames
MCKeyNames == {<<"x">>, <<"x", 2>>, <<"x", 3>>, <<"y">>}

\* A main file with two imports, which import in turn; one file may be faulty.
Import == INSTANCE ImportStack
Statement(f, how) == [to |-> f, how |-> how]
Globs == Statement("main", "glob")
MCSources ==
    LET first == {Statement(f, how) : f \in {"a", "b"}, how \in {"top", "nested", "absent"}}
        tops(fs) == {<<Statement(f, "top")>> : f \in fs}
    IN  [main : {<<s, Statement("b", how)>> : s \in first \cup {Globs},
                                            how \in {"top", "nested", "board"}}
                  \cup {<<Statement("a", "top"), Globs, Statement("b", "top")>>},
         a : {<<>>, <<Globs, Statement("b", "top")>>} \cup tops({"main", "a", "b"}),
         b : {<<>>, <<Globs>>, <<Statement("c", "nested"), Statement("c", "top")>>}
               \cup tops({"a", "c"}),
         c : {<<>>} \cup tops({"a"})]
MCFlaws ==
    {[f \in ImportFiles |-> IF f = "b" THEN w ELSE "none"] :
        w \in {"none", "missing", "syntax", "meaning"}}

ASSUME NestedAssumption == NObjects \in Nat
ASSUME BoardAssumption ==
    /\ NBoards \in Nat \ {0}
    /\ Contents \subseteq [input : {c.input : c \in Contents},
                            style : {c.style : c \in Contents}, special : BOOLEAN]

\* What the limits, strides and charges are: limits leave room for one more unit,
\* as those of the engine do by orders of magnitude.
ASSUME GuardAssumption ==
    /\ MaxWorkInt \in Nat
    /\ Limits \subseteq 0..(MaxWorkInt - 1) /\ Limits # {}
    /\ Strides \subseteq Nat \ {0} /\ Strides # {}
    /\ Charges \subseteq (-MaxWorkInt)..MaxWorkInt
ASSUME TrialAssumption ==
    /\ IsFiniteSet(Nodes) /\ Width \in [Nodes -> Int] /\ Places \subseteq Int
    /\ DOMAIN Inside \subseteq Nodes /\ \A n \in DOMAIN Inside : Inside[n] \in Nodes
    /\ Starts \subseteq [at : [Nodes -> Int], fixed : SUBSET Nodes] /\ Starts # {}

\* What strings are: an escape is that of one name and no word d2 uses, and what it
\* begins with is the prefix that boardOutputComponent reserves.
ASSUME PathAssumption ==
    /\ NPaths \in Nat \ {0}
    /\ \A m \in BoardNames :
         /\ m = [stem |-> m.stem, exts |-> m.exts, form |-> m.form]
         /\ Output!Escaped(m) \notin {"index", "layers", "scenarios", "steps"}
         /\ \A n \in BoardNames :
              /\ Output!Escaped(m) = Output!Escaped(n) => m.stem = n.stem
              /\ Output!Escaped(m) = n.stem => n.stem \in Prefixed

ASSUME KeyAssumption == Editor!KeysFit
ASSUME ImportAssumption == Import!ImportsFit

SeedsAtRest ==
    /\ good = {}
    /\ score = [i \in Index |-> [penalty |-> 0, area |-> 0]]
    /\ jobs = NSeeds
    /\ at = [w \in Workers |-> "exited"]
    /\ job = [w \in Workers |-> -1]
    /\ succeeded = {} /\ received = {}
    /\ bestIndex = -1
    /\ kind = "ordinary" /\ phase = "done" /\ result = "error"
    /\ cancelled = TRUE

Parts == {"seeds", "nested", "boards", "guard", "trial", "paths", "keys", "imports"}

PartsInit ==
    /\ part \in Parts
    /\ \/ part = "seeds" /\ Init
       \/ part # "seeds" /\ SeedsAtRest
    /\ \/ part = "nested" /\ Nested!Init
       \/ part # "nested" /\ Nested!AtRest
    /\ \/ part = "boards" /\ Compilation!Init
       \/ part # "boards" /\ Compilation!AtRest
    /\ \/ part = "guard" /\ Guard!Init
       \/ part # "guard" /\ Guard!AtRest
    /\ \/ part = "trial" /\ Trial!Init
       \/ part # "trial" /\ Trial!AtRest
    /\ \/ part = "paths" /\ Output!Init
       \/ part # "paths" /\ Output!AtRest
    /\ \/ part = "keys" /\ Editor!Init
       \/ part # "keys" /\ Editor!AtRest
    /\ \/ part = "imports" /\ Import!Init
       \/ part # "imports" /\ Import!AtRest

PartsNext ==
    /\ UNCHANGED part
    /\ \/ /\ part = "seeds" /\ Next
          /\ UNCHANGED <<nestedState, boardState, guardState, trialState, pathState, keyState,
                          importState>>
       \/ /\ part = "nested" /\ Nested!Next
          /\ UNCHANGED <<vars, boardState, guardState, trialState, pathState, keyState,
                          importState>>
       \/ /\ part = "boards" /\ Compilation!Next
          /\ UNCHANGED <<vars, nestedState, guardState, trialState, pathState, keyState,
                          importState>>
       \/ /\ part = "guard" /\ Guard!Next
          /\ UNCHANGED <<vars, nestedState, boardState, trialState, pathState, keyState,
                          importState>>
       \/ /\ part = "trial" /\ Trial!Next
          /\ UNCHANGED <<vars, nestedState, boardState, guardState, pathState, keyState,
                          importState>>
       \/ /\ part = "paths" /\ Output!Next
          /\ UNCHANGED <<vars, nestedState, boardState, guardState, trialState, keyState,
                          importState>>
       \/ /\ part = "keys" /\ Editor!Next
          /\ UNCHANGED <<vars, nestedState, boardState, guardState, trialState, pathState,
                          importState>>
       \/ /\ part = "imports" /\ Import!Next
          /\ UNCHANGED <<vars, nestedState, boardState, guardState, trialState, pathState,
                          keyState>>

\* The fairness of the seed search, the only part with a liveness property.
SeedsFair(step) ==
    /\ part = "seeds" /\ step
    /\ UNCHANGED <<nestedState, boardState, guardState, trialState, pathState, keyState,
                   importState, part>>

PartsSpec ==
    /\ PartsInit /\ [][PartsNext]_partVars
    /\ WF_partVars(SeedsFair(MainStep))
    /\ \A w \in Workers : WF_partVars(SeedsFair(WorkerStep(w)))

PartsTypeOK ==
    /\ part = "seeds" => TypeOK
    /\ part = "nested" => Nested!TypeOK
    /\ part = "boards" => Compilation!TypeOK
    /\ part = "guard" => Guard!TypeOK
    /\ part = "trial" => Trial!TypeOK
    /\ part = "paths" => Output!TypeOK
    /\ part = "keys" => Editor!TypeOK
    /\ part = "imports" => Import!TypeOK

\* Cutting nested diagrams out of a board is like cutting them out one by one, and an
\* extraction that fails puts everything back.
ExtractionIsSequential == part = "nested" => Nested!ExtractionIsSequential

\* A layout of nested diagrams gives back every object and edge it took, in order.
LayoutRestores == part = "nested" => Nested!LayoutRestores

\* A board never shows the geometry of another content than its own, and a compilation
\* whose context has ended before a layout does not return a diagram.
ReuseIsHarmless == part = "boards" => Compilation!ReuseIsHarmless

\* A compilation that keeps what it has imported finds what importing it anew would.
CachingIsHarmless == part = "imports" => Import!CachingIsHarmless

\* A charge is taken whole and within the limit, or refused and leaves no trace.
ChargesExact == Guard!ChargesExact

\* Charging many units at once polls the context as charging them one by one does.
PollingExact == part = "guard" => Guard!PollingExact

\* A move that is accepted leaves no overlap it brought about.
AcceptedIsValid == part = "trial" => Trial!AcceptedIsValid

\* A move that is rejected leaves everything as it was.
RejectionRestores == Trial!RejectionRestores

\* The output tree that is accepted has one owner for every path.
PathsClaimed == part = "paths" => Output!PathsClaimed

\* Keys end up as the deltas given before the edit had foretold.
AsPredicted == part = "keys" => Editor!AsPredicted
=============================================================================
