------------------------------ MODULE BoardPaths ------------------------------
(***************************************************************************)
(* The output paths of the boards of a diagram (board_output.go): each     *)
(* board is named a file under the directory of its parent, and all of     *)
(* them are claimed before anything is rendered.  A tree in which two      *)
(* boards need the same path, or one needs for a directory what another    *)
(* needs for a file, is refused.                                           *)
(*                                                                         *)
(* A path is the sequence of its components.  A component has a stem, a    *)
(* number of suffixes equal to the extension of the output, and the way    *)
(* its letters are composed, which no file system need distinguish.        *)
(***************************************************************************)
EXTENDS Integers, SequencesExt

CONSTANTS
    NBoards,
    Names,          \* names of boards, siblings having different ones
    Unportable,     \* stems that are no file name everywhere
    Prefixed        \* stems that begin as escaped names do

VARIABLES
    above, listed,  \* the parent of each board, and which of its lists it is in;
                    \* boards are numbered in the order they are visited
    name,           \* name[b]; the first board has none
    folderOnly,     \* boards that have nothing of their own to show
    verdict         \* "none", "accepted", "refused"

pathVars == <<above, listed, name, folderOnly, verdict>>

Boards == 1..NBoards
Children(b, s) == {x \in Boards : above[x] = b /\ listed[x] = s}
Sections == <<"layers", "scenarios", "steps">>
Component(stem) == [stem |-> stem, exts |-> 0, form |-> "composed"]

TypeOK ==
    /\ above \in [Boards -> 0..NBoards] /\ listed \in [Boards -> 1..3]
    /\ name \in [Boards -> Names] /\ folderOnly \subseteq Boards
    /\ verdict \in {"none", "accepted", "refused"}

\* Every board comes after its parent and what is below its elder siblings.
Visited(p, s) ==
    /\ p[1] = 0 /\ s[1] = 1
    /\ \A b \in Boards \ {1} :
         /\ p[b] \in 1..(b - 1)
         /\ \A x \in (p[b] + 1)..(b - 1) : p[x] >= p[b]
         /\ \A x \in 1..(b - 1) : p[x] = p[b] => s[x] <= s[b]

Init ==
    /\ above \in [Boards -> 0..(NBoards - 1)] /\ listed \in [Boards -> 1..3]
    /\ Visited(above, listed)
    /\ name \in [Boards -> Names]
    /\ name[1] = CHOOSE n \in Names : TRUE
    /\ \A b, c \in Boards \ {1} :
         b < c /\ above[b] = above[c] /\ listed[b] = listed[c] => name[b] # name[c]
    /\ folderOnly \in {{}, {1}}
    /\ verdict = "none"

AtRest ==
    /\ above = [b \in Boards |-> b - 1] /\ listed = [b \in Boards |-> 1]
    /\ name = [b \in Boards |-> CHOOSE n \in Names : TRUE]
    /\ folderOnly = {} /\ verdict = "none"

-----------------------------------------------------------------------------
(* The paths                                                               *)

\* Names that d2 gives to files and directories, and those it escapes others to.
Reserved(n) ==
    \/ n.exts = 0 /\ n.stem \in {"index", "layers", "scenarios", "steps"}
    \/ n.stem \in Prefixed

\* boardOutputComponent.  The digest of a name is as good as the name.
Escaped(n) == "_d2_" \o n.stem

ComponentOf(n) ==
    IF Reserved(n) \/ n.stem \in Unportable
    THEN [stem |-> Escaped(n), exts |-> 0, form |-> n.form]
    ELSE n

\* planBoardOutput: the path of b before its extension, and that of its file.  What
\* is in one list only needs no directory for it.
Below(b, dirOf, s) ==
    IF \E t \in DOMAIN Sections \ {s} : Children(b, t) # {}
    THEN Append(dirOf, Component(Sections[s])) ELSE dirOf

Base[b \in Boards] ==
    IF b = 1 THEN <<Component("out")>>
    ELSE Append(Below(above[b], Base[above[b]], listed[b]), ComponentOf(name[b]))

WithExtension(path) == [path EXCEPT ![Len(path)].exts = @ + 1]

File(b) ==
    IF \E s \in DOMAIN Sections : Children(b, s) # {}
    THEN WithExtension(Append(Base[b], Component("index")))
    ELSE WithExtension(Base[b])

\* boardOutputCollisionKey.
Key(path) == [i \in DOMAIN path |-> <<path[i].stem, path[i].exts>>]

Dirs(key) == {SubSeq(key, 1, n) : n \in 1..(Len(key) - 1)}

-----------------------------------------------------------------------------
(* The claims                                                              *)

\* Mutant: a file is not compared with the directories of files before it.
AddFileOverDir(claims, b) ==
    LET key == Key(File(b))
    IN  IF b \in folderOnly THEN claims
        ELSE [ok    |-> /\ claims.ok /\ key \notin claims.files
                        /\ Dirs(key) \cap claims.files = {},
              files |-> claims.files \cup {key},
              dirs  |-> claims.dirs \cup Dirs(key)]

AddFile(claims, b) ==
    LET key == Key(File(b))
    IN  IF b \in folderOnly THEN claims
        ELSE [ok    |-> /\ claims.ok
                        /\ key \notin claims.files /\ key \notin claims.dirs
                        /\ Dirs(key) \cap claims.files = {},
              files |-> claims.files \cup {key},
              dirs  |-> claims.dirs \cup Dirs(key)]

\* validateBoardOutputPaths.
Claimed ==
    FoldLeft(AddFile, [ok |-> TRUE, files |-> {}, dirs |-> {}],
             [b \in Boards |-> b])

Validate ==
    /\ verdict = "none"
    /\ verdict' = IF Claimed.ok THEN "accepted" ELSE "refused"
    /\ UNCHANGED <<above, listed, name, folderOnly>>

Next == Validate

-----------------------------------------------------------------------------
(* Properties                                                              *)

Apart(b, c) == Key(File(b)) # Key(File(c)) /\ Key(File(b)) \notin Dirs(Key(File(c)))

\* The trees that are accepted are those all of whose boards can be written, in
\* whatever order: no file takes the place of another or of a directory.
AcceptedFit ==
    verdict # "none" =>
        (verdict = "accepted" <=>
            \A b, c \in Boards \ folderOnly : b # c => Apart(b, c))

\* Trees with ordinary names are accepted, also when these are the names d2 itself
\* uses, or those it escapes them to.
OrdinaryAccepted ==
    (\A b \in Boards : name[b].exts = 0 /\ name[b].form = "composed")
        => verdict # "refused"

\* What is accepted fits, and what a user may expect to fit is accepted.
PathsClaimed == AcceptedFit /\ OrdinaryAccepted

=============================================================================
