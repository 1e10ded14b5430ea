----------------------------- MODULE ImportStack -----------------------------
(***************************************************************************)
(* Imports in the compiler of d2ir (import.go).  A file is compiled where  *)
(* it is imported, with the files being compiled on a stack that finds     *)
(* cycles.  What a file was parsed and compiled to is kept, and cloned for *)
(* the next import of it, if its meaning does not depend on where it is    *)
(* imported.                                                               *)
(*                                                                         *)
(* A file is the sequence of its imports, some of them below a map or a    *)
(* board, and of its globs.  What it is compiled to is a tree: the file,   *)
(* the context it was compiled in, and the trees it imports.               *)
(***************************************************************************)
EXTENDS Integers, SequencesExt

CONSTANTS
    ImportFiles,    \* the files there are
    Main,           \* the one compiled
    Sources,        \* bound: what the files hold
    Flaws,          \* bound: what is wrong with each of them
    MaxImportDepth

VARIABLES
    program, fault,     \* program[f] and fault[f]
    stack,              \* importStack, with what is known of each file on it
    parsed,             \* parsedImports
    templates,          \* importTemplates
    seen,               \* seenImports
    imports,            \* the immediate imports
    errors,             \* c.err.Errors
    compiled            \* "not yet", "ok", "failed", "stopped"

importVars == <<program, fault, stack, parsed, templates, seen, imports, errors,
                compiled>>
sourceVars == <<program, fault>>

Statements == [to : ImportFiles, how : {"top", "nested", "board", "absent", "glob"}]

\* What files are: statements, and in the main one, which Compile is given parsed,
\* nothing is wrong but what it imports.
ImportsFit ==
    /\ IsFiniteSet(ImportFiles) /\ Main \in ImportFiles /\ MaxImportDepth \in Nat
    /\ \A p \in Sources : p \in [ImportFiles -> Seq(Statements)]
    /\ \A w \in Flaws : /\ w \in [ImportFiles -> {"none", "missing", "syntax", "meaning"}]
                        /\ w[Main] = "none"

NoTree == <<"none">>
Frame(f, globs, nested, keep) ==
    [file |-> f, rest |-> program[f], parts |-> <<>>,
     globs |-> globs,       \* globContexts() is not empty
     under |-> globs,       \* nor was it where f is imported
     nested |-> nested,     \* mapRefContextStack is not empty
     keep |-> keep,         \* cacheable
     before |-> Len(errors)]

Tree(f, globs, nested, parts) == <<f, globs, nested, parts>>
TreeOf(frame) == Tree(frame.file, frame.under, frame.nested, frame.parts)

TypeOK ==
    /\ program \in Sources /\ fault \in Flaws
    /\ \A i \in DOMAIN stack : stack[i].file \in ImportFiles
    /\ parsed \subseteq ImportFiles /\ seen \subseteq ImportFiles
    /\ Range(imports) \subseteq ImportFiles
    /\ DOMAIN templates = ImportFiles
    /\ compiled \in {"not yet", "ok", "failed", "stopped"}

Written(p, w) ==
    /\ program = p /\ fault = w
    /\ stack = <<[file |-> Main, rest |-> p[Main], parts |-> <<>>, globs |-> FALSE,
                  under |-> FALSE, nested |-> FALSE, keep |-> FALSE, before |-> 0]>>
    /\ parsed = {} /\ seen = {} /\ imports = <<>> /\ errors = <<>>
    /\ templates = [f \in ImportFiles |-> NoTree]
    /\ compiled = "not yet"

Init == \E p \in Sources, w \in Flaws : Written(p, w)
AtRest == Written(CHOOSE p \in Sources : TRUE, CHOOSE w \in Flaws : TRUE)

-----------------------------------------------------------------------------

Top == stack[Len(stack)]
Goes == compiled = "not yet" /\ Top.rest # <<>>
Statement == Head(Top.rest)
OnStack(f) == \E i \in DOMAIN stack : stack[i].file = f

\* The next statement of a frame is dealt with, and gives the parts ps.
Past(frame, ps) ==
    [frame EXCEPT !.rest = Tail(frame.rest), !.parts = frame.parts \o ps]

Advanced(ps) == [stack EXCEPT ![Len(stack)] = Past(Top, ps)]

\* A glob is recomputed for all that is compiled after it, imports included.
Glob ==
    /\ Goes /\ Statement.how = "glob"
    /\ stack' = [stack EXCEPT ![Len(stack)] =
                    [Top EXCEPT !.rest = Tail(Top.rest), !.globs = TRUE]]
    /\ UNCHANGED <<sourceVars, parsed, templates, seen, imports, errors, compiled>>

Imports(f) == Goes /\ Statement.how # "glob" /\ Statement.to = f

\* Nothing comes of an import, and e is reported.
Rejected(e) ==
    /\ errors' = errors \o e
    /\ stack' = Advanced(<<>>)
    /\ UNCHANGED <<sourceVars, templates, seen, compiled>>

\* pushImportStack: an import too deep, or of a file that is being compiled.
RejectPush(f) ==
    /\ Imports(f)
    /\ \/ /\ Len(stack) - 1 >= MaxImportDepth
          /\ Rejected(<<"depth">>)
       \/ /\ Len(stack) - 1 < MaxImportDepth /\ OnStack(f)
          /\ Rejected(<<"cycle">>)
    /\ UNCHANGED <<parsed, imports>>

MayImport(f) == Imports(f) /\ Len(stack) - 1 < MaxImportDepth /\ ~OnStack(f)

\* Mutant: an import is listed each time.
ListedAlways(f) == IF Len(stack) = 1 THEN Append(imports, f) ELSE imports

\* "Only get immediate imports."
Listed(f) ==
    IF Len(stack) = 1 /\ f \notin seen THEN Append(imports, f) ELSE imports

\* Mutant: a file is cached whatever applies to it.
CacheableAnywhere == Statement.how # "board"

\* A file imported as a board, below a map, or where globs apply is compiled anew.
Cacheable == Statement.how \in {"top", "absent"} /\ ~Top.globs /\ ~Top.nested

\* selectImport: the part of an import that is asked for may not exist.
Selected(how, tree) == IF how = "absent" THEN <<>> ELSE <<tree>>
SelectError(how) == IF how = "absent" THEN <<"key">> ELSE <<>>

UseTemplate(f) ==
    /\ MayImport(f) /\ Cacheable /\ templates[f] # NoTree
    /\ imports' = Listed(f)
    /\ seen' = seen \cup {f}
    /\ errors' = errors \o SelectError(Statement.how)
    /\ stack' = Advanced(Selected(Statement.how, templates[f]))
    /\ UNCHANGED <<sourceVars, parsed, templates, compiled>>

Fresh(f) == MayImport(f) /\ ~(Cacheable /\ templates[f] # NoTree)

\* loadImportAST: a file that cannot be opened or parsed is reported each time.  The
\* parser shares c.err, and returns no file at all once there is any error in it.
RejectLoad(f) ==
    /\ Fresh(f) /\ f \notin parsed
    /\ imports' = Listed(f)
    /\ \/ fault[f] = "missing" /\ Rejected(<<"open">>)
       \/ fault[f] = "syntax" /\ Rejected(<<"syntax">>)
       \/ fault[f] \notin {"missing", "syntax"} /\ errors # <<>> /\ Rejected(<<>>)
    /\ UNCHANGED parsed

\* The file is compiled, and may have errors of its own.
Descend(f) ==
    /\ Fresh(f)
    /\ f \in parsed \/ (fault[f] \notin {"missing", "syntax"} /\ errors = <<>>)
    /\ imports' = Listed(f)
    /\ parsed' = parsed \cup {f}
    /\ errors' = IF fault[f] = "meaning" THEN Append(errors, "meaning") ELSE errors
    /\ stack' = Append(stack, Frame(f, Top.globs, Top.nested \/ Statement.how = "nested",
                                    Cacheable))
    /\ UNCHANGED <<sourceVars, templates, seen, compiled>>

\* A file is kept if nothing was wrong with it, nor with what it imports.
Kept(frame) == frame.keep /\ Len(errors) = frame.before

\* An import is complete: it is kept if it may be, and taken out of the stack.
Ascend ==
    LET done == Top
        below == Front(stack)
        how == Head(below[Len(below)].rest).how
    IN  /\ compiled = "not yet" /\ Len(stack) > 1 /\ Top.rest = <<>>
        /\ seen' = seen \cup {done.file}
        /\ templates' = IF Kept(done)
                        THEN [templates EXCEPT ![done.file] = TreeOf(done)]
                        ELSE templates
        /\ errors' = errors \o SelectError(how)
        /\ stack' = [below EXCEPT ![Len(below)] =
                        Past(below[Len(below)], Selected(how, TreeOf(done)))]
        /\ UNCHANGED <<sourceVars, parsed, imports, compiled>>

\* Compile returns.
Return ==
    /\ compiled = "not yet" /\ Len(stack) = 1 /\ Top.rest = <<>>
    /\ compiled' = IF errors = <<>> THEN "ok" ELSE "failed"
    /\ UNCHANGED <<sourceVars, stack, parsed, templates, seen, imports, errors>>

\* The context ends, or a budget for expansions is used up.
Stop ==
    /\ compiled = "not yet"
    /\ compiled' = "stopped"
    /\ UNCHANGED <<sourceVars, stack, parsed, templates, seen, imports, errors>>

Next ==
    \/ Glob \/ Ascend \/ Return \/ Stop
    \/ \E f \in ImportFiles :
         RejectPush(f) \/ UseTemplate(f) \/ RejectLoad(f) \/ Descend(f)

-----------------------------------------------------------------------------
(* Properties                                                              *)

Targets(f) == {s.to : s \in {s \in Range(program[f]) : s.how # "glob"}}

\* Files reached from f by following imports.
Reached(f) ==
    {g \in ImportFiles :
        \A S \in SUBSET ImportFiles :
            Targets(f) \subseteq S /\ (\A h \in S : Targets(h) \subseteq S) => g \in S}

Cyclic == \E f \in {Main} \cup Reached(Main) : f \in Reached(f)

Broken ==
    \E f \in {Main} \cup Reached(Main) :
        fault[f] # "none" \/ \E s \in Range(program[f]) : s.how = "absent"

\* What the first i statements of a file come to in the context c, if every file they
\* import is compiled to what below says.
Contexts == [file : ImportFiles, globs : BOOLEAN, nested : BOOLEAN]
Walk(c, below) ==
    LET read(w, s) ==
          IF s.how = "glob" THEN [globs |-> TRUE, parts |-> w.parts]
          ELSE [globs |-> w.globs,
                parts |-> Append(w.parts, below[[file |-> s.to, globs |-> w.globs,
                                                nested |-> c.nested \/ s.how = "nested"]])]
        walk[i \in 0..Len(program[c.file])] ==
          IF i = 0 THEN [globs |-> c.globs, parts |-> <<>>]
          ELSE read(walk[i - 1], program[c.file][i])
    IN  walk
AllOf(c, below) ==
    Tree(c.file, c.globs, c.nested, Walk(c, below)[Len(program[c.file])].parts)

\* The trees of all files, compiled anew at every import; d is the depth at which they
\* end, which does not matter unless there is a cycle.
Anew[d \in 0..Cardinality(ImportFiles)] ==
    IF d = 0 THEN [c \in Contexts |-> AllOf(c, [x \in Contexts |-> NoTree])]
    ELSE [c \in Contexts |-> AllOf(c, Anew[d - 1])]

\* A chain of imports from Main that is too long.
TooDeep ==
    \E q \in [0..(MaxImportDepth + 1) -> ImportFiles] :
        q[0] = Main /\ \A i \in 0..MaxImportDepth : q[i + 1] \in Targets(q[i])

InMain == [file |-> Main, globs |-> FALSE, nested |-> FALSE]

\* A compilation that succeeds has found what compiling every import anew would have
\* found, in the same context, so that no kept file hides a cycle or an error; one
\* that fails has a reason in the files.
AsIfAnew ==
    /\ compiled = "ok" =>
         ~Cyclic /\ ~Broken /\ TreeOf(Top) = Anew[Cardinality(ImportFiles)][InMain]
    /\ compiled = "failed" => Cyclic \/ Broken \/ TooDeep

\* The imports listed are immediate ones, each once; what is not listed was imported
\* by one of those before.
ListedOnce ==
    compiled = "ok" =>
        /\ IsInjective(imports) /\ Range(imports) \subseteq Targets(Main)
        /\ \A f \in Targets(Main) \ Range(imports) :
              \E g \in Range(imports) : f \in Reached(g)

\* Keeping what was compiled changes nothing about a compilation.
CachingIsHarmless == AsIfAnew /\ ListedOnce

=============================================================================
