----------------------------- MODULE NestedLayout -----------------------------
(***************************************************************************)
(* LayoutNested of d2layouts: nested diagrams (grids, sequences, objects   *)
(* at a constant near) are cut out of the graph, laid out on their own,    *)
(* and put back after the rest has been laid out around placeholders.      *)
(* Several at once are cut out in one pass over the graph.  What a layout  *)
(* computes is left out; it may reorder the graph, and it may fail.        *)
(***************************************************************************)
EXTENDS Integers, SequencesExt

CONSTANT NObjects

VARIABLES
    graph,      \* the graph, and what has been cut out of it
    given,      \* the graph at the call
    form,       \* form[o]: "plain", "near", or "special" for grid and sequence
    inGrid,     \* the graph is itself a grid, nested in another graph
    nesting,    \* "idle", "cutting", "returned", "failed", "failed nested"
    batched,    \* several diagrams have been cut out together
    todo,       \* queue
    external,   \* extractedEdges
    pulled,     \* extractedOrder
    nears       \* constantNears

nestedVars == <<graph, given, form, inGrid, nesting, batched, todo, external,
                pulled, nears>>
callVars == <<given, form, inGrid>>

Root == 0
Shapes == 1..NObjects
RootOf(c) == NObjects + c       \* the root of the graph cut out for c
Roots == {Root} \cup {RootOf(c) : c \in Shapes}
Lifeline == 0       \* as an end of an edge: a lifeline's, no object of the graph
Empty == [objs |-> <<>>, edges |-> <<>>, external |-> <<>>]

\* The elements of q that are in S, in order.
Those(q, S) ==
    LET those[i \in 0..Len(q)] ==
          IF i = 0 THEN <<>>
          ELSE IF q[i] \in S THEN Append(those[i - 1], q[i]) ELSE those[i - 1]
    IN  those[Len(q)]

Ordered(S) == Those([o \in Shapes |-> o], S)

\* All edges there can be: whether and where one is cut out depends on its ends.
Edges == {e \in Shapes \X (Shapes \cup {Lifeline}) : e[1] # e[2]}
AllEdges ==
    Those([k \in 1..(NObjects * (NObjects + 1)) |->
             <<(k - 1) \div (NObjects + 1) + 1, (k - 1) % (NObjects + 1)>>], Edges)
Sorted(edges) == Those(AllEdges, Range(edges))

Trees == {p \in [Shapes -> 0..NObjects] : \A o \in Shapes : p[o] < o}
GraphOf(p) ==
    [objs |-> Ordered(Shapes), edges |-> AllEdges, parent |-> p,
     kids |-> [x \in Shapes \cup Roots |-> Ordered({o \in Shapes : p[o] = x})],
     sub |-> [c \in Shapes |-> Empty]]

TypeOK ==
    /\ Range(graph.objs) \subseteq Shapes /\ Range(graph.edges) \subseteq Range(AllEdges)
    /\ graph.parent \in [Shapes -> Shapes \cup Roots]
    /\ nesting \in {"idle", "cutting", "returned", "failed", "failed nested"}
    /\ Range(todo) \cup Range(pulled) \cup Range(nears) \subseteq Shapes
    /\ Range(external) \subseteq Range(AllEdges)
    /\ batched \in BOOLEAN /\ inGrid \in BOOLEAN

Called(p, k, i) ==
    /\ graph = GraphOf(p) /\ given = graph
    /\ form = k /\ inGrid = i
    /\ nesting = "idle" /\ batched = FALSE
    /\ todo = <<>> /\ external = <<>> /\ pulled = <<>> /\ nears = <<>>

\* A constant near is allowed only on the objects of the outermost root.
Init ==
    \E p \in Trees, k \in [Shapes -> {"plain", "special", "near"}], i \in BOOLEAN :
        /\ \A o \in Shapes : k[o] = "near" => p[o] = Root /\ ~i
        /\ Called(p, k, i)

AtRest == Called([o \in Shapes |-> Root], [o \in Shapes |-> "plain"], FALSE)

-----------------------------------------------------------------------------
(* Cutting out and putting back                                            *)

\* IsDescendantOf: o is c, or below it, so that c is in every set that has o and the
\* parents of what it has.
Below(g, o, c) ==
    /\ o \in Shapes
    /\ \A S \in SUBSET Shapes :
         o \in S /\ (\A x \in S : g.parent[x] \in S \cup Roots) => c \in S

\* c, or what is in it, becomes the content of a root of its own.
Reparent(g, c, self) ==
    LET top == IF self THEN <<c>> ELSE g.kids[c]
        from == IF self THEN g.parent[c] ELSE c
    IN  [g EXCEPT !.parent = [o \in Shapes |-> IF o \in Range(top) THEN RootOf(c)
                                              ELSE g.parent[o]],
                  !.kids = [g.kids EXCEPT
                               ![RootOf(c)] = top,
                               ![from] = Those(g.kids[from], Shapes \ Range(top))]]

\* ExtractSubgraph.
Extract(g, c, self) ==
    LET nested == {o \in Shapes : Below(g, IF self THEN o ELSE g.parent[o], c)}
        both == {e \in Edges : e[1] \in nested /\ e[2] \in nested \cup {Lifeline}}
        none == {e \in Edges : e[1] \notin nested /\ e[2] \notin nested}
        cut == [objs |-> Those(g.objs, nested), edges |-> Those(g.edges, both),
                external |-> Those(g.edges, Edges \ (both \cup none))]
    IN  [Reparent(g, c, self) EXCEPT
            !.objs = Those(g.objs, Shapes \ nested),
            !.edges = Those(g.edges, none),
            !.sub = [g.sub EXCEPT ![c] = cut]]

IncludeSelf(c) == form[c] = "near"
CutOut(g, c) == Extract(g, c, IncludeSelf(c))

\* collectNestedExtractions: the topmost nested diagrams, breadth first.
Specs(g) ==
    LET isDiagram(o) == form[o] = "near" \/ (form[o] = "special" /\ g.kids[o] # <<>>)
        step(queue, specs) ==
          LET o == Head(queue)
          IN  [queue |-> Tail(queue) \o IF form[o] = "plain" THEN g.kids[o] ELSE <<>>,
               specs |-> IF isDiagram(o) THEN Append(specs, o) ELSE specs]
        walk[n \in 0..NObjects] ==
          IF n = 0 THEN [queue |-> g.kids[Root], specs |-> <<>>]
          ELSE IF walk[n - 1].queue = <<>> THEN walk[n - 1]
          ELSE step(walk[n - 1].queue, walk[n - 1].specs)
    IN  walk[NObjects].specs

\* Mutant: an edge between two diagrams goes to that of its source.
OwnerOfSource(owners) ==
    IF owners[1] # 0 THEN owners[1] ELSE owners[2]

\* An edge that leaves a diagram belongs to the first one it touches.
FirstOwner(owners) ==
    IF owners[1] = 0 \/ (owners[2] # 0 /\ owners[2] < owners[1])
    THEN owners[2] ELSE owners[1]

\* What is left of cutting c out of the graph once its members are known.
Uproot(g, c) == Reparent(g, c, IncludeSelf(c))

\* extractSubgraphs: one pass decides for every object and edge, by the nearest
\* diagram it is in, and only then are the diagrams given their roots.
ExtractAll(g, specs) ==
    LET in(o) == {i \in DOMAIN specs :
                    /\ o # Lifeline /\ Below(g, o, specs[i])
                    /\ IncludeSelf(specs[i]) \/ o # specs[i]}
        owner == [o \in Shapes \cup {Lifeline} |-> IF in(o) = {} THEN 0 ELSE Max(in(o))]
        owned(i) == {o \in Shapes : owner[o] = i}
        inside(i) == {e \in Edges : owner[e[1]] = i /\ (e[2] = Lifeline \/ owner[e[2]] = i)}
        leaving(i) == {e \in Edges : /\ e \notin inside(owner[e[1]])
                                    /\ i = FirstOwner(<<owner[e[1]], owner[e[2]]>>)}
        cut(i) == [objs |-> Those(g.objs, owned(i)), edges |-> Those(g.edges, inside(i)),
                   external |-> Those(g.edges, leaving(i))]
        rest == [g EXCEPT
                    !.objs = Those(g.objs, owned(0)),
                    !.edges = Those(g.edges, inside(0)),
                    !.sub = [c \in Shapes |->
                        IF c \in Range(specs)
                        THEN cut(CHOOSE i \in DOMAIN specs : specs[i] = c)
                        ELSE g.sub[c]]]
    IN  FoldLeft(Uproot, rest, specs)

\* InjectNested.
Inject(g, into, c) ==
    LET top == g.kids[RootOf(c)]
    IN  [g EXCEPT
            !.parent = [o \in Shapes |-> IF o \in Range(top) THEN into ELSE g.parent[o]],
            !.kids = [g.kids EXCEPT ![into] = @ \o top, ![RootOf(c)] = <<>>],
            !.objs = g.objs \o g.sub[c].objs,
            !.edges = g.edges \o g.sub[c].edges,
            !.sub = [g.sub EXCEPT ![c] = Empty]]

\* A nested diagram is put back into its container, an object at a near into the root.
Restore(g, c) == Inject(g, IF IncludeSelf(c) THEN Root ELSE c, c)

WithEdges(g, edges) == [g EXCEPT !.edges = g.edges \o edges]

\* The function that SaveOrder returns.
RestoreOrder(g) ==
    [g EXCEPT !.objs = Ordered(Range(g.objs)), !.edges = Sorted(g.edges),
              !.kids = [g.kids EXCEPT ![Root] = Ordered(Range(@))]]

\* rollbackAfter: the diagrams after the i-th, which failed, are put back.
PutBack(g, c) == WithEdges(Restore(g, c), g.sub[c].external)
RollbackAfter(g, specs, i) == FoldLeft(PutBack, g, SubSeq(specs, i + 1, Len(specs)))

-----------------------------------------------------------------------------
(* LayoutNested                                                            *)

Begin ==
    LET specs == Specs(graph)
    IN  /\ nesting = "idle"
        /\ nesting' = "cutting"
        /\ batched' = (~inGrid /\ Len(specs) > 1)
        /\ graph' = IF batched' THEN ExtractAll(graph, specs) ELSE graph
        /\ todo' = IF batched' THEN specs ELSE graph.kids[Root]
        /\ UNCHANGED <<callVars, external, pulled, nears>>

FailWith(g, how) ==
    /\ nesting' = how
    /\ graph' = RestoreOrder(g)
    /\ UNCHANGED <<callVars, batched, todo, external, pulled, nears>>

CarryOn(g) ==
    /\ graph' = g
    /\ UNCHANGED <<callVars, nesting, batched>>

Skip(c) ==
    /\ CarryOn(graph)
    /\ todo' = Tail(todo) \o IF form[c] = "plain" THEN graph.kids[c] ELSE <<>>
    /\ UNCHANGED <<external, pulled, nears>>

\* A nested diagram is laid out, or its layout fails.
LayoutOne(c, ok) ==
    LET g == IF batched THEN graph ELSE CutOut(graph, c)
    IN  IF ok
        THEN /\ CarryOn(g)
             /\ todo' = Tail(todo)
             /\ external' = external \o g.sub[c].external
             /\ IF form[c] = "near"
                THEN nears' = Append(nears, c) /\ UNCHANGED pulled
                ELSE pulled' = Append(pulled, c) /\ UNCHANGED nears
        ELSE FailWith(IF batched
                      THEN RollbackAfter(g, Specs(given), Len(pulled \o nears) + 1)
                      ELSE g, "failed nested")

\* Mutant: the edges that leave a cell are not put back with it.
CellWithoutEdges(g, c) == Extract(RestoreOrder(Inject(g, Root, c)), c, FALSE)

\* A laid out cell is put back with its edges, and its contents cut out.
CellContents(g, c) ==
    Extract(RestoreOrder(WithEdges(Inject(g, Root, c), g.sub[c].external)), c, FALSE)

\* A plain container in a grid is first laid out with itself.
LayoutCell(c, ok) ==
    LET cell == Extract(graph, c, TRUE)
        g == CellContents(cell, c)
    IN  IF ok
        THEN /\ CarryOn(g)
             /\ todo' = Tail(todo)
             /\ external' = external \o g.sub[c].external
             /\ pulled' = Append(pulled, c) /\ UNCHANGED nears
        ELSE FailWith(cell, "failed")

Visit(ok) ==
    LET c == Head(todo)
        cell == inGrid /\ graph.parent[c] = Root /\ graph.kids[c] # <<>>
    IN  /\ nesting = "cutting" /\ todo # <<>>
        /\ \/ form[c] = "plain" /\ cell /\ LayoutCell(c, ok)
           \/ form[c] = "plain" /\ ~cell /\ ok /\ Skip(c)
           \/ /\ form[c] = "special" /\ graph.kids[c] = <<>> /\ ~batched
              /\ ok /\ Skip(c)
           \/ /\ \/ form[c] = "near" \/ batched
                 \/ form[c] = "special" /\ graph.kids[c] # <<>>
              /\ LayoutOne(c, ok)

\* The layout of what is left, which may fail or reorder it; then everything is
\* put back and the edges between the parts are routed, which may fail too.
Finish(ok, reordered) ==
    LET shuffle(q) == IF reordered THEN Reverse(q) ELSE q
        laid == [graph EXCEPT !.objs = shuffle(graph.objs), !.edges = shuffle(graph.edges),
                              !.kids = [graph.kids EXCEPT ![Root] = shuffle(@)]]
        whole == FoldLeft(Restore, laid, nears \o pulled)
    IN  /\ nesting = "cutting" /\ todo = <<>>
        /\ \/ ~ok /\ graph.objs # <<>> /\ FailWith(laid, "failed")
           \/ ~ok /\ external # <<>> /\ FailWith(WithEdges(whole, external), "failed")
           \/ /\ ok
              /\ nesting' = "returned"
              /\ graph' = RestoreOrder(WithEdges(whole, external))
              /\ UNCHANGED <<callVars, batched, todo, external, pulled, nears>>

Next ==
    \/ Begin
    \/ \E ok \in BOOLEAN : Visit(ok) \/ \E r \in BOOLEAN : Finish(ok, r)

Spec == Init /\ [][Next]_nestedVars

-----------------------------------------------------------------------------
(* Properties                                                              *)

\* Cutting out one diagram after the other: what the pass over all stands for.
OneByOne(n) ==
    FoldLeft(CutOut, given, SubSeq(Specs(given), 1, n))

\* The pass over all diagrams gives what cutting them out one by one gives, also
\* for edges between two of them.
BatchIsSequential ==
    nesting = "cutting" /\ batched => graph = OneByOne(Len(Specs(given)))

\* When the layout of one of them fails, those after it are back in the graph,
\* which is as if they had never been cut out.
RollbackIsSequential ==
    nesting = "failed nested" /\ batched =>
        graph = RestoreOrder(OneByOne(Len(pulled \o nears) + 1))

\* An extraction that is complete, and one that is undone, is that of each in turn.
ExtractionIsSequential == BatchIsSequential /\ RollbackIsSequential

\* A layout returns the graph it was given: every object in its place of the
\* tree, every object and edge once, in the order they had.
LayoutRestores == nesting = "returned" => graph = given

=============================================================================
