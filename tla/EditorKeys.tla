------------------------------ MODULE EditorKeys ------------------------------
(***************************************************************************)
(* How d2oracle names objects when it edits a diagram (edit.go): Delete    *)
(* hoists what is in an object out of it, under new names where these      *)
(* would clash, and Rename takes another name where one is taken.  Before  *)
(* an edit, DeleteIDDeltas and RenameIDDeltas tell an editor what will be  *)
(* called what; Delete itself trusts them to rewrite near constants.       *)
(*                                                                         *)
(* Diagrams here write every object once, in the map of its container, so  *)
(* that to edit the text is to edit the tree.  A name is a word and the    *)
(* numbers after it: x 2 is <<"x", 2>>.                                    *)
(***************************************************************************)
EXTENDS Integers, SequencesExt

CONSTANTS
    NObjects,
    Names           \* bound: names in the diagram, and those asked for

VARIABLES
    container,      \* the object each object is in, or Top; numbered as written
    named,          \* name of each object
    deleted,        \* objects deleted
    target,         \* the object edited, or Nobody
    predicted       \* history: the names foretold of the objects that remain

editorVars == <<container, named, deleted, target, predicted>>

Objects == 1..NObjects
Top == 0
Nobody == 0

Numbers == 2..(2 * NObjects)
AllNames == Names \cup {Append(n, k) : n \in Names, k \in Numbers}
In(o) == {c \in Objects \ deleted : container[c] = o}

\* What names are: a name that ends in a number is also one without it.
KeysFit ==
    /\ NObjects \in Nat
    /\ \A n \in Names : /\ Len(n) \in Nat \ {0} /\ n = [i \in 1..Len(n) |-> n[i]]
                        /\ Len(n) > 1 => Front(n) \in Names

\* Siblings have different names: they would be one object.
TypeOK ==
    /\ container \in [Objects -> {Top} \cup Objects]
    /\ named \in [Objects -> AllNames] /\ predicted \in [Objects -> AllNames]
    /\ deleted \subseteq Objects /\ target \in {Nobody} \cup Objects
    /\ \A a, b \in Objects \ deleted :
         a # b /\ container[a] = container[b] => named[a] # named[b]

Drawn(c, n) ==
    /\ container = c /\ named = n
    /\ deleted = {} /\ target = Nobody /\ predicted = n

Init ==
    \E c \in [Objects -> 0..(NObjects - 1)], n \in [Objects -> Names] :
        /\ \A o \in Objects : c[o] < o
        /\ \A a, b \in Objects : a < b /\ c[a] = c[b] => n[a] # n[b]
        /\ Drawn(c, n)

AtRest ==
    Drawn([o \in Objects |-> o - 1], [o \in Objects |-> CHOOSE n \in Names : TRUE])

-----------------------------------------------------------------------------
(* generateUniqueKey                                                       *)

Taken(names, where, ignored) == {names[o] : o \in In(where) \ ignored}

\* The number of a name that is taken is replaced, that of another one kept.
UniqueAmong(names, n, where, ignored, included) ==
    LET taken == Taken(names, where, ignored)
        stem == IF n \in taken /\ Len(n) > 1 THEN Front(n) ELSE n
        used == included \cup taken
    IN  IF stem \notin used THEN stem
        ELSE Append(stem, CHOOSE k \in Numbers :
                 /\ Append(stem, k) \notin used
                 /\ \A j \in 2..(k - 1) : Append(stem, j) \in used)

Unique(n, where, ignored, included) ==
    UniqueAmong(named, n, where, ignored, included)

-----------------------------------------------------------------------------
(* Delete                                                                  *)

\* The children of d as they are written.
InOrder(d) ==
    CHOOSE q \in SetToSeqs(In(d)) : \A i, j \in DOMAIN q : i < j => q[i] < q[j]

\* A child with the name of its container takes that name, so it is in the way.
Ignored(d) == IF \E c \in In(d) : named[c] = named[d] THEN {} ELSE {d}

\* renameConflictsToParent: the new name of one child after another.
RenameChild(d, done, c) ==
    LET seen == done.seen \cup {named[c]}
        rest == {named[o] : o \in In(d) \ {c}} \ seen
        new  == Unique(named[c], container[d], Ignored(d), done.new \cup rest)
    IN  CASE named[c] \in done.seen -> done
          [] named[c] \notin done.seen /\ named[c] = named[d] -> [done EXCEPT !.seen = seen]
          [] OTHER -> [seen  |-> seen \cup {new},
                       new   |-> done.new \cup {new},
                       names |-> [done.names EXCEPT ![c] = new]]

Renamed(d) ==
    FoldLeft(LAMBDA done, c : RenameChild(d, done, c),
             [seen |-> {}, new |-> {}, names |-> named], InOrder(d)).names

\* The renames are moves inside d, where a name that is taken makes way for another.
\* Those to a name in use come last, otherwise they come in any order.
Move(d, new, names, c) ==
    [names EXCEPT ![c] = UniqueAmong(names, new[c], d, {}, {})]

MoveOrders(d, new) ==
    LET moving  == {c \in In(d) : new[c] # named[c]}
        Late(c) == \E o \in moving : named[o] = new[c]
    IN  {q \in SetToSeqs(moving) :
            \A i, j \in DOMAIN q : i < j /\ Late(q[i]) => Late(q[j])}

Moved(d, new, order) ==
    FoldLeft(LAMBDA names, c : Move(d, new, names, c), named, order)

\* Mutant: a new name may be that of a child yet to be hoisted.
PredictWithoutSiblings(d, done, c) ==
    LET new == IF named[c] \in Taken(named, container[d], {d}) \/ named[c] \in done.new
               THEN Unique(named[c], container[d], Ignored(d), done.new)
               ELSE named[c]
    IN  IF named[c] = named[d] THEN done
        ELSE [new   |-> done.new \cup {new},
              names |-> [done.names EXCEPT ![c] = new]]

\* DeleteIDDeltas, for one child.
Predict(d, done, c) ==
    LET siblings == {named[o] : o \in In(d) \ {c}} \ {named[d]}
        new == IF named[c] \in Taken(named, container[d], {d}) \/ named[c] \in done.new
               THEN Unique(named[c], container[d], Ignored(d), done.new \cup siblings)
               ELSE named[c]
    IN  IF named[c] = named[d] THEN done
        ELSE [new   |-> done.new \cup {new},
              names |-> [done.names EXCEPT ![c] = new]]

DeleteIDDeltas(d) ==
    FoldLeft(LAMBDA done, c : Predict(d, done, c),
             [new |-> {}, names |-> named], InOrder(d)).names

Delete(d) ==
    /\ target = Nobody
    /\ \E order \in MoveOrders(d, Renamed(d)) :
         named' = Moved(d, Renamed(d), order)
    /\ container' = [o \in Objects |-> IF o \in In(d) THEN container[d] ELSE container[o]]
    /\ deleted' = {d} /\ target' = d
    /\ predicted' = DeleteIDDeltas(d)

-----------------------------------------------------------------------------
(* Rename                                                                  *)

\* The name is made unique among the objects at the top, wherever o is, and then, by
\* move, among its siblings.
Rename(o, n) ==
    LET top   == Unique(n, Top, {o}, {})
        own   == Unique(top, container[o], {}, {})
        delta == IF named[o] = n THEN n ELSE Unique(n, container[o], {o}, {})
    IN  /\ target = Nobody
        /\ named' = [named EXCEPT ![o] = IF top = named[o] THEN top ELSE own]
        /\ target' = o
        /\ predicted' = [predicted EXCEPT ![o] = delta]
        /\ UNCHANGED <<container, deleted>>

Next == \E o \in Objects : Delete(o) \/ \E n \in Names : Rename(o, n)

-----------------------------------------------------------------------------
(* Property                                                                *)

\* Objects get the names that were foretold, if the object edited has been deleted or
\* was at the top.  (Renames further down are not foretold well: see the README.)
AsPredicted ==
    \A o \in Objects \ deleted :
        target \in deleted \/ (target # Nobody /\ container[target] = Top)
            => named[o] = predicted[o]

=============================================================================
