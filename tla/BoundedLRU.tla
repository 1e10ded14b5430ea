----------------------------- MODULE BoundedLRU -----------------------------
(***************************************************************************)
(* Least-recently-used lists, as lib/imageasset and d2raster keep them: a  *)
(* sequence without duplicates, the most recently used element first, next *)
(* to a byte counter that is adjusted with every change of the list.       *)
(***************************************************************************)
EXTENDS Integers, SequencesExt

\* MoveToFront of an element of q.
Touched(q, x) == <<x>> \o RemoveAt(q, CHOOSE i \in DOMAIN q : q[i] = x)

\* What the elements of q are charged with.
Total(q, Charge(_)) == SumFunction([k \in DOMAIN q |-> Charge(q[k])])

\* q after its back has been evicted until Enough holds of what is left.
EvictUntil(q, Enough(_)) ==
    LET fits == {n \in 0..Len(q) : Enough(SubSeq(q, 1, n))}
    IN  IF fits = {} THEN <<>> ELSE SubSeq(q, 1, Max(fits))

\* The bytes that go with the elements of q that are not in kept.
Freed(q, kept, Charge(_)) == Total(q, Charge) - Total(kept, Charge)

=============================================================================
