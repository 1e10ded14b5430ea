------------------------- MODULE NestedLayout_proofs -------------------------
(***************************************************************************)
(* Proofs about nested layouts, for any tree of objects: cutting out all   *)
(* nested diagrams in one pass is cutting out one after the other, undoing *)
(* it is as if they had never been cut out, and a layout that returns has  *)
(* put everything back where it was.                                       *)
(***************************************************************************)
EXTENDS NestedLayout, SumTheorems, SequenceTheorems

-----------------------------------------------------------------------------
(* Recursion                                                               *)

\* v is what n steps of h make of base.
Runs(v, n, base, h) ==
    v[0] = base /\ \A i \in 1..n : v[i] = h[<<i, v[i - 1]>>]

LEMMA RunsExist ==
    ASSUME NEW D, NEW base \in D, NEW m \in Nat, NEW h \in [(1..m) \X D -> D]
    PROVE  \E v \in [0..m -> D] : Runs(v, m, base, h)
<1> DEFINE N == {n \in Nat : n <= m => \E v \in [0..n -> D] : Runs(v, n, base, h)}
<1>1. 0 \in N
  <2> DEFINE v == [i \in 0..0 |-> base]
  <2>1. v \in [0..0 -> D] /\ Runs(v, 0, base, h)
    BY DEF Runs
  <2> QED
    BY <2>1
<1>2. ASSUME NEW n \in Nat, n \in N PROVE n + 1 \in N
  <2> SUFFICES ASSUME n + 1 <= m
               PROVE  \E v \in [0..(n + 1) -> D] : Runs(v, n + 1, base, h)
    OBVIOUS
  <2>1. PICK v \in [0..n -> D] : Runs(v, n, base, h)
    BY <1>2
  <2> DEFINE w == [i \in 0..(n + 1) |-> IF i <= n THEN v[i] ELSE h[<<n + 1, v[n]>>]]
  <2>2. v[n] \in D /\ n + 1 \in 1..m
    OBVIOUS
  <2>3. h[<<n + 1, v[n]>>] \in D
    BY <2>2
  <2>4. w \in [0..(n + 1) -> D]
    BY <2>3
  <2>5. ASSUME NEW i \in 1..(n + 1) PROVE w[i] = h[<<i, w[i - 1]>>]
    <3>1. i - 1 \in 0..n /\ i - 1 \in 0..(n + 1) /\ w[i - 1] = v[i - 1]
      OBVIOUS
    <3>2. CASE i = n + 1
      BY <3>1, <3>2
    <3>3. CASE i # n + 1
      <4>1. i \in 1..n
        BY <3>3
      <4> QED
        BY <2>1, <3>1, <4>1 DEF Runs
    <3> QED
      BY <3>2, <3>3
  <2>6. w[0] = base
    BY <2>1 DEF Runs
  <2> QED
    BY <2>4, <2>5, <2>6 DEF Runs
<1> HIDE DEF N
<1>3. m \in N
  BY <1>1, <1>2, AllNaturals
<1> QED
  BY <1>3 DEF N

-----------------------------------------------------------------------------
(* Sequences                                                               *)

\* What holds of the empty sequence and is kept by every element that is appended
\* holds of all sequences.
LEMMA AllSequences ==
    ASSUME NEW X, NEW I, <<>> \in I, \A q \in Seq(X), x \in X : q \in I => Append(q, x) \in I
    PROVE  Seq(X) \subseteq I
<1> DEFINE N == {n \in Nat : \A q \in Seq(X) : Len(q) = n => q \in I}
<1>1. 0 \in N
  <2>1. \A q \in Seq(X) : Len(q) = 0 => q = <<>>
    BY EmptySeq
  <2> QED
    BY <2>1
<1>2. ASSUME NEW n \in Nat, n \in N PROVE n + 1 \in N
  <2> SUFFICES ASSUME NEW q \in Seq(X), Len(q) = n + 1 PROVE q \in I
    OBVIOUS
  <2> DEFINE p == SubSeq(q, 1, n)
             x == q[n + 1]
  <2>1. \A i \in 1..(n + 1) : q[i] \in X
    BY ElementOfSeq
  <2>2. /\ p \in Seq(X) /\ Len(p) = n /\ \A i \in 1..n : p[i] = q[i]
    <3>1. \A i \in 1..n : q[i] \in X
      BY <2>1
    <3>2. /\ SubSeq(q, 1, n) \in Seq(X)
          /\ Len(SubSeq(q, 1, n)) = IF 1 <= n THEN n - 1 + 1 ELSE 0
          /\ \A i \in 1..(n - 1 + 1) : SubSeq(q, 1, n)[i] = q[1 + i - 1]
      BY <3>1, SubSeqProperties
    <3> QED
      BY <3>2
  <2> HIDE DEF p
  <2>3. /\ Append(p, x) \in Seq(X) /\ Len(Append(p, x)) = Len(p) + 1
        /\ \A i \in 1..Len(p) : Append(p, x)[i] = p[i]
        /\ Append(p, x)[Len(p) + 1] = x
    BY <2>1, <2>2, AppendProperties
  <2>4. \A i \in 1..Len(q) : Append(p, x)[i] = q[i]
    BY <2>2, <2>3
  <2>5. Append(p, x) = q
    BY <2>2, <2>3, <2>4, SeqEqual
  <2>6. p \in I /\ x \in X
    BY <1>2, <2>1, <2>2
  <2> QED
    BY <2>2, <2>5, <2>6
<1> HIDE DEF N
<1>3. Nat \subseteq N
  BY <1>1, <1>2, AllNaturals
<1> QED
  BY <1>3 DEF N

\* The elements of a sequence that is appended to and of one that is joined to another.
LEMMA RangeGrows ==
    ASSUME NEW X, NEW q \in Seq(X)
    PROVE  /\ Range(<<>>) = {} /\ Range(q) \subseteq X
           /\ \A x \in X : Range(Append(q, x)) = Range(q) \cup {x}
           /\ \A r \in Seq(X) : Range(q \o r) = Range(q) \cup Range(r)
           /\ Range(q) = {} => q = <<>>
<1>0. /\ \A r \in Seq(X) : /\ Len(r) \in Nat /\ DOMAIN r = 1..Len(r)
                           /\ \A i \in 1..Len(r) : r[i] \in X
  BY LenProperties, ElementOfSeq
<1>1. Range(<<>>) = {} /\ Range(q) \subseteq X
  BY <1>0 DEF Range
<1>2. ASSUME NEW x \in X PROVE Range(Append(q, x)) = Range(q) \cup {x}
  <2>1. /\ Append(q, x) \in Seq(X) /\ Len(Append(q, x)) = Len(q) + 1
        /\ \A i \in 1..Len(q) : Append(q, x)[i] = q[i]
        /\ Append(q, x)[Len(q) + 1] = x
    BY AppendProperties
  <2>2. DOMAIN Append(q, x) = 1..(Len(q) + 1) /\ DOMAIN q = 1..Len(q) /\ Len(q) \in Nat
    BY <1>0, <2>1
  <2> QED
    BY <2>1, <2>2 DEF Range
<1>3. ASSUME NEW r \in Seq(X) PROVE Range(q \o r) = Range(q) \cup Range(r)
  <2> DEFINE c == q \o r
  <2>1. /\ c \in Seq(X) /\ Len(c) = Len(q) + Len(r)
        /\ \A i \in 1..(Len(q) + Len(r)) : c[i] = IF i <= Len(q) THEN q[i] ELSE r[i - Len(q)]
    BY ConcatProperties
  <2>2. /\ DOMAIN c = 1..(Len(q) + Len(r)) /\ DOMAIN q = 1..Len(q) /\ DOMAIN r = 1..Len(r)
        /\ Len(q) \in Nat /\ Len(r) \in Nat
    BY <1>0, <2>1
  <2> DEFINE n == Len(q)
             k == Len(r)
  <2> HIDE DEF c
  <2>3. ASSUME NEW i \in 1..Len(q) PROVE q[i] \in Range(c)
    <3>1. i \in DOMAIN c /\ c[i] = q[i]
      BY <2>1, <2>2
    <3> QED
      BY <3>1 DEF Range
  <2>4. ASSUME NEW i \in 1..Len(r) PROVE r[i] \in Range(c)
    <3>1. i + n \in DOMAIN c /\ c[i + n] = r[i]
      <4>1. /\ n \in Nat /\ k \in Nat /\ i \in 1..k /\ DOMAIN c = 1..(n + k)
            /\ \A j \in 1..(n + k) : c[j] = IF j <= n THEN q[j] ELSE r[j - n]
        BY <2>1, <2>2
      <4> HIDE DEF n, k
      <4>2. i + n \in 1..(n + k) /\ ~(i + n <= n) /\ (i + n) - n = i
        BY <4>1
      <4> QED
        BY <4>1, <4>2
    <3> QED
      BY <3>1 DEF Range
  <2>5. ASSUME NEW i \in DOMAIN c PROVE c[i] \in Range(q) \cup Range(r)
    <3>1. CASE i <= Len(q)
      BY <2>1, <2>2, <3>1 DEF Range
    <3>2. CASE ~(i <= Len(q))
      <4>1. c[i] = r[i - Len(q)] /\ i - Len(q) \in DOMAIN r
        BY <2>1, <2>2, <3>2
      <4> QED
        BY <4>1 DEF Range
    <3> QED
      BY <3>1, <3>2
  <2>6. /\ Range(q) \subseteq Range(c) /\ Range(r) \subseteq Range(c)
    BY <2>2, <2>3, <2>4 DEF Range
  <2>7. Range(c) \subseteq Range(q) \cup Range(r)
    BY <2>5 DEF Range
  <2> QED
    BY <2>6, <2>7 DEF c
<1>4. ASSUME Range(q) = {} PROVE q = <<>>
  <2>1. q # <<>> => 1 \in DOMAIN q
    BY <1>0, EmptySeq
  <2> QED
    BY <1>4, <2>1 DEF Range
<1> QED
  BY <1>1, <1>2, <1>3, <1>4

\* The elements of q in S, from those of a prefix of it.
Sifted(v, q, S) ==
    v[0] = <<>> /\ \A i \in 1..Len(q) :
        v[i] = IF q[i] \in S THEN Append(v[i - 1], q[i]) ELSE v[i - 1]

LEMMA ThoseIs ==
    ASSUME NEW X, NEW q \in Seq(X), NEW S
    PROVE  \E v \in [0..Len(q) -> Seq(X)] : Sifted(v, q, S) /\ Those(q, S) = v[Len(q)]
<1> DEFINE n == Len(q)
           h == [p \in (1..n) \X Seq(X) |->
                   IF q[p[1]] \in S THEN Append(p[2], q[p[1]]) ELSE p[2]]
           Is(g) == g = [i \in 0..n |->
                          IF i = 0 THEN <<>>
                          ELSE IF q[i] \in S THEN Append(g[i - 1], q[i]) ELSE g[i - 1]]
           those == CHOOSE g : Is(g)
<1>1. n \in Nat /\ \A i \in 1..n : q[i] \in X
  BY LenProperties, ElementOfSeq
<1>2. Those(q, S) = those[n]
  BY DEF Those
<1>3. h \in [(1..n) \X Seq(X) -> Seq(X)] /\ <<>> \in Seq(X)
  BY <1>1, AppendProperties, EmptySeq
<1>4. \A i \in 1..n, r \in Seq(X) :
         h[<<i, r>>] = IF q[i] \in S THEN Append(r, q[i]) ELSE r
  OBVIOUS
<1> HIDE DEF h, n
<1>5. PICK v \in [0..n -> Seq(X)] : Runs(v, n, <<>>, h)
  BY <1>1, <1>3, RunsExist
<1>6. ASSUME NEW i \in 1..n
      PROVE  v[i] = IF q[i] \in S THEN Append(v[i - 1], q[i]) ELSE v[i - 1]
  <2>1. i - 1 \in 0..n
    BY <1>1
  <2> QED
    BY <1>4, <1>5, <2>1 DEF Runs
<1>7. v[0] = <<>>
  BY <1>5 DEF Runs
<1>8. Is(v)
  <2>1. \A i \in 0..n : i # 0 => i \in 1..n
    BY <1>1
  <2> QED
    BY <1>6, <1>7, <2>1
<1>9. Is(those)
  <2> HIDE DEF Is
  <2> QED
    BY <1>8
<1> HIDE DEF those
<1>10. \A i \in 0..n : those[i] = v[i]
  <2> DEFINE N == {i \in Nat : i <= n => those[i] = v[i]}
  <2>1. 0 \in N
    BY <1>1, <1>7, <1>9
  <2>2. ASSUME NEW i \in Nat, i \in N PROVE i + 1 \in N
    <3> SUFFICES ASSUME i + 1 <= n PROVE those[i + 1] = v[i + 1]
      OBVIOUS
    <3>1. i + 1 \in 1..n /\ i + 1 \in 0..n /\ i + 1 # 0 /\ (i + 1) - 1 = i /\ those[i] = v[i]
      BY <1>1, <2>2
    <3>2. those[i + 1] = IF q[i + 1] \in S THEN Append(those[i], q[i + 1]) ELSE those[i]
      BY <1>9, <3>1
    <3> QED
      BY <1>6, <3>1, <3>2
  <2> HIDE DEF N
  <2>3. Nat \subseteq N
    BY <2>1, <2>2, AllNaturals
  <2> QED
    BY <1>1, <2>3 DEF N
<1> QED
  BY <1>1, <1>2, <1>5, <1>6, <1>7, <1>10 DEF Sifted, n

LEMMA ThoseAppend ==
    ASSUME NEW X, NEW S
    PROVE  /\ Those(<<>>, S) = <<>>
           /\ \A q \in Seq(X), x \in X :
                Those(Append(q, x), S) = IF x \in S THEN Append(Those(q, S), x) ELSE Those(q, S)
<1>1. Those(<<>>, S) = <<>>
  <2>1. <<>> \in Seq(X) /\ Len(<<>>) = 0
    BY EmptySeq
  <2>2. PICK v \in [0..Len(<<>>) -> Seq(X)] : Sifted(v, <<>>, S) /\ Those(<<>>, S) = v[Len(<<>>)]
    BY <2>1, ThoseIs
  <2> QED
    BY <2>1, <2>2 DEF Sifted
<1>2. ASSUME NEW q \in Seq(X), NEW x \in X
      PROVE  Those(Append(q, x), S) = IF x \in S THEN Append(Those(q, S), x) ELSE Those(q, S)
  <2> DEFINE a == Append(q, x)
             n == Len(q)
  <2>1. /\ a \in Seq(X) /\ Len(a) = n + 1 /\ \A i \in 1..n : a[i] = q[i]
        /\ a[n + 1] = x
    BY AppendProperties
  <2>2. n \in Nat
    BY LenProperties
  <2>3. PICK v \in [0..n -> Seq(X)] : Sifted(v, q, S) /\ Those(q, S) = v[n]
    BY ThoseIs
  <2> HIDE DEF a
  <2>4. PICK w \in [0..Len(a) -> Seq(X)] : Sifted(w, a, S) /\ Those(a, S) = w[Len(a)]
    BY <2>1, ThoseIs
  <2> HIDE DEF n
  <2>5. \A i \in 0..n : w[i] = v[i]
    <3> DEFINE N == {i \in Nat : i <= n => w[i] = v[i]}
    <3>1. 0 \in N
      BY <2>3, <2>4 DEF Sifted
    <3>2. ASSUME NEW i \in Nat, i \in N PROVE i + 1 \in N
      <4> SUFFICES ASSUME i + 1 <= n PROVE w[i + 1] = v[i + 1]
        OBVIOUS
      <4>1. i + 1 \in 1..n /\ i + 1 \in 1..Len(a) /\ (i + 1) - 1 = i /\ w[i] = v[i]
        <5>1. i <= n /\ w[i] = v[i]
          <6>1. i <= n
            BY <2>2
          <6>2. i \in N
            BY <3>2
          <6> QED
            BY <6>1, <6>2
        <5> HIDE DEF N
        <5> QED
          BY <2>1, <2>2, <5>1
      <4>2. a[i + 1] = q[i + 1]
        BY <2>1, <4>1
      <4>3. v[i + 1] = IF q[i + 1] \in S THEN Append(v[i], q[i + 1]) ELSE v[i]
        BY <2>3, <4>1 DEF Sifted, n
      <4>4. w[i + 1] = IF a[i + 1] \in S THEN Append(w[i], a[i + 1]) ELSE w[i]
        BY <2>4, <4>1 DEF Sifted
      <4> QED
        BY <4>1, <4>2, <4>3, <4>4
    <3> HIDE DEF N
    <3>3. Nat \subseteq N
      BY <3>1, <3>2, AllNaturals
    <3> QED
      BY <2>2, <3>3 DEF N
  <2>6. w[n + 1] = IF x \in S THEN Append(w[n], x) ELSE w[n]
    <3>1. n + 1 \in 1..Len(a) /\ (n + 1) - 1 = n
      BY <2>1, <2>2
    <3> QED
      BY <2>1, <2>4, <3>1 DEF Sifted
  <2>7. w[n] = v[n]
    BY <2>2, <2>5
  <2> QED
    BY <2>1, <2>3, <2>4, <2>6, <2>7 DEF a
<1> QED
  BY <1>1, <1>2

\* What the elements of q in S are, and those of them in T.
LEMMA ThoseFacts ==
    ASSUME NEW X, NEW S
    PROVE  \A q \in Seq(X) :
             /\ Those(q, S) \in Seq(X) /\ Range(Those(q, S)) = Range(q) \cap S
             /\ Range(q) \subseteq S => Those(q, S) = q
             /\ \A T : Those(Those(q, S), T) = Those(q, S \cap T)
<1> DEFINE Good(q) == /\ Those(q, S) \in Seq(X) /\ Range(Those(q, S)) = Range(q) \cap S
                      /\ Range(q) \subseteq S => Those(q, S) = q
                      /\ \A T : Those(Those(q, S), T) = Those(q, S \cap T)
           I == {q \in Seq(X) : Good(q)}
<1>1. <<>> \in I
  <2>1. <<>> \in Seq(X) /\ Range(<<>>) = {}
    BY EmptySeq, RangeGrows
  <2>2. \A T : Those(<<>>, T) = <<>>
    BY ThoseAppend
  <2> QED
    BY <2>1, <2>2
<1>2. ASSUME NEW q \in Seq(X), NEW x \in X, q \in I PROVE Append(q, x) \in I
  <2> DEFINE a == Append(q, x)
             t == Those(q, S)
  <2>1. a \in Seq(X) /\ Range(a) = Range(q) \cup {x}
    BY AppendProperties, RangeGrows
  <2>0. \A R : \A p \in Seq(X) :
           Those(Append(p, x), R) = IF x \in R THEN Append(Those(p, R), x) ELSE Those(p, R)
    <3> TAKE R
    <3>1. \A p \in Seq(X), y \in X :
             Those(Append(p, y), R) = IF y \in R THEN Append(Those(p, R), y) ELSE Those(p, R)
      BY ThoseAppend
    <3> QED
      BY <3>1
  <2>2. Those(a, S) = IF x \in S THEN Append(t, x) ELSE t
    BY <2>0
  <2>3. /\ t \in Seq(X) /\ Range(t) = Range(q) \cap S /\ (Range(q) \subseteq S => t = q)
        /\ \A T : Those(t, T) = Those(q, S \cap T)
    BY <1>2
  <2>4. Append(t, x) \in Seq(X) /\ Range(Append(t, x)) = Range(t) \cup {x}
    BY <2>3, AppendProperties, RangeGrows
  <2>5. ASSUME NEW T PROVE Those(Those(a, S), T) = Those(a, S \cap T)
    <3>1. /\ Those(a, S \cap T) = IF x \in S \cap T THEN Append(Those(q, S \cap T), x)
                                  ELSE Those(q, S \cap T)
          /\ Those(Append(t, x), T) = IF x \in T THEN Append(Those(t, T), x) ELSE Those(t, T)
      BY <2>0, <2>3
    <3>2. Those(t, T) = Those(q, S \cap T)
      BY <2>3
    <3>3. CASE x \in S /\ x \in T
      BY <2>2, <3>1, <3>2, <3>3
    <3>4. CASE x \in S /\ x \notin T
      BY <2>2, <3>1, <3>2, <3>4
    <3>5. CASE x \notin S
      BY <2>2, <3>1, <3>2, <3>5
    <3> QED
      BY <3>3, <3>4, <3>5
  <2>6. Range(a) \subseteq S => Those(a, S) = a
    BY <2>1, <2>2, <2>3
  <2>7. Those(a, S) \in Seq(X) /\ Range(Those(a, S)) = Range(a) \cap S
    <3> HIDE DEF a, t
    <3> QED
      BY <2>1, <2>2, <2>3, <2>4
  <2> HIDE DEF a
  <2>8. a \in I
    BY <2>1, <2>5, <2>6, <2>7
  <2> QED
    BY <2>8 DEF a
<1> HIDE DEF I
<1>3. Seq(X) \subseteq I
  BY <1>1, <1>2, AllSequences
<1> QED
  BY <1>3 DEF I

-----------------------------------------------------------------------------
(* Graphs                                                                  *)

Places == Shapes \cup Roots
Listed == Range(AllEdges)
Subgraphs == [objs : Seq(Shapes), edges : Seq(Listed), external : Seq(Listed)]
Graphs == [objs : Seq(Shapes), edges : Seq(Listed), parent : [Shapes -> Places],
           kids : [Places -> Seq(Shapes)], sub : [Shapes -> Subgraphs]]

LEMMA PlaceFacts ==
    ASSUME NObjects \in Nat
    PROVE  /\ Root \in Roots /\ Root \notin Shapes /\ Shapes \cap Roots = {}
           /\ \A c \in Shapes : RootOf(c) \in Roots /\ RootOf(c) # Root /\ RootOf(c) \notin Shapes
           /\ \A c, d \in Shapes : RootOf(c) = RootOf(d) => c = d
           /\ \A c \in Shapes : c \in Places /\ RootOf(c) \in Places
           /\ Root \in Places
<1>1. NObjects \in Nat /\ \A c \in Shapes : c \in Nat /\ c > 0 /\ c <= NObjects
  BY DEF Shapes
<1>2. \A c \in Shapes : RootOf(c) # 0 /\ ~(RootOf(c) <= NObjects) /\ RootOf(c) \in Nat
  BY <1>1 DEF RootOf
<1>3. \A c \in Shapes : RootOf(c) \in Roots /\ RootOf(c) \notin Shapes
  BY <1>1, <1>2 DEF Roots
<1>4. Root \in Roots /\ Root \notin Shapes
  BY <1>1 DEF Root, Roots
<1>5. Shapes \cap Roots = {}
  BY <1>3, <1>4 DEF Roots
<1>6. \A c, d \in Shapes : RootOf(c) = RootOf(d) => c = d
  BY <1>1 DEF RootOf
<1> QED
  BY <1>2, <1>3, <1>4, <1>5, <1>6 DEF Places, Root

LEMMA EdgesAreListed ==
    ASSUME NObjects \in Nat
    PROVE  AllEdges \in Seq(Listed) /\ Listed \subseteq Edges
<1> DEFINE n == NObjects * (NObjects + 1)
           f == [k \in 1..n |-> <<(k - 1) \div (NObjects + 1) + 1, (k - 1) % (NObjects + 1)>>]
           X == Range(f)
<1>1. n \in Nat
  OBVIOUS
<1>2. f \in Seq(X)
  <2>1. \A k \in 1..n : f[k] \in X
    <3> HIDE DEF n
    <3> QED
      BY DEF Range
  <2>2. DOMAIN f = 1..n /\ f = [k \in 1..n |-> f[k]]
    OBVIOUS
  <2> HIDE DEF n, f
  <2>3. f \in [1..n -> X]
    BY <2>1, <2>2
  <2>4. f \in UNION {[1..m -> X] : m \in Nat}
    BY <1>1, <2>3
  <2> QED
    BY <2>4, SeqDef
<1>3. AllEdges = Those(f, Edges)
  BY DEF AllEdges
<1> HIDE DEF f
<1>4. AllEdges \in Seq(X) /\ Range(AllEdges) = Range(f) \cap Edges
  BY <1>2, <1>3, ThoseFacts
<1>5. AllEdges \in Seq(Range(AllEdges))
  <2>1. /\ Len(AllEdges) \in Nat /\ DOMAIN AllEdges = 1..Len(AllEdges)
        /\ AllEdges = [i \in 1..Len(AllEdges) |-> AllEdges[i]]
    BY <1>4, LenProperties
  <2>2. \A i \in 1..Len(AllEdges) : AllEdges[i] \in Range(AllEdges)
    BY <2>1 DEF Range
  <2> DEFINE m == Len(AllEdges)
  <2>3. AllEdges \in [1..m -> Range(AllEdges)]
    <3>1. AllEdges = [i \in 1..m |-> AllEdges[i]] /\ \A i \in 1..m : AllEdges[i] \in Range(AllEdges)
      BY <2>1, <2>2
    <3> HIDE DEF m
    <3> QED
      BY <3>1
  <2>4. AllEdges \in UNION {[1..k -> Range(AllEdges)] : k \in Nat}
    <3>1. m \in Nat
      BY <2>1
    <3> HIDE DEF m
    <3> QED
      BY <2>3, <3>1
  <2> QED
    BY <2>4, SeqDef
<1> QED
  BY <1>4, <1>5 DEF Listed

LEMMA OrderedFacts ==
    ASSUME NObjects \in Nat
    PROVE  /\ \A S : Ordered(S) \in Seq(Shapes) /\ Range(Ordered(S)) = Shapes \cap S
           /\ \A q \in Seq(Listed) :
                /\ Sorted(q) \in Seq(Listed) /\ Range(Sorted(q)) = Range(q)
                /\ Range(q) = Listed => Sorted(q) = AllEdges
           /\ Ordered({}) = <<>>
<1> DEFINE f == [o \in Shapes |-> o]
<1>1. f \in Seq(Shapes) /\ Range(f) = Shapes
  <2>1. f \in [1..NObjects -> Shapes]
    BY DEF Shapes
  <2>2. f \in UNION {[1..m -> Shapes] : m \in Nat}
    <3> HIDE DEF f
    <3> QED
      BY <2>1
  <2>3. f \in Seq(Shapes)
    BY <2>2, SeqDef
  <2> QED
    BY <2>3 DEF Range
<1>2. \A S : Ordered(S) = Those(f, S)
  BY DEF Ordered
<1> HIDE DEF f
<1>3. \A S : Ordered(S) \in Seq(Shapes) /\ Range(Ordered(S)) = Shapes \cap S
  BY <1>1, <1>2, ThoseFacts
<1>4. ASSUME NEW q \in Seq(Listed)
      PROVE  /\ Sorted(q) \in Seq(Listed) /\ Range(Sorted(q)) = Range(q)
             /\ Range(q) = Listed => Sorted(q) = AllEdges
  <2>1. Range(q) \subseteq Listed
    BY RangeGrows
  <2>2. Sorted(q) = Those(AllEdges, Range(q))
    BY DEF Sorted
  <2>3. /\ Those(AllEdges, Range(q)) \in Seq(Listed)
        /\ Range(Those(AllEdges, Range(q))) = Range(AllEdges) \cap Range(q)
        /\ Range(AllEdges) \subseteq Range(q) => Those(AllEdges, Range(q)) = AllEdges
    BY EdgesAreListed, ThoseFacts
  <2> QED
    BY <2>1, <2>2, <2>3 DEF Listed
<1>5. Ordered({}) = <<>>
  <2>1. Range(Ordered({})) = {} /\ Ordered({}) \in Seq(Shapes)
    BY <1>3
  <2> QED
    BY <2>1, RangeGrows
<1> QED
  BY <1>3, <1>4, <1>5

LEMMA GraphFields ==
    ASSUME NEW g \in Graphs
    PROVE  /\ g.objs \in Seq(Shapes) /\ g.edges \in Seq(Listed)
           /\ g.parent \in [Shapes -> Places] /\ g.kids \in [Places -> Seq(Shapes)]
           /\ g.sub \in [Shapes -> Subgraphs]
           /\ \A c \in Shapes : /\ g.sub[c] \in Subgraphs /\ g.sub[c].objs \in Seq(Shapes)
                                /\ g.sub[c].edges \in Seq(Listed)
                                /\ g.sub[c].external \in Seq(Listed)
           /\ g = [objs |-> g.objs, edges |-> g.edges, parent |-> g.parent,
                   kids |-> g.kids, sub |-> g.sub]
BY DEF Graphs, Subgraphs

LEMMA SameGraph ==
    ASSUME NEW g \in Graphs, NEW h \in Graphs, g.objs = h.objs, g.edges = h.edges,
           g.parent = h.parent, g.kids = h.kids, g.sub = h.sub
    PROVE  g = h
BY GraphFields

\* The objects that get a root of their own, and where they are taken from.
TopOf(g, c, self) == IF self THEN <<c>> ELSE g.kids[c]
FromOf(g, c, self) == IF self THEN g.parent[c] ELSE c

\* What Reparent makes of g.
Reparented(g, c, self, r) ==
    /\ r \in Graphs
    /\ r.objs = g.objs /\ r.edges = g.edges
    /\ r.sub = g.sub
    /\ TopOf(g, c, self) \in Seq(Shapes) /\ FromOf(g, c, self) \in Places
    /\ \A o \in Shapes : r.parent[o] =
         IF o \in Range(TopOf(g, c, self)) THEN RootOf(c) ELSE g.parent[o]
    /\ \A x \in Places : r.kids[x] =
         IF x = FromOf(g, c, self)
         THEN Those(g.kids[FromOf(g, c, self)], Shapes \ Range(TopOf(g, c, self)))
         ELSE IF x = RootOf(c) THEN TopOf(g, c, self) ELSE g.kids[x]

LEMMA ReparentIs ==
    ASSUME NObjects \in Nat,
           NEW g \in Graphs, NEW c \in Shapes, NEW self \in BOOLEAN
    PROVE  Reparented(g, c, self, Reparent(g, c, self))
<1> DEFINE r == Reparent(g, c, self)
           top == TopOf(g, c, self)
           from == FromOf(g, c, self)
           kids1 == [g.kids EXCEPT ![RootOf(c)] = top]
           kids2 == [kids1 EXCEPT ![from] = Those(g.kids[from], Shapes \ Range(top))]
           parent2 == [o \in Shapes |-> IF o \in Range(top) THEN RootOf(c) ELSE g.parent[o]]
<1>1. /\ g.objs \in Seq(Shapes) /\ g.edges \in Seq(Listed)
      /\ g.parent \in [Shapes -> Places] /\ g.kids \in [Places -> Seq(Shapes)]
      /\ g.sub \in [Shapes -> Subgraphs]
  BY GraphFields
<1>2. c \in Places /\ RootOf(c) \in Places
  BY PlaceFacts
<1>3. top \in Seq(Shapes) /\ from \in Places
  <2>1. <<c>> \in Seq(Shapes)
    OBVIOUS
  <2> QED
    BY <1>1, <1>2, <2>1 DEF TopOf, FromOf
<1>4. r = [g EXCEPT !.parent = parent2, !.kids = kids2]
  BY DEF Reparent, TopOf, FromOf
<1>5. kids1 \in [Places -> Seq(Shapes)]
  BY <1>1, <1>2, <1>3
<1>6. kids2 \in [Places -> Seq(Shapes)]
  <2>1. g.kids[from] \in Seq(Shapes)
    BY <1>1, <1>3
  <2>2. Those(g.kids[from], Shapes \ Range(top)) \in Seq(Shapes)
    BY <2>1, ThoseFacts
  <2> HIDE DEF kids1
  <2> QED
    BY <1>3, <1>5, <2>2
<1>7. parent2 \in [Shapes -> Places]
  BY <1>1, <1>2
<1>8. \A x \in Places : kids2[x] = IF x = from THEN Those(g.kids[from], Shapes \ Range(top))
                                   ELSE kids1[x]
  <2> HIDE DEF kids1
  <2> QED
    BY <1>5
<1>9. \A x \in Places : kids1[x] = IF x = RootOf(c) THEN top ELSE g.kids[x]
  BY <1>1
<1> HIDE DEF r, top, from, kids1, kids2
<1>10. r = [objs |-> g.objs, edges |-> g.edges, parent |-> parent2, kids |-> kids2,
            sub |-> g.sub]
  <2> HIDE DEF parent2
  <2> QED
    BY <1>4 DEF Graphs
<1>11. r \in Graphs
  <2> HIDE DEF parent2
  <2> QED
    BY <1>1, <1>6, <1>7, <1>10 DEF Graphs
<1>12.   \A x \in Places : r.kids[x] =
             IF x = from THEN Those(g.kids[from], Shapes \ Range(top))
             ELSE IF x = RootOf(c) THEN top ELSE g.kids[x]
  BY <1>3, <1>8, <1>9, <1>10
<1>13. \A o \in Shapes : r.parent[o] = IF o \in Range(top) THEN RootOf(c) ELSE g.parent[o]
  BY <1>10
<1>14. r.objs = g.objs /\ r.edges = g.edges /\ r.sub = g.sub
  BY <1>10
<1> QED
  BY <1>3, <1>11, <1>12, <1>13, <1>14 DEF r, top, from, Reparented

\* The objects that are cut out, and the edges with both and no ends among them.
Members(g, c, self) ==
    {o \in Shapes : Below(g, IF self THEN o ELSE g.parent[o], c)}
Both(S) == {e \in Edges : e[1] \in S /\ e[2] \in S \cup {Lifeline}}
Neither(S) == {e \in Edges : e[1] \notin S /\ e[2] \notin S}
CutOf(g, S) ==
    [objs |-> Those(g.objs, S), edges |-> Those(g.edges, Both(S)),
     external |-> Those(g.edges, Edges \ (Both(S) \cup Neither(S)))]

\* What Extract makes of g.
Extracted(g, c, self, r) ==
    /\ r \in Graphs
    /\ r.objs = Those(g.objs, Shapes \ Members(g, c, self))
    /\ r.edges = Those(g.edges, Neither(Members(g, c, self)))
    /\ r.parent = Reparent(g, c, self).parent
    /\ r.kids = Reparent(g, c, self).kids
    /\ \A d \in Shapes : r.sub[d] =
         IF d = c THEN CutOf(g, Members(g, c, self)) ELSE g.sub[d]

LEMMA ExtractIs ==
    ASSUME NObjects \in Nat,
           NEW g \in Graphs, NEW c \in Shapes, NEW self \in BOOLEAN
    PROVE  Extracted(g, c, self, Extract(g, c, self))
<1> DEFINE x == Extract(g, c, self)
           r == Reparent(g, c, self)
           S == Members(g, c, self)
           cut == [objs |-> Those(g.objs, S), edges |-> Those(g.edges, Both(S)),
                   external |-> Those(g.edges, Edges \ (Both(S) \cup Neither(S)))]
           sub2 == [g.sub EXCEPT ![c] = cut]
           objs2 == Those(g.objs, Shapes \ S)
           edges2 == Those(g.edges, Neither(S))
<1>1. /\ g.objs \in Seq(Shapes) /\ g.edges \in Seq(Listed) /\ g.sub \in [Shapes -> Subgraphs]
  BY GraphFields
<1>2. x = [r EXCEPT !.objs = objs2, !.edges = edges2, !.sub = sub2]
  BY DEF Extract, Members, Both, Neither
<1>3. r \in Graphs
  BY ReparentIs DEF Reparented
<1>4. \A T : Those(g.objs, T) \in Seq(Shapes) /\ Those(g.edges, T) \in Seq(Listed)
  BY <1>1, ThoseFacts
<1> HIDE DEF x, r, S
<1>5. cut \in Subgraphs /\ objs2 \in Seq(Shapes) /\ edges2 \in Seq(Listed)
  BY <1>4 DEF Subgraphs
<1> HIDE DEF cut, objs2, edges2
<1>6. /\ sub2 \in [Shapes -> Subgraphs]
      /\ \A d \in Shapes : sub2[d] = IF d = c THEN cut ELSE g.sub[d]
  BY <1>1, <1>5
<1> HIDE DEF sub2
<1>7. x = [objs |-> objs2, edges |-> edges2, parent |-> r.parent, kids |-> r.kids,
           sub |-> sub2]
  BY <1>2, <1>3 DEF Graphs
<1>8. x \in Graphs
  <2>1. r.parent \in [Shapes -> Places] /\ r.kids \in [Places -> Seq(Shapes)]
    BY <1>3, GraphFields
  <2> QED
    BY <1>5, <1>6, <1>7, <2>1 DEF Graphs
<1>9. x.objs = objs2 /\ x.edges = edges2 /\ x.parent = r.parent /\ x.kids = r.kids /\ x.sub = sub2
  BY <1>7
<1> QED
  BY <1>6, <1>8, <1>9 DEF x, r, S, cut, objs2, edges2, CutOf, Extracted

LEMMA EmptyIs ==
    /\ Empty \in Subgraphs
    /\ Empty.objs = <<>> /\ Empty.edges = <<>> /\ Empty.external = <<>>
    /\ Range(Empty.objs) = {} /\ Range(Empty.edges) = {} /\ Range(Empty.external) = {}
<1>1. <<>> \in Seq(Shapes) /\ <<>> \in Seq(Listed)
  BY EmptySeq
<1>2. Range(<<>>) = {}
  BY DEF Range
<1>3. Empty.objs = <<>> /\ Empty.edges = <<>> /\ Empty.external = <<>>
  BY DEF Empty
<1>4. Empty \in Subgraphs
  BY <1>1 DEF Empty, Subgraphs
<1> QED
  BY <1>2, <1>3, <1>4

Joined(q, r) == q \o r

\* What Inject makes of g.
Injected(g, into, c, r) ==
    /\ r \in Graphs
    /\ r.objs = Joined(g.objs, g.sub[c].objs)
    /\ r.edges = Joined(g.edges, g.sub[c].edges)
    /\ \A o \in Shapes : r.parent[o] =
         IF o \in Range(g.kids[RootOf(c)]) THEN into ELSE g.parent[o]
    /\ \A y \in Places : r.kids[y] =
         IF y = RootOf(c) THEN <<>>
         ELSE IF y = into THEN Joined(g.kids[into], g.kids[RootOf(c)]) ELSE g.kids[y]
    /\ \A d \in Shapes : r.sub[d] = IF d = c THEN Empty ELSE g.sub[d]

LEMMA InjectIs ==
    ASSUME NObjects \in Nat,
           NEW g \in Graphs, NEW into \in Shapes \cup {Root}, NEW c \in Shapes
    PROVE  Injected(g, into, c, Inject(g, into, c))
<1> DEFINE x == Inject(g, into, c)
           top == g.kids[RootOf(c)]
           parent2 == [o \in Shapes |-> IF o \in Range(top) THEN into ELSE g.parent[o]]
           kids1 == [g.kids EXCEPT ![into] = g.kids[into] \o top]
           kids2 == [kids1 EXCEPT ![RootOf(c)] = <<>>]
           sub2 == [g.sub EXCEPT ![c] = Empty]
           objs2 == g.objs \o g.sub[c].objs
           edges2 == g.edges \o g.sub[c].edges
<1>1. /\ g.objs \in Seq(Shapes) /\ g.edges \in Seq(Listed)
      /\ g.parent \in [Shapes -> Places] /\ g.kids \in [Places -> Seq(Shapes)]
      /\ g.sub \in [Shapes -> Subgraphs]
      /\ g.sub[c].objs \in Seq(Shapes) /\ g.sub[c].edges \in Seq(Listed)
  BY GraphFields
<1>2. into \in Places /\ RootOf(c) \in Places /\ into # RootOf(c)
  BY PlaceFacts DEF Places
<1>3. top \in Seq(Shapes) /\ <<>> \in Seq(Shapes)
  BY <1>1, <1>2, EmptySeq
<1>4. x = [g EXCEPT !.parent = parent2, !.kids = kids2, !.objs = objs2, !.edges = edges2,
                    !.sub = sub2]
  BY DEF Inject
<1>5. objs2 \in Seq(Shapes) /\ edges2 \in Seq(Listed)
  BY <1>1, ConcatProperties
<1>6. kids1 \in [Places -> Seq(Shapes)]
  <2>1. g.kids[into] \o top \in Seq(Shapes)
    <3>1. g.kids[into] \in Seq(Shapes)
      BY <1>1, <1>2
    <3> QED
      BY <1>3, <3>1, ConcatProperties
  <2> HIDE DEF top
  <2> QED
    BY <1>1, <1>2, <2>1
<1>7. kids2 \in [Places -> Seq(Shapes)]
  <2> HIDE DEF kids1
  <2> QED
    BY <1>2, <1>3, <1>6
<1>8. parent2 \in [Shapes -> Places]
  BY <1>1, <1>2
<1>9. sub2 \in [Shapes -> Subgraphs]
  BY <1>1, EmptyIs
<1>10. \A y \in Places : kids2[y] = IF y = RootOf(c) THEN <<>>
                                    ELSE IF y = into THEN g.kids[into] \o top ELSE g.kids[y]
  <2>1. \A y \in Places : kids2[y] = IF y = RootOf(c) THEN <<>> ELSE kids1[y]
    <3> HIDE DEF kids1
    <3> QED
      BY <1>6
  <2>2. \A y \in Places : kids1[y] = IF y = into THEN g.kids[into] \o top ELSE g.kids[y]
    <3> HIDE DEF top
    <3> QED
      BY <1>1
  <2> HIDE DEF kids1, kids2
  <2> QED
    BY <2>1, <2>2
<1>11. /\ \A o \in Shapes : parent2[o] = IF o \in Range(top) THEN into ELSE g.parent[o]
       /\ \A d \in Shapes : sub2[d] = IF d = c THEN Empty ELSE g.sub[d]
  BY <1>1
<1> HIDE DEF x, parent2, kids2, sub2, objs2, edges2
<1>12. x = [objs |-> objs2, edges |-> edges2, parent |-> parent2, kids |-> kids2, sub |-> sub2]
  <2> HIDE DEF top, kids1
  <2> QED
    BY <1>4 DEF Graphs
<1>13. x \in Graphs
  BY <1>5, <1>7, <1>8, <1>9, <1>12 DEF Graphs
<1>14. x.objs = objs2 /\ x.edges = edges2 /\ x.parent = parent2 /\ x.kids = kids2 /\ x.sub = sub2
  BY <1>12
<1> QED
  BY <1>10, <1>11, <1>13, <1>14 DEF x, objs2, edges2, Joined, Injected

\* What WithEdges makes of g.
Joins(g, q, r) ==
    /\ r \in Graphs /\ r.objs = g.objs
    /\ r.edges = Joined(g.edges, q) /\ r.parent = g.parent
    /\ r.kids = g.kids /\ r.sub = g.sub

LEMMA WithEdgesIs ==
    ASSUME NEW g \in Graphs, NEW q \in Seq(Listed)
    PROVE  Joins(g, q, WithEdges(g, q))
<1>1. g.edges \o q \in Seq(Listed)
  BY GraphFields, ConcatProperties
<1> DEFINE all == g.edges \o q
<1>0. WithEdges(g, q) = [g EXCEPT !.edges = all]
  BY DEF WithEdges
<1> HIDE DEF all
<1>2. WithEdges(g, q) = [objs |-> g.objs, edges |-> all, parent |-> g.parent,
                         kids |-> g.kids, sub |-> g.sub]
  BY <1>0 DEF Graphs
<1> QED
  BY <1>1, <1>2, GraphFields DEF Graphs, all, Joined, Joins

\* What RestoreOrder makes of g.
InOrder(g, r) ==
    /\ r \in Graphs
    /\ r.objs = Ordered(Range(g.objs))
    /\ r.edges = Sorted(g.edges)
    /\ r.parent = g.parent /\ r.sub = g.sub
    /\ \A y \in Places : r.kids[y] =
         IF y = Root THEN Ordered(Range(g.kids[Root])) ELSE g.kids[y]

LEMMA RestoreOrderIs ==
    ASSUME NObjects \in Nat, NEW g \in Graphs
    PROVE  InOrder(g, RestoreOrder(g))
<1> DEFINE kids2 == [g.kids EXCEPT ![Root] = Ordered(Range(g.kids[Root]))]
<1>1. Ordered(Range(g.objs)) \in Seq(Shapes) /\ Sorted(g.edges) \in Seq(Listed)
  BY GraphFields, OrderedFacts
<1>2. kids2 \in [Places -> Seq(Shapes)]
  BY GraphFields, OrderedFacts, PlaceFacts
<1>3. \A y \in Places : kids2[y] = IF y = Root THEN Ordered(Range(g.kids[Root])) ELSE g.kids[y]
  BY GraphFields
<1>4. RestoreOrder(g) = [g EXCEPT !.objs = Ordered(Range(g.objs)), !.edges = Sorted(g.edges),
                                  !.kids = kids2]
  BY DEF RestoreOrder
<1> HIDE DEF kids2
<1>5. RestoreOrder(g) = [objs |-> Ordered(Range(g.objs)), edges |-> Sorted(g.edges),
                         parent |-> g.parent, kids |-> kids2, sub |-> g.sub]
  BY <1>4, GraphFields
<1>6. RestoreOrder(g) \in Graphs
  BY <1>1, <1>2, <1>5, GraphFields DEF Graphs
<1> QED
  BY <1>3, <1>5, <1>6 DEF InOrder

-----------------------------------------------------------------------------
(* What hangs where                                                        *)

Kids(p, x) == Ordered({o \in Shapes : p[o] = x})
Tops(p) == {o \in Shapes : p[o] = Root}

\* Of the tree p the objects A have been cut out with themselves, those in B without.
Hangs(g, p, A, B) ==
    /\ \A o \in Shapes : g.parent[o] = IF o \in A THEN RootOf(o)
                                       ELSE IF p[o] \in B THEN RootOf(p[o]) ELSE p[o]
    /\ \A x \in Shapes : g.kids[x] = IF x \in B THEN <<>> ELSE Kids(p, x)
    /\ \A x \in Shapes : g.kids[RootOf(x)] = IF x \in A THEN <<x>>
                                             ELSE IF x \in B THEN Kids(p, x) ELSE <<>>
    /\ Range(g.kids[Root]) = Tops(p) \ A

Separate(p, A, B) == A \subseteq Tops(p) /\ B \subseteq Shapes /\ A \cap B = {}

LEMMA TreeFacts ==
    ASSUME NObjects \in Nat, NEW p \in Trees
    PROVE  /\ \A o \in Shapes : p[o] \in Shapes \cup {Root} /\ p[o] \in Places
           /\ \A x : Kids(p, x) \in Seq(Shapes) /\ Range(Kids(p, x)) = {o \in Shapes : p[o] = x}
           /\ \A o \in Shapes : p[o] # o /\ p[o] < o
<1>1. \A o \in Shapes : p[o] \in 0..NObjects /\ p[o] < o /\ o \in Nat
  BY DEF Trees, Shapes
<1>2. \A o \in Shapes : p[o] \in Shapes \cup {Root}
  BY <1>1 DEF Shapes, Root
<1>3. \A x : Kids(p, x) \in Seq(Shapes) /\ Range(Kids(p, x)) = {o \in Shapes : p[o] = x}
  BY OrderedFacts DEF Kids
<1> QED
  BY <1>1, <1>2, <1>3, PlaceFacts DEF Places

LEMMA GraphOfTree ==
    ASSUME NObjects \in Nat, NEW p \in Trees
    PROVE  /\ GraphOf(p) \in Graphs /\ Hangs(GraphOf(p), p, {}, {})
           /\ GraphOf(p).objs = Ordered(Shapes) /\ GraphOf(p).edges = AllEdges
           /\ GraphOf(p).parent = p /\ GraphOf(p).kids[Root] = Kids(p, Root)
           /\ \A x \in Places : GraphOf(p).kids[x] = Kids(p, x)
           /\ \A c \in Shapes : GraphOf(p).sub[c] = Empty
<1> DEFINE kids == [x \in Places |-> Kids(p, x)]
           sub == [c \in Shapes |-> Empty]
<1>1. GraphOf(p) = [objs |-> Ordered(Shapes), edges |-> AllEdges, parent |-> p,
                    kids |-> kids, sub |-> sub]
  BY DEF GraphOf, Kids, Places
<1>2. kids \in [Places -> Seq(Shapes)] /\ sub \in [Shapes -> Subgraphs]
  BY TreeFacts, EmptyIs
<1>3. p \in [Shapes -> Places]
  <2>1. p = [o \in Shapes |-> p[o]]
    BY DEF Trees
  <2> QED
    BY <2>1, TreeFacts
<1>4. \A x \in Places : kids[x] = Kids(p, x)
  OBVIOUS
<1>5. \A c \in Shapes : sub[c] = Empty
  OBVIOUS
<1> HIDE DEF kids, sub
<1>6. GraphOf(p) \in Graphs
  BY <1>1, <1>2, <1>3, OrderedFacts, EdgesAreListed DEF Graphs
<1>7. \A x \in Shapes : Kids(p, RootOf(x)) = <<>>
  <2> SUFFICES ASSUME NEW x \in Shapes PROVE Kids(p, RootOf(x)) = <<>>
    OBVIOUS
  <2>1. {o \in Shapes : p[o] = RootOf(x)} = {}
    BY TreeFacts, PlaceFacts
  <2> QED
    BY <2>1, OrderedFacts DEF Kids
<1>8. \A x \in Places : GraphOf(p).kids[x] = Kids(p, x)
  BY <1>1, <1>4
<1>9. GraphOf(p).parent = p
  BY <1>1
<1>10. Range(Kids(p, Root)) = Tops(p)
  BY TreeFacts DEF Tops
<1>11. Hangs(GraphOf(p), p, {}, {})
  BY <1>7, <1>8, <1>9, <1>10, PlaceFacts DEF Hangs
<1> QED
  BY <1>1, <1>5, <1>6, <1>8, <1>9, <1>11, PlaceFacts

LEMMA HangsSame ==
    ASSUME NObjects \in Nat,
           NEW g, NEW h, NEW p, NEW A, NEW B, Hangs(g, p, A, B), h.parent = g.parent,
           \A x \in Places : x # Root => h.kids[x] = g.kids[x],
           Range(h.kids[Root]) = Range(g.kids[Root])
    PROVE  Hangs(h, p, A, B)
BY PlaceFacts DEF Hangs

\* c gets a root of its own, with itself.
LEMMA ReparentSelf ==
    ASSUME NObjects \in Nat,
           NEW p \in Trees, NEW A, NEW B, Separate(p, A, B), NEW g \in Graphs,
           Hangs(g, p, A, B), NEW c \in Tops(p), c \notin A, c \notin B
    PROVE  /\ Hangs(Reparent(g, c, TRUE), p, A \cup {c}, B)
           /\ Separate(p, A \cup {c}, B)
<1> DEFINE r == Reparent(g, c, TRUE)
<1>1. c \in Shapes /\ p[c] = Root /\ Root \notin B /\ A \subseteq Shapes /\ B \subseteq Shapes
  BY PlaceFacts DEF Tops, Separate
<1>2. FromOf(g, c, TRUE) = Root /\ TopOf(g, c, TRUE) = <<c>>
  BY <1>1 DEF FromOf, TopOf, Hangs
<1>3. Range(<<c>>) = {c}
  BY DEF Range
<1>4. /\ \A o \in Shapes : r.parent[o] = IF o = c THEN RootOf(c) ELSE g.parent[o]
      /\ \A x \in Places : r.kids[x] = IF x = Root THEN Those(g.kids[Root], Shapes \ {c})
                                       ELSE IF x = RootOf(c) THEN <<c>> ELSE g.kids[x]
  <2>1. /\ \A o \in Shapes : r.parent[o] =
             IF o \in Range(TopOf(g, c, TRUE)) THEN RootOf(c) ELSE g.parent[o]
        /\ \A x \in Places : r.kids[x] =
             IF x = FromOf(g, c, TRUE)
             THEN Those(g.kids[FromOf(g, c, TRUE)], Shapes \ Range(TopOf(g, c, TRUE)))
             ELSE IF x = RootOf(c) THEN TopOf(g, c, TRUE) ELSE g.kids[x]
    BY <1>1, ReparentIs DEF Reparented
  <2> HIDE DEF r
  <2>2. \A o : o \in Range(<<c>>) <=> o = c
    BY <1>3
  <2> QED
    BY <1>2, <1>3, <2>1, <2>2
<1>5. \A o \in Shapes : r.parent[o] = IF o \in A \cup {c} THEN RootOf(o)
                                      ELSE IF p[o] \in B THEN RootOf(p[o]) ELSE p[o]
  BY <1>4 DEF Hangs
<1>6. \A x \in Shapes : r.kids[x] = IF x \in B THEN <<>> ELSE Kids(p, x)
  BY <1>1, <1>4, PlaceFacts DEF Hangs
<1>7. \A x \in Shapes : r.kids[RootOf(x)] = IF x \in A \cup {c} THEN <<x>>
                                            ELSE IF x \in B THEN Kids(p, x) ELSE <<>>
  BY <1>1, <1>4, PlaceFacts DEF Hangs
<1>8. Range(r.kids[Root]) = Tops(p) \ (A \cup {c})
  <2>1. g.kids[Root] \in Seq(Shapes) /\ Range(g.kids[Root]) = Tops(p) \ A
    BY GraphFields, PlaceFacts DEF Hangs
  <2>2. Range(Those(g.kids[Root], Shapes \ {c})) = (Tops(p) \ A) \cap (Shapes \ {c})
    BY <2>1, ThoseFacts
  <2> QED
    BY <1>4, <2>2, PlaceFacts DEF Tops
<1>9. Separate(p, A \cup {c}, B)
  BY <1>1 DEF Separate
<1> HIDE DEF r
<1>10. Hangs(r, p, A \cup {c}, B)
  BY <1>5, <1>6, <1>7, <1>8 DEF Hangs
<1> QED
  BY <1>9, <1>10 DEF r

\* What is in c gets a root of its own.
LEMMA ReparentContent ==
    ASSUME NObjects \in Nat,
           NEW p \in Trees, NEW A, NEW B, Separate(p, A, B), NEW g \in Graphs,
           Hangs(g, p, A, B), NEW c \in Shapes, c \notin A, c \notin B
    PROVE  /\ Hangs(Reparent(g, c, FALSE), p, A, B \cup {c})
           /\ Separate(p, A, B \cup {c})
<1> DEFINE r == Reparent(g, c, FALSE)
           in == {o \in Shapes : p[o] = c}
<1>1. A \subseteq Shapes /\ B \subseteq Shapes /\ \A o \in A : p[o] = Root
  BY DEF Tops, Separate
<1>2. FromOf(g, c, FALSE) = c /\ TopOf(g, c, FALSE) = Kids(p, c) /\ g.kids[c] = Kids(p, c)
  BY DEF FromOf, TopOf, Hangs
<1>3. Range(Kids(p, c)) = in /\ Kids(p, c) \in Seq(Shapes)
  BY TreeFacts
<1> HIDE DEF in
<1>4. /\ \A o \in Shapes : r.parent[o] = IF o \in in THEN RootOf(c) ELSE g.parent[o]
      /\ \A x \in Places : r.kids[x] = IF x = c THEN Those(Kids(p, c), Shapes \ in)
                                       ELSE IF x = RootOf(c) THEN Kids(p, c) ELSE g.kids[x]
  <2>1. /\ \A o \in Shapes : r.parent[o] =
             IF o \in Range(TopOf(g, c, FALSE)) THEN RootOf(c) ELSE g.parent[o]
        /\ \A x \in Places : r.kids[x] =
             IF x = FromOf(g, c, FALSE)
             THEN Those(g.kids[FromOf(g, c, FALSE)], Shapes \ Range(TopOf(g, c, FALSE)))
             ELSE IF x = RootOf(c) THEN TopOf(g, c, FALSE) ELSE g.kids[x]
    BY ReparentIs DEF Reparented
  <2> HIDE DEF r
  <2> QED
    BY <1>2, <1>3, <2>1
<1>5. Those(Kids(p, c), Shapes \ in) = <<>>
  <2>1. /\ Those(Kids(p, c), Shapes \ in) \in Seq(Shapes)
        /\ Range(Those(Kids(p, c), Shapes \ in)) = in \cap (Shapes \ in)
    BY <1>3, ThoseFacts
  <2>2. Range(Those(Kids(p, c), Shapes \ in)) = {}
    BY <2>1
  <2> QED
    BY <2>1, <2>2, RangeGrows
<1>6. \A o \in Shapes : r.parent[o] = IF o \in A THEN RootOf(o)
                                      ELSE IF p[o] \in B \cup {c} THEN RootOf(p[o]) ELSE p[o]
  <2>1. \A o \in A : o \notin in
    BY <1>1, PlaceFacts DEF in
  <2>2. \A o \in Shapes : o \in in <=> p[o] = c
    BY DEF in
  <2> HIDE DEF r
  <2> QED
    BY <1>4, <2>1, <2>2 DEF Hangs
<1>7. \A x \in Shapes : r.kids[x] = IF x \in B \cup {c} THEN <<>> ELSE Kids(p, x)
  BY <1>4, <1>5, PlaceFacts DEF Hangs
<1>8. \A x \in Shapes : r.kids[RootOf(x)] = IF x \in A THEN <<x>>
                                            ELSE IF x \in B \cup {c} THEN Kids(p, x) ELSE <<>>
  BY <1>4, PlaceFacts DEF Hangs
<1>9. Range(r.kids[Root]) = Tops(p) \ A
  BY <1>4, PlaceFacts DEF Hangs
<1>10. Separate(p, A, B \cup {c})
  BY DEF Separate
<1> HIDE DEF r
<1>11. Hangs(r, p, A, B \cup {c})
  BY <1>6, <1>7, <1>8, <1>9 DEF Hangs
<1> QED
  BY <1>10, <1>11 DEF r

\* What was cut out with or without c is put back where it was; what was not cut
\* out stays.
LEMMA InjectHangs ==
    ASSUME NObjects \in Nat,
           NEW p \in Trees, NEW A, NEW B, Separate(p, A, B), NEW g \in Graphs,
           Hangs(g, p, A, B), NEW c \in Shapes, NEW into \in Shapes \cup {Root},
           into = c \/ into = Root, c \in A => into = Root, c \in B => into = c
    PROVE  Hangs(Inject(g, into, c), p, A \ {c}, B \ {c}) /\ Separate(p, A \ {c}, B \ {c})
<1> DEFINE r == Inject(g, into, c)
           top == g.kids[RootOf(c)]
<1>1. A \subseteq Shapes /\ B \subseteq Shapes /\ (\A o \in A : p[o] = Root) /\ A \cap B = {}
  BY DEF Tops, Separate
<1>2. top = IF c \in A THEN <<c>> ELSE IF c \in B THEN Kids(p, c) ELSE <<>>
  BY DEF Hangs
<1>3. Range(top) = IF c \in A THEN {c} ELSE IF c \in B THEN {o \in Shapes : p[o] = c} ELSE {}
  BY <1>2, TreeFacts, RangeGrows DEF Range
<1>4. into \in Shapes \cup {Root} /\ into \in Places /\ RootOf(c) \in Places /\ into # RootOf(c)
  BY PlaceFacts
<1>5. /\ \A o \in Shapes : r.parent[o] = IF o \in Range(top) THEN into ELSE g.parent[o]
      /\ \A y \in Places : r.kids[y] = IF y = RootOf(c) THEN <<>>
                                       ELSE IF y = into THEN Joined(g.kids[into], top) ELSE g.kids[y]
  <2>1. Injected(g, into, c, r)
    BY InjectIs
  <2> HIDE DEF r
  <2> QED
    BY <2>1 DEF Injected
<1>6. g.kids[into] \in Seq(Shapes) /\ top \in Seq(Shapes)
  BY <1>4, GraphFields
<1>7. /\ Joined(g.kids[into], <<>>) = g.kids[into] /\ Joined(<<>>, top) = top
      /\ Range(Joined(g.kids[into], top)) = Range(g.kids[into]) \cup Range(top)
  BY <1>6, ConcatEmptySeq, RangeGrows DEF Joined
<1> HIDE DEF r, top
<1>8. \A o \in Shapes : r.parent[o] = IF o \in A \ {c} THEN RootOf(o)
                                      ELSE IF p[o] \in B \ {c} THEN RootOf(p[o]) ELSE p[o]
  <2> SUFFICES ASSUME NEW o \in Shapes
               PROVE  r.parent[o] = IF o \in A \ {c} THEN RootOf(o)
                                    ELSE IF p[o] \in B \ {c} THEN RootOf(p[o]) ELSE p[o]
    OBVIOUS
  <2>1. g.parent[o] = IF o \in A THEN RootOf(o)
                      ELSE IF p[o] \in B THEN RootOf(p[o]) ELSE p[o]
    BY DEF Hangs
  <2>2. r.parent[o] = IF o \in Range(top) THEN into ELSE g.parent[o]
    BY <1>5
  <2>3. Root \notin B /\ Root # c
    BY <1>1, PlaceFacts
  <2>4. CASE c \in A
    BY <1>1, <1>3, <2>1, <2>2, <2>3, <2>4
  <2>5. CASE c \in B
    BY <1>1, <1>3, <2>1, <2>2, <2>3, <2>5
  <2>6. CASE c \notin A /\ c \notin B
    BY <1>1, <1>3, <2>1, <2>2, <2>3, <2>6
  <2> QED
    BY <2>4, <2>5, <2>6
<1>9. \A x \in Shapes : r.kids[x] = IF x \in B \ {c} THEN <<>> ELSE Kids(p, x)
  <2> SUFFICES ASSUME NEW x \in Shapes
               PROVE  r.kids[x] = IF x \in B \ {c} THEN <<>> ELSE Kids(p, x)
    OBVIOUS
  <2>1. x \in Places /\ x # RootOf(c) /\ x # Root
    BY PlaceFacts
  <2>2. g.kids[x] = IF x \in B THEN <<>> ELSE Kids(p, x)
    BY DEF Hangs
  <2>3. r.kids[x] = IF x = into THEN Joined(g.kids[into], top) ELSE g.kids[x]
    BY <1>5, <2>1
  <2>4. CASE x # into
    BY <2>1, <2>2, <2>3, <2>4
  <2>5. CASE x = into /\ c \in B
    BY <1>1, <1>2, <1>7, <2>1, <2>2, <2>3, <2>5
  <2>6. CASE x = into /\ c \notin B
    BY <1>1, <1>2, <1>7, <2>1, <2>2, <2>3, <2>6
  <2> QED
    BY <2>4, <2>5, <2>6
<1>10. \A x \in Shapes : r.kids[RootOf(x)] = IF x \in A \ {c} THEN <<x>>
                                             ELSE IF x \in B \ {c} THEN Kids(p, x) ELSE <<>>
  <2> SUFFICES ASSUME NEW x \in Shapes
               PROVE  r.kids[RootOf(x)] = IF x \in A \ {c} THEN <<x>>
                                          ELSE IF x \in B \ {c} THEN Kids(p, x) ELSE <<>>
    OBVIOUS
  <2>1. RootOf(x) \in Places /\ RootOf(x) # into /\ (RootOf(x) = RootOf(c) => x = c)
    BY PlaceFacts
  <2>2. r.kids[RootOf(x)] = IF x = c THEN <<>> ELSE g.kids[RootOf(x)]
    BY <1>5, <2>1
  <2> QED
    BY <2>2 DEF Hangs
<1>11. Range(r.kids[Root]) = Tops(p) \ (A \ {c})
  <2>1. Range(g.kids[Root]) = Tops(p) \ A
    BY DEF Hangs
  <2>2. r.kids[Root] = IF into = Root THEN Joined(g.kids[into], top) ELSE g.kids[Root]
    BY <1>5, PlaceFacts
  <2>3. CASE c \in A
    <3>1. c \in Tops(p)
      BY <2>3 DEF Separate
    <3> QED
      BY <1>3, <1>7, <2>1, <2>2, <2>3, <3>1
  <2>4. CASE c \notin A
    <3>1. into = Root => Joined(g.kids[into], top) = g.kids[into]
      <4>1. into = Root => c \notin B
        BY PlaceFacts
      <4> QED
        BY <1>2, <1>7, <2>4, <4>1
    <3> QED
      BY <2>1, <2>2, <2>4, <3>1
  <2> QED
    BY <2>3, <2>4
<1>12. Separate(p, A \ {c}, B \ {c})
  BY DEF Separate
<1>13. Hangs(r, p, A \ {c}, B \ {c})
  BY <1>8, <1>9, <1>10, <1>11 DEF Hangs
<1> QED
  BY <1>12, <1>13 DEF r

-----------------------------------------------------------------------------
(* What is held where                                                      *)

\* The objects and edges of the graph and of all that has been cut out of it.
ObjsIn(g) == Range(g.objs) \cup UNION {Range(g.sub[c].objs) : c \in Shapes}
EdgesIn(g) == Range(g.edges) \cup UNION {Range(g.sub[c].edges) : c \in Shapes}

LEMMA HeldIn ==
    ASSUME NEW g
    PROVE  /\ \A o : o \in ObjsIn(g) <=>
                (o \in Range(g.objs) \/ \E c \in Shapes : o \in Range(g.sub[c].objs))
           /\ \A e : e \in EdgesIn(g) <=>
                (e \in Range(g.edges) \/ \E c \in Shapes : e \in Range(g.sub[c].edges))
BY DEF ObjsIn, EdgesIn

LEMMA CutFacts ==
    ASSUME NEW g \in Graphs, NEW S
    PROVE  /\ CutOf(g, S) \in Subgraphs
           /\ Range(CutOf(g, S).objs) = Range(g.objs) \cap S
           /\ Range(CutOf(g, S).edges) = Range(g.edges) \cap Both(S)
           /\ Range(CutOf(g, S).external) =
                Range(g.edges) \cap (Edges \ (Both(S) \cup Neither(S)))
<1>1. g.objs \in Seq(Shapes) /\ g.edges \in Seq(Listed)
  BY GraphFields
<1>2. \A T : /\ Those(g.objs, T) \in Seq(Shapes)
             /\ Range(Those(g.objs, T)) = Range(g.objs) \cap T
  BY <1>1, ThoseFacts
<1>3. \A T : /\ Those(g.edges, T) \in Seq(Listed)
             /\ Range(Those(g.edges, T)) = Range(g.edges) \cap T
  BY <1>1, ThoseFacts
<1> QED
  BY <1>2, <1>3 DEF CutOf, Subgraphs

\* Cutting out loses nothing.
LEMMA ExtractHolds ==
    ASSUME NObjects \in Nat,
           NEW g \in Graphs, NEW c \in Shapes, NEW self \in BOOLEAN, g.sub[c] = Empty
    PROVE  /\ ObjsIn(Extract(g, c, self)) = ObjsIn(g)
           /\ EdgesIn(Extract(g, c, self))
                \cup Range(Extract(g, c, self).sub[c].external) = EdgesIn(g)
<1> DEFINE x == Extract(g, c, self)
           S == Members(g, c, self)
<1>1. Extracted(g, c, self, x)
  BY ExtractIs
<1> HIDE DEF x, S
<1>2. /\ x.objs = Those(g.objs, Shapes \ S) /\ x.edges = Those(g.edges, Neither(S))
      /\ \A d \in Shapes : x.sub[d] = IF d = c THEN CutOf(g, S) ELSE g.sub[d]
  BY <1>1 DEF Extracted, S
<1>3. /\ Range(x.objs) = Range(g.objs) \cap (Shapes \ S)
      /\ Range(x.edges) = Range(g.edges) \cap Neither(S)
  BY <1>2, GraphFields, ThoseFacts
<1>4. /\ Range(x.sub[c].objs) = Range(g.objs) \cap S
      /\ Range(x.sub[c].edges) = Range(g.edges) \cap Both(S)
      /\ Range(x.sub[c].external) = Range(g.edges) \cap (Edges \ (Both(S) \cup Neither(S)))
  BY <1>2, CutFacts
<1>5. Range(g.objs) \subseteq Shapes /\ Range(g.edges) \subseteq Edges
  BY GraphFields, RangeGrows, EdgesAreListed
<1>6. Range(g.sub[c].objs) = {} /\ Range(g.sub[c].edges) = {}
  BY EmptyIs
<1>7. \A d \in Shapes : d # c => x.sub[d] = g.sub[d]
  BY <1>2
<1>8. ASSUME NEW o PROVE o \in ObjsIn(x) <=> o \in ObjsIn(g)
  <2>1. o \in ObjsIn(x) <=> (o \in Range(x.objs) \/ \E d \in Shapes : o \in Range(x.sub[d].objs))
    BY HeldIn
  <2>2. o \in ObjsIn(g) <=> (o \in Range(g.objs) \/ \E d \in Shapes : o \in Range(g.sub[d].objs))
    BY HeldIn
  <2>3. (\E d \in Shapes : o \in Range(x.sub[d].objs))
          <=> (o \in Range(g.objs) \cap S \/ \E d \in Shapes : o \in Range(g.sub[d].objs))
    BY <1>4, <1>6, <1>7
  <2> QED
    BY <1>3, <1>5, <2>1, <2>2, <2>3
<1>9. ASSUME NEW e
      PROVE  e \in EdgesIn(x) \cup Range(x.sub[c].external) <=> e \in EdgesIn(g)
  <2>1. e \in EdgesIn(x) <=> (e \in Range(x.edges) \/ \E d \in Shapes : e \in Range(x.sub[d].edges))
    BY HeldIn
  <2>2. e \in EdgesIn(g) <=> (e \in Range(g.edges) \/ \E d \in Shapes : e \in Range(g.sub[d].edges))
    BY HeldIn
  <2>3. (\E d \in Shapes : e \in Range(x.sub[d].edges))
          <=> (e \in Range(g.edges) \cap Both(S) \/ \E d \in Shapes : e \in Range(g.sub[d].edges))
    BY <1>4, <1>6, <1>7
  <2> QED
    BY <1>3, <1>4, <1>5, <2>1, <2>2, <2>3
<1> QED
  BY <1>8, <1>9 DEF x

\* Neither does putting back.
LEMMA InjectHolds ==
    ASSUME NObjects \in Nat,
           NEW g \in Graphs, NEW into \in Shapes \cup {Root}, NEW c \in Shapes
    PROVE  /\ ObjsIn(Inject(g, into, c)) = ObjsIn(g)
           /\ EdgesIn(Inject(g, into, c)) = EdgesIn(g)
           /\ \A d \in Shapes : Inject(g, into, c).sub[d] = IF d = c THEN Empty ELSE g.sub[d]
<1> DEFINE x == Inject(g, into, c)
<1>1. Injected(g, into, c, x)
  BY InjectIs
<1> HIDE DEF x
<1>2. \A d \in Shapes : x.sub[d] = IF d = c THEN Empty ELSE g.sub[d]
  BY <1>1 DEF Injected
<1>3. /\ g.objs \in Seq(Shapes) /\ g.edges \in Seq(Listed)
      /\ g.sub[c].objs \in Seq(Shapes) /\ g.sub[c].edges \in Seq(Listed)
  BY GraphFields
<1>4. /\ Range(x.objs) = Range(g.objs) \cup Range(g.sub[c].objs)
      /\ Range(x.edges) = Range(g.edges) \cup Range(g.sub[c].edges)
  <2>1. x.objs = g.objs \o g.sub[c].objs /\ x.edges = g.edges \o g.sub[c].edges
    BY <1>1 DEF Injected, Joined
  <2> QED
    BY <1>3, <2>1, RangeGrows
<1>5. Range(x.sub[c].objs) = {} /\ Range(x.sub[c].edges) = {}
  BY <1>2, EmptyIs
<1>6. \A d \in Shapes : d # c => x.sub[d] = g.sub[d]
  BY <1>2
<1>7. ASSUME NEW o PROVE o \in ObjsIn(x) <=> o \in ObjsIn(g)
  <2>1. o \in ObjsIn(x) <=> (o \in Range(x.objs) \/ \E d \in Shapes : o \in Range(x.sub[d].objs))
    BY HeldIn
  <2>2. o \in ObjsIn(g) <=> (o \in Range(g.objs) \/ \E d \in Shapes : o \in Range(g.sub[d].objs))
    BY HeldIn
  <2> QED
    BY <1>4, <1>5, <1>6, <2>1, <2>2
<1>8. ASSUME NEW e PROVE e \in EdgesIn(x) <=> e \in EdgesIn(g)
  <2>1. e \in EdgesIn(x) <=> (e \in Range(x.edges) \/ \E d \in Shapes : e \in Range(x.sub[d].edges))
    BY HeldIn
  <2>2. e \in EdgesIn(g) <=> (e \in Range(g.edges) \/ \E d \in Shapes : e \in Range(g.sub[d].edges))
    BY HeldIn
  <2> QED
    BY <1>4, <1>5, <1>6, <2>1, <2>2
<1> QED
  BY <1>2, <1>7, <1>8 DEF x

LEMMA RestoreOrderHolds ==
    ASSUME NObjects \in Nat, NEW g \in Graphs
    PROVE  /\ ObjsIn(RestoreOrder(g)) = ObjsIn(g) /\ EdgesIn(RestoreOrder(g)) = EdgesIn(g)
           /\ Range(RestoreOrder(g).kids[Root]) = Range(g.kids[Root])
<1> DEFINE x == RestoreOrder(g)
<1>1. InOrder(g, x)
  BY RestoreOrderIs
<1> HIDE DEF x
<1>2. g.objs \in Seq(Shapes) /\ g.edges \in Seq(Listed) /\ g.kids[Root] \in Seq(Shapes)
  BY GraphFields, PlaceFacts
<1>3. Range(g.objs) \subseteq Shapes /\ Range(g.kids[Root]) \subseteq Shapes
  BY <1>2, RangeGrows
<1>4. /\ Range(x.objs) = Range(g.objs) /\ Range(x.kids[Root]) = Range(g.kids[Root])
      /\ Range(x.edges) = Range(g.edges) \cup {} /\ x.sub = g.sub
  <2>1. /\ x.objs = Ordered(Range(g.objs)) /\ x.edges = Sorted(g.edges) /\ x.sub = g.sub
        /\ x.kids[Root] = Ordered(Range(g.kids[Root]))
    BY <1>1, PlaceFacts DEF InOrder
  <2>2. /\ Range(Ordered(Range(g.objs))) = Shapes \cap Range(g.objs)
        /\ Range(Ordered(Range(g.kids[Root]))) = Shapes \cap Range(g.kids[Root])
        /\ Range(Sorted(g.edges)) = Range(g.edges)
    BY <1>2, OrderedFacts
  <2> QED
    BY <1>3, <2>1, <2>2
<1>5. ObjsIn(x) = ObjsIn(g) /\ EdgesIn(x) = EdgesIn(g) \cup {}
  BY <1>4 DEF ObjsIn, EdgesIn
<1> QED
  BY <1>4, <1>5 DEF x

LEMMA WithEdgesHolds ==
    ASSUME NEW g \in Graphs, NEW q \in Seq(Listed)
    PROVE  /\ ObjsIn(WithEdges(g, q)) = ObjsIn(g)
           /\ EdgesIn(WithEdges(g, q)) = EdgesIn(g) \cup Range(q)
<1> DEFINE x == WithEdges(g, q)
<1>1. Joins(g, q, x)
  BY WithEdgesIs
<1> HIDE DEF x
<1>2. x.objs = g.objs /\ x.sub = g.sub /\ x.edges = g.edges \o q
  BY <1>1 DEF Joins, Joined
<1>3. Range(x.edges) = Range(g.edges) \cup Range(q)
  BY <1>2, GraphFields, RangeGrows
<1>4. Range(x.objs) = Range(g.objs)
  BY <1>2
<1>5. ObjsIn(x) = ObjsIn(g) /\ EdgesIn(x) = EdgesIn(g) \cup Range(q)
  BY <1>2, <1>3, <1>4 DEF ObjsIn, EdgesIn
<1> QED
  BY <1>5 DEF x

-----------------------------------------------------------------------------
(* Sequences without repetition                                            *)

LEMMA DistinctFacts ==
    ASSUME NEW X, NEW q \in Seq(X), IsInjective(q)
    PROVE  /\ q # <<>> => /\ Head(q) \in X /\ Tail(q) \in Seq(X) /\ IsInjective(Tail(q))
                          /\ Head(q) \notin Range(Tail(q))
                          /\ Range(q) = Range(Tail(q)) \cup {Head(q)}
           /\ \A x \in X : x \notin Range(q) => IsInjective(Append(q, x))
           /\ \A r \in Seq(X) : IsInjective(r) /\ Range(q) \cap Range(r) = {}
                                => IsInjective(q \o r)
<1>0. /\ \A r \in Seq(X) : Len(r) \in Nat /\ DOMAIN r = 1..Len(r)
      /\ \A i, j \in 1..Len(q) : q[i] = q[j] => i = j
  BY LenProperties DEF IsInjective
<1>1. ASSUME q # <<>>
      PROVE  /\ Head(q) \in X /\ Tail(q) \in Seq(X) /\ IsInjective(Tail(q))
             /\ Head(q) \notin Range(Tail(q)) /\ Range(q) = Range(Tail(q)) \cup {Head(q)}
  <2> DEFINE t == Tail(q)
             n == Len(q)
  <2>1. /\ Head(q) \in X /\ t \in Seq(X) /\ Len(t) = n - 1
        /\ \A i \in 1..Len(t) : t[i] = q[i + 1]
    BY <1>1, HeadTailProperties
  <2>2. Head(q) = q[1] /\ n \in Nat /\ n > 0
    BY <1>1, EmptySeq
  <2>3. DOMAIN t = 1..(n - 1) /\ DOMAIN q = 1..n /\ \A i \in 1..(n - 1) : t[i] = q[i + 1]
    BY <1>0, <2>1
  <2> HIDE DEF t, n
  <2>4. IsInjective(t)
    <3> SUFFICES ASSUME NEW i \in 1..(n - 1), NEW j \in 1..(n - 1), t[i] = t[j] PROVE i = j
      BY <2>3 DEF IsInjective
    <3>1. i + 1 \in 1..n /\ j + 1 \in 1..n /\ q[i + 1] = q[j + 1]
      BY <2>2, <2>3
    <3>2. i + 1 = j + 1
      BY <1>0, <3>1 DEF n
    <3> QED
      BY <3>2
  <2>5. q[1] \notin Range(t)
    <3> SUFFICES ASSUME NEW i \in 1..(n - 1), t[i] = q[1] PROVE FALSE
      BY <2>3 DEF Range
    <3>1. i + 1 \in 1..n /\ 1 \in 1..n /\ q[i + 1] = q[1]
      BY <2>2, <2>3
    <3>2. i + 1 = 1
      BY <1>0, <3>1 DEF n
    <3> QED
      BY <3>2
  <2>6. Range(q) = Range(t) \cup {q[1]}
    <3>1. 1 \in 1..n /\ \A i \in 1..(n - 1) : i + 1 \in 1..n
      BY <2>2
    <3>2. \A i \in 1..n : i = 1 \/ (i - 1 \in 1..(n - 1) /\ t[i - 1] = q[i])
      BY <2>2, <2>3
    <3> QED
      BY <2>3, <3>1, <3>2 DEF Range
  <2> QED
    BY <2>1, <2>2, <2>4, <2>5, <2>6 DEF t
<1>2. ASSUME NEW r \in Seq(X), IsInjective(r), Range(q) \cap Range(r) = {}
      PROVE  IsInjective(q \o r)
  <2> DEFINE c == q \o r
             n == Len(q)
             k == Len(r)
  <2>1. /\ c \in Seq(X) /\ Len(c) = n + k
        /\ \A i \in 1..(n + k) : c[i] = IF i <= n THEN q[i] ELSE r[i - n]
    BY ConcatProperties
  <2>2. /\ DOMAIN c = 1..(n + k) /\ DOMAIN q = 1..n /\ DOMAIN r = 1..k
        /\ n \in Nat /\ k \in Nat
    BY <1>0, <2>1
  <2>3. /\ \A i, j \in 1..n : q[i] = q[j] => i = j
        /\ \A i, j \in 1..k : r[i] = r[j] => i = j
        /\ \A i \in 1..n, j \in 1..k : q[i] # r[j]
    <3> HIDE DEF c, n, k
    <3>1. \A i, j \in 1..n : q[i] = q[j] => i = j
      BY <1>0, <2>2
    <3>2. \A i, j \in 1..k : r[i] = r[j] => i = j
      BY <1>2, <2>2 DEF IsInjective
    <3>3. \A i \in 1..n, j \in 1..k : q[i] \in Range(q) /\ r[j] \in Range(r)
      BY <2>2 DEF Range
    <3>4. \A i \in 1..n, j \in 1..k : q[i] # r[j]
      BY <1>2, <3>3
    <3> QED
      BY <3>1, <3>2, <3>4
  <2> HIDE DEF c, n, k
  <2> SUFFICES ASSUME NEW i \in 1..(n + k), NEW j \in 1..(n + k), c[i] = c[j] PROVE i = j
    BY <2>2 DEF IsInjective, c
  <2>4. /\ i <= n => i \in 1..n
        /\ ~(i <= n) => i - n \in 1..k
        /\ j <= n => j \in 1..n
        /\ ~(j <= n) => j - n \in 1..k
    BY <2>2
  <2>5. i - n = j - n => i = j
    BY <2>2
  <2> QED
    BY <2>1, <2>3, <2>4, <2>5
<1>3. ASSUME NEW x \in X, x \notin Range(q) PROVE IsInjective(Append(q, x))
  <2> DEFINE a == Append(q, x)
             n == Len(q)
  <2>1. /\ a \in Seq(X) /\ Len(a) = n + 1 /\ \A i \in 1..n : a[i] = q[i]
        /\ a[n + 1] = x
    BY AppendProperties
  <2>2. DOMAIN a = 1..(n + 1) /\ n \in Nat /\ \A i \in 1..n : q[i] # x
    BY <1>0, <1>3, <2>1 DEF Range
  <2>3. \A i, j \in 1..n : q[i] = q[j] => i = j
    BY <1>0
  <2> HIDE DEF a, n
  <2> SUFFICES ASSUME NEW i \in 1..(n + 1), NEW j \in 1..(n + 1), a[i] = a[j] PROVE i = j
    BY <2>2 DEF IsInjective, a
  <2>4. (i \in 1..n \/ i = n + 1) /\ (j \in 1..n \/ j = n + 1)
    BY <2>2
  <2> QED
    BY <2>1, <2>2, <2>3, <2>4
<1> QED
  BY <1>1, <1>2, <1>3

\* What the elements of a sequence in S are is found without repetition.
LEMMA ThoseDistinct ==
    ASSUME NEW X, NEW S
    PROVE  \A q \in Seq(X) : IsInjective(q) => IsInjective(Those(q, S))
<1> DEFINE I == {q \in Seq(X) : IsInjective(q) => IsInjective(Those(q, S))}
<1>1. <<>> \in I
  <2>1. <<>> \in Seq(X) /\ Those(<<>>, S) = <<>>
    BY EmptySeq, ThoseAppend
  <2> QED
    BY <2>1
<1>2. ASSUME NEW q \in Seq(X), NEW x \in X, q \in I PROVE Append(q, x) \in I
  <2> DEFINE a == Append(q, x)
             n == Len(q)
  <2>1. /\ a \in Seq(X) /\ Len(a) = n + 1 /\ \A i \in 1..n : a[i] = q[i]
        /\ a[n + 1] = x
    BY AppendProperties
  <2>2. n \in Nat /\ DOMAIN q = 1..n /\ DOMAIN a = 1..(n + 1)
    BY <2>1, LenProperties
  <2>3. Those(a, S) = IF x \in S THEN Append(Those(q, S), x) ELSE Those(q, S)
    <3>1. \A r \in Seq(X), y \in X :
             Those(Append(r, y), S) = IF y \in S THEN Append(Those(r, S), y) ELSE Those(r, S)
      BY ThoseAppend
    <3> QED
      BY <3>1
  <2>4. Those(q, S) \in Seq(X) /\ Range(Those(q, S)) = Range(q) \cap S
    BY ThoseFacts
  <2> HIDE DEF a, n
  <2>5. ASSUME IsInjective(a) PROVE IsInjective(q) /\ x \notin Range(q)
    <3>1. \A i \in 1..n : i \in 1..(n + 1) /\ n + 1 \in 1..(n + 1) /\ i # n + 1
      BY <2>2
    <3>2. \A i, j \in 1..(n + 1) : a[i] = a[j] => i = j
      BY <2>2, <2>5 DEF IsInjective
    <3>3. \A i, j \in 1..n : q[i] = q[j] => i = j
      BY <2>1, <3>1, <3>2
    <3>4. \A i \in 1..n : q[i] # x
      BY <2>1, <3>1, <3>2
    <3> QED
      BY <2>2, <3>3, <3>4 DEF IsInjective, Range
  <2>6. ASSUME IsInjective(a) PROVE IsInjective(Those(a, S))
    <3>1. IsInjective(Those(q, S)) /\ x \notin Range(Those(q, S))
      BY <1>2, <2>4, <2>5, <2>6
    <3>2. IsInjective(Append(Those(q, S), x))
      BY <2>4, <3>1, DistinctFacts
    <3> QED
      BY <2>3, <3>1, <3>2
  <2> QED
    BY <2>1, <2>6 DEF a
<1> HIDE DEF I
<1>3. Seq(X) \subseteq I
  BY <1>1, <1>2, AllSequences
<1> QED
  BY <1>3 DEF I

LEMMA KidsDistinct ==
    ASSUME NObjects \in Nat
    PROVE  \A p, x : IsInjective(Kids(p, x))
<1> DEFINE f == [o \in Shapes |-> o]
<1>1. f \in Seq(Shapes)
  <2>1. f \in [1..NObjects -> Shapes]
    BY DEF Shapes
  <2>2. f \in UNION {[1..m -> Shapes] : m \in Nat}
    <3> HIDE DEF f
    <3> QED
      BY <2>1
  <2> QED
    BY <2>2, SeqDef
<1>2. IsInjective(f)
  BY DEF IsInjective
<1>3. \A S : Ordered(S) = Those(f, S)
  BY DEF Ordered
<1> HIDE DEF f
<1>4. \A S : IsInjective(Ordered(S))
  BY <1>1, <1>2, <1>3, ThoseDistinct
<1> QED
  BY <1>4 DEF Kids

-----------------------------------------------------------------------------
(* The search for nested diagrams                                          *)

\* The objects in V have been visited and those in q are next: each is in the tree
\* below a plain one that has been visited.
Frontier(p, V, q) ==
    /\ V \subseteq Shapes /\ q \in Seq(Shapes) /\ IsInjective(q) /\ V \cap Range(q) = {}
    /\ \A o \in V \cup Range(q) : p[o] = Root \/ (p[o] \in V /\ form[p[o]] = "plain")

LEMMA FrontierStart ==
    ASSUME NObjects \in Nat,
           NEW p \in Trees PROVE Frontier(p, {}, Kids(p, Root))
BY TreeFacts, KidsDistinct DEF Frontier

LEMMA FrontierStep ==
    ASSUME NObjects \in Nat,
           NEW p \in Trees, NEW V, NEW q, Frontier(p, V, q), q # <<>>
    PROVE  /\ Head(q) \in Shapes /\ Head(q) \notin V
           /\ Frontier(p, V \cup {Head(q)}, Tail(q))
           /\ form[Head(q)] = "plain" =>
                Frontier(p, V \cup {Head(q)}, Tail(q) \o Kids(p, Head(q)))
<1> DEFINE c == Head(q)
           t == Tail(q)
           k == Kids(p, c)
<1>1. V \subseteq Shapes /\ q \in Seq(Shapes) /\ IsInjective(q) /\ V \cap Range(q) = {}
  BY DEF Frontier
<1>2. /\ c \in Shapes /\ t \in Seq(Shapes) /\ IsInjective(t)
      /\ c \notin Range(t) /\ Range(q) = Range(t) \cup {c}
  BY <1>1, DistinctFacts
<1>3. \A o \in V \cup Range(q) : p[o] = Root \/ (p[o] \in V /\ form[p[o]] = "plain")
  BY DEF Frontier
<1>4. k \in Seq(Shapes) /\ Range(k) = {o \in Shapes : p[o] = c} /\ IsInjective(k)
  BY TreeFacts, KidsDistinct
<1> HIDE DEF c, t, k
<1>5. c \notin V /\ Frontier(p, V \cup {c}, t)
  BY <1>1, <1>2, <1>3 DEF Frontier
<1>6. ASSUME form[c] = "plain" PROVE Frontier(p, V \cup {c}, t \o k)
  <2>1. \A o \in V \cup Range(q) : o \notin Range(k)
    <3>1. c # Root
      BY <1>2, PlaceFacts
    <3> QED
      BY <1>2, <1>3, <1>4, <1>5, <3>1
  <2>2. Range(t) \cap Range(k) = {} /\ (V \cup {c}) \cap Range(k) = {}
    BY <1>2, <2>1
  <2>3. t \o k \in Seq(Shapes) /\ Range(t \o k) = Range(t) \cup Range(k) /\ IsInjective(t \o k)
    BY <1>2, <1>4, <2>2, ConcatProperties, RangeGrows, DistinctFacts
  <2> DEFINE j == t \o k
  <2> HIDE DEF j
  <2>4. \A o \in Range(k) : p[o] = c
    BY <1>4
  <2>5. Frontier(p, V \cup {c}, j)
    <3>1. j \in Seq(Shapes) /\ Range(j) = Range(t) \cup Range(k) /\ IsInjective(j)
      BY <2>3 DEF j
    <3>2. (V \cup {c}) \cap Range(j) = {}
      BY <1>1, <1>2, <2>2, <3>1
    <3>3. \A o \in (V \cup {c}) \cup Range(j) :
             p[o] = Root \/ (p[o] \in V \cup {c} /\ form[p[o]] = "plain")
      BY <1>2, <1>3, <1>6, <2>4, <3>1
    <3>4. V \cup {c} \subseteq Shapes
      BY <1>1, <1>2
    <3> QED
      BY <3>1, <3>2, <3>3, <3>4 DEF Frontier
  <2> QED
    BY <2>5 DEF j
<1> QED
  BY <1>2, <1>5, <1>6 DEF c, t, k

IsDiagram(g, o) == form[o] = "near" \/ (form[o] = "special" /\ g.kids[o] # <<>>)
Walks == [queue : Seq(Shapes), specs : Seq(Shapes)]
Walked(g, w) ==
    IF w.queue = <<>> THEN w
    ELSE [queue |-> Tail(w.queue) \o IF form[Head(w.queue)] = "plain"
                                     THEN g.kids[Head(w.queue)] ELSE <<>>,
          specs |-> IF IsDiagram(g, Head(w.queue)) THEN Append(w.specs, Head(w.queue))
                    ELSE w.specs]

LEMMA WalkedType ==
    ASSUME NObjects \in Nat, NEW g \in Graphs, NEW w \in Walks
    PROVE  Walked(g, w) \in Walks
<1> DEFINE c == Head(w.queue)
           rest == IF form[c] = "plain" THEN g.kids[c] ELSE <<>>
           queue2 == Tail(w.queue) \o rest
           specs2 == IF IsDiagram(g, c) THEN Append(w.specs, c) ELSE w.specs
<1>1. CASE w.queue = <<>>
  BY <1>1 DEF Walked
<1>2. CASE w.queue # <<>>
  <2>1. w.queue \in Seq(Shapes) /\ w.specs \in Seq(Shapes)
    BY DEF Walks
  <2>2. c \in Shapes /\ Tail(w.queue) \in Seq(Shapes)
    BY <1>2, <2>1, HeadTailProperties
  <2>3. rest \in Seq(Shapes)
    BY <2>2, GraphFields, PlaceFacts, EmptySeq
  <2>4. queue2 \in Seq(Shapes)
    BY <2>2, <2>3, ConcatProperties
  <2>5. specs2 \in Seq(Shapes)
    BY <2>1, <2>2, AppendProperties
  <2>6. Walked(g, w) = [queue |-> queue2, specs |-> specs2]
    BY <1>2 DEF Walked
  <2> HIDE DEF queue2, specs2
  <2> QED
    BY <2>4, <2>5, <2>6 DEF Walks
<1> QED
  BY <1>1, <1>2

LEMMA SpecsAreWalked ==
    ASSUME NObjects \in Nat, NEW g \in Graphs
    PROVE  \E w \in [0..NObjects -> Walks] :
             /\ w[0] = [queue |-> g.kids[Root], specs |-> <<>>]
             /\ \A i \in 1..NObjects : w[i] = Walked(g, w[i - 1])
             /\ Specs(g) = w[NObjects].specs
<1> DEFINE base == [queue |-> g.kids[Root], specs |-> <<>>]
           n == NObjects
           h == [a \in (1..n) \X Walks |-> Walked(g, a[2])]
           Is(f) == f = [i \in 0..n |-> IF i = 0 THEN base ELSE Walked(g, f[i - 1])]
           walk == CHOOSE f : Is(f)
<1>1. n \in Nat
  OBVIOUS
<1>2. Specs(g) = walk[n].specs
  BY DEF Specs, Walked, IsDiagram
<1>3. base \in Walks
  BY GraphFields, PlaceFacts, EmptySeq DEF Walks
<1>4. h \in [(1..n) \X Walks -> Walks]
  BY WalkedType
<1>5. \A i \in 1..n, v \in Walks : h[<<i, v>>] = Walked(g, v)
  OBVIOUS
<1> HIDE DEF h, n, base
<1>6. PICK v \in [0..n -> Walks] : Runs(v, n, base, h)
  BY <1>1, <1>3, <1>4, RunsExist
<1>7. ASSUME NEW i \in 1..n PROVE v[i] = Walked(g, v[i - 1])
  <2>1. i - 1 \in 0..n
    BY <1>1
  <2> QED
    BY <1>5, <1>6, <2>1 DEF Runs
<1>8. v[0] = base
  BY <1>6 DEF Runs
<1>9. Is(v)
  <2>1. \A i \in 0..n : i # 0 => i \in 1..n
    BY <1>1
  <2> QED
    BY <1>7, <1>8, <2>1
<1>10. Is(walk)
  <2> HIDE DEF Is
  <2> QED
    BY <1>9
<1> HIDE DEF walk
<1>11. \A i \in 0..n : walk[i] = v[i]
  <2> DEFINE N == {i \in Nat : i <= n => walk[i] = v[i]}
  <2>1. 0 \in N
    BY <1>1, <1>8, <1>10
  <2>2. ASSUME NEW i \in Nat, i \in N PROVE i + 1 \in N
    <3> SUFFICES ASSUME i + 1 <= n PROVE walk[i + 1] = v[i + 1]
      OBVIOUS
    <3>1. i + 1 \in 1..n /\ i + 1 \in 0..n /\ i + 1 # 0 /\ (i + 1) - 1 = i /\ walk[i] = v[i]
      BY <1>1, <2>2
    <3>2. walk[i + 1] = Walked(g, walk[i])
      BY <1>10, <3>1
    <3> QED
      BY <1>7, <3>1, <3>2
  <2> HIDE DEF N
  <2>3. Nat \subseteq N
    BY <2>1, <2>2, AllNaturals
  <2> QED
    BY <1>1, <2>3 DEF N
<1>12. Specs(g) = v[n].specs
  BY <1>1, <1>2, <1>11
<1> QED
  BY <1>6, <1>7, <1>8, <1>12 DEF n, base

\* The diagrams of q are below no other diagram.
Topmost(p, q) ==
    /\ q \in Seq(Shapes) /\ IsInjective(q)
    /\ \A c \in Range(q) : form[c] # "plain"
    /\ \E V \in SUBSET Shapes :
         /\ Range(q) \subseteq V
         /\ \A o \in V : p[o] = Root \/ (p[o] \in V /\ form[p[o]] = "plain")

LEMMA SpecsAreTopmost ==
    ASSUME NObjects \in Nat, NEW p \in Trees
    PROVE  Topmost(p, Specs(GraphOf(p)))
<1> DEFINE g == GraphOf(p)
           Found(w) == \E V : /\ Frontier(p, V, w.queue)
                              /\ w.specs \in Seq(Shapes) /\ IsInjective(w.specs)
                              /\ Range(w.specs) \subseteq V
                              /\ \A c \in Range(w.specs) : form[c] # "plain"
<1>1. /\ g \in Graphs /\ g.kids[Root] = Kids(p, Root)
      /\ \A x \in Shapes : g.kids[x] = Kids(p, x)
  BY GraphOfTree, PlaceFacts
<1> HIDE DEF g
<1>2. PICK w \in [0..NObjects -> Walks] :
         /\ w[0] = [queue |-> g.kids[Root], specs |-> <<>>]
         /\ \A i \in 1..NObjects : w[i] = Walked(g, w[i - 1])
         /\ Specs(g) = w[NObjects].specs
  BY <1>1, SpecsAreWalked
<1>3. Found(w[0])
  <2>1. w[0].queue = Kids(p, Root) /\ w[0].specs = <<>>
    BY <1>1, <1>2
  <2>2. <<>> \in Seq(Shapes) /\ IsInjective(<<>>) /\ Range(<<>>) = {}
    BY EmptySeq DEF IsInjective, Range
  <2>3. Frontier(p, {}, w[0].queue)
    BY <2>1, FrontierStart
  <2> QED
    BY <2>1, <2>2, <2>3
<1>4. ASSUME NEW v \in Walks, Found(v) PROVE Found(Walked(g, v))
  <2>1. CASE v.queue = <<>>
    <3>1. Walked(g, v) = v
      BY <2>1 DEF Walked
    <3> QED
      BY <1>4, <3>1
  <2>2. CASE v.queue # <<>>
    <3> DEFINE c == Head(v.queue)
               u == Walked(g, v)
    <3>1. PICK V : /\ Frontier(p, V, v.queue)
                   /\ v.specs \in Seq(Shapes) /\ IsInjective(v.specs)
                   /\ Range(v.specs) \subseteq V
                   /\ \A d \in Range(v.specs) : form[d] # "plain"
      BY <1>4
    <3>2. /\ c \in Shapes /\ c \notin V /\ Frontier(p, V \cup {c}, Tail(v.queue))
          /\ form[c] = "plain" => Frontier(p, V \cup {c}, Tail(v.queue) \o Kids(p, c))
      BY <2>2, <3>1, FrontierStep
    <3>3. /\ u.queue = Tail(v.queue) \o IF form[c] = "plain" THEN g.kids[c] ELSE <<>>
          /\ u.specs = IF IsDiagram(g, c) THEN Append(v.specs, c) ELSE v.specs
      BY <2>2 DEF Walked
    <3>4. g.kids[c] = Kids(p, c)
      BY <1>1, <3>2
    <3>5. Tail(v.queue) \o <<>> = Tail(v.queue)
      <4>1. Tail(v.queue) \in Seq(Shapes)
        BY <3>2 DEF Frontier
      <4> QED
        BY <4>1, ConcatEmptySeq
    <3>6. Frontier(p, V \cup {c}, u.queue)
      <4>1. CASE form[c] = "plain"
        <5>1. u.queue = Tail(v.queue) \o Kids(p, c)
          BY <3>3, <3>4, <4>1
        <5> QED
          BY <3>2, <4>1, <5>1
      <4>2. CASE form[c] # "plain"
        <5>1. u.queue = Tail(v.queue)
          BY <3>3, <3>5, <4>2
        <5> QED
          BY <3>2, <5>1
      <4> QED
        BY <4>1, <4>2
    <3>7. /\ u.specs \in Seq(Shapes) /\ IsInjective(u.specs)
          /\ Range(u.specs) \subseteq V \cup {c}
          /\ \A d \in Range(u.specs) : form[d] # "plain"
      <4>1. CASE IsDiagram(g, c)
        <5>1. u.specs = Append(v.specs, c) /\ c \notin Range(v.specs)
          BY <3>1, <3>2, <3>3, <4>1
        <5>2. /\ Append(v.specs, c) \in Seq(Shapes) /\ IsInjective(Append(v.specs, c))
              /\ Range(Append(v.specs, c)) = Range(v.specs) \cup {c}
          BY <3>1, <3>2, <5>1, AppendProperties, RangeGrows, DistinctFacts
        <5>3. form[c] # "plain"
          BY <4>1 DEF IsDiagram
        <5> HIDE DEF u, c
        <5> QED
          BY <3>1, <5>1, <5>2, <5>3
      <4>2. CASE ~IsDiagram(g, c)
        <5>1. u.specs = v.specs
          BY <3>3, <4>2
        <5> HIDE DEF u, c
        <5> QED
          BY <3>1, <5>1
      <4> QED
        BY <4>1, <4>2
    <3> HIDE DEF u, c
    <3>8. Found(u)
      BY <3>6, <3>7
    <3> QED
      BY <3>8 DEF u
  <2> QED
    BY <2>1, <2>2
<1>5. Found(w[NObjects])
  <2> DEFINE N == {i \in Nat : i <= NObjects => Found(w[i])}
  <2> HIDE DEF Found
  <2>1. 0 \in N
    BY <1>3
  <2>2. ASSUME NEW i \in Nat, i \in N PROVE i + 1 \in N
    <3> SUFFICES ASSUME i + 1 <= NObjects PROVE Found(w[i + 1])
      OBVIOUS
    <3>1. i + 1 \in 1..NObjects /\ (i + 1) - 1 = i /\ Found(w[i]) /\ w[i] \in Walks
      BY <2>2
    <3>2. w[i + 1] = Walked(g, w[i])
      BY <1>2, <3>1
    <3> QED
      BY <1>4, <3>1, <3>2
  <2> HIDE DEF N
  <2>3. Nat \subseteq N
    BY <2>1, <2>2, AllNaturals
  <2> QED
    BY <2>3 DEF N
<1>6. PICK V : /\ Frontier(p, V, w[NObjects].queue)
               /\ Specs(g) \in Seq(Shapes) /\ IsInjective(Specs(g)) /\ Range(Specs(g)) \subseteq V
               /\ \A c \in Range(Specs(g)) : form[c] # "plain"
  BY <1>2, <1>5
<1>7. V \in SUBSET Shapes /\ \A o \in V : p[o] = Root \/ (p[o] \in V /\ form[p[o]] = "plain")
  BY <1>6 DEF Frontier
<1> QED
  BY <1>6, <1>7 DEF Topmost, g

-----------------------------------------------------------------------------
(* Descendants                                                             *)

\* With an object S has its parent, unless that is a root.
Up(f, S) == \A x \in S : f[x] \in S \cup Roots

LEMMA BelowIs ==
    ASSUME NEW g, NEW o, NEW c
    PROVE  Below(g, o, c) <=> /\ o \in Shapes
                              /\ \A S \in SUBSET Shapes : o \in S /\ Up(g.parent, S) => c \in S
BY DEF Below, Up

LEMMA BelowFacts ==
    ASSUME NObjects \in Nat, NEW g \in Graphs, NEW c \in Shapes
    PROVE  /\ Below(g, c, c)
           /\ \A o \in Shapes : Below(g, o, c) /\ o # c => Below(g, g.parent[o], c)
           /\ \A o \in Shapes : Below(g, g.parent[o], c) => Below(g, o, c)
<1> DEFINE f == g.parent
<1>1. \A x \in Shapes : f[x] \in Shapes \cup Roots
  BY GraphFields DEF Places
<1>2. \A o : Below(g, o, c) <=> /\ o \in Shapes
                                /\ \A S \in SUBSET Shapes : o \in S /\ Up(f, S) => c \in S
  BY BelowIs
<1> HIDE DEF f
<1>3. Below(g, c, c)
  BY <1>2
<1>4. ASSUME NEW o \in Shapes, Below(g, o, c), o # c PROVE Below(g, f[o], c)
  <2>1. f[o] \notin Roots
    <3>1. f[o] \in Roots => Up(f, {o})
      BY DEF Up
    <3>2. {o} \in SUBSET Shapes /\ o \in {o}
      OBVIOUS
    <3>3. f[o] \in Roots => c \in {o}
      BY <1>2, <1>4, <3>1, <3>2
    <3> QED
      BY <1>4, <3>3
  <2>2. f[o] \in Shapes
    BY <1>1, <2>1
  <2>3. ASSUME NEW S \in SUBSET Shapes, f[o] \in S, Up(f, S) PROVE c \in S
    <3>1. Up(f, S \cup {o}) /\ S \cup {o} \in SUBSET Shapes /\ o \in S \cup {o}
      BY <2>3 DEF Up
    <3>2. c \in S \cup {o}
      BY <1>2, <1>4, <3>1
    <3> QED
      BY <1>4, <3>2
  <2> QED
    BY <1>2, <2>2, <2>3
<1>5. ASSUME NEW o \in Shapes, Below(g, f[o], c) PROVE Below(g, o, c)
  <2>1. f[o] \in Shapes /\ f[o] \notin Roots
    BY <1>2, <1>5, PlaceFacts
  <2>2. ASSUME NEW S \in SUBSET Shapes, o \in S, Up(f, S) PROVE c \in S
    <3>1. f[o] \in S
      BY <2>1, <2>2 DEF Up
    <3> QED
      BY <1>2, <1>5, <2>2, <3>1
  <2> QED
    BY <1>2, <2>2
<1> QED
  BY <1>3, <1>4, <1>5 DEF f

\* A set of objects of a tree that has the parent of each object has none.
LEMMA NoAscent ==
    ASSUME NObjects \in Nat,
           NEW p \in Trees, NEW S \in SUBSET Shapes, \A x \in S : p[x] \in S
    PROVE  S = {}
<1> SUFFICES ASSUME S # {} PROVE FALSE
  OBVIOUS
<1>1. S \subseteq Nat
  BY DEF Shapes
<1>2. PICK n \in S : \A m \in S : n <= m
  BY <1>1, LeastNatural
<1>3. p[n] \in S /\ p[n] < n
  BY TreeFacts
<1>4. n <= p[n]
  BY <1>2, <1>3
<1>5. n \in Nat /\ p[n] \in Nat
  BY <1>1, <1>3
<1> DEFINE m == p[n]
<1> HIDE DEF m
<1>6. m \in Nat /\ m < n /\ n <= m
  BY <1>3, <1>4, <1>5 DEF m
<1> QED
  BY <1>5, <1>6

LEMMA TreeBelow ==
    ASSUME NObjects \in Nat, NEW p \in Trees
    PROVE  /\ \A c \in Shapes : ~Below(GraphOf(p), p[c], c)
           /\ \A c, d, o \in Shapes :
                Below(GraphOf(p), o, c) /\ Below(GraphOf(p), o, d)
                => Below(GraphOf(p), c, d) \/ Below(GraphOf(p), d, c)
<1> DEFINE g == GraphOf(p)
<1>1. g \in Graphs /\ g.parent = p
  BY GraphOfTree
<1> HIDE DEF g
<1>2. ASSUME NEW c \in Shapes, Below(g, p[c], c) PROVE FALSE
  <2> DEFINE T == {x \in Shapes : Below(g, x, c)}
  <2>1. ASSUME NEW x \in T PROVE p[x] \in T
    <3>1. Below(g, p[x], c)
      BY <1>1, <1>2, BelowFacts
    <3>2. p[x] \in Shapes
      BY <3>1, BelowIs
    <3> QED
      BY <3>1, <3>2
  <2>2. c \in T
    BY <1>1, BelowFacts
  <2> HIDE DEF T
  <2>3. T \in SUBSET Shapes
    BY DEF T
  <2> QED
    BY <2>1, <2>2, <2>3, NoAscent
<1>3. ASSUME NEW c \in Shapes, NEW d \in Shapes, NEW o \in Shapes,
             Below(g, o, c), Below(g, o, d), ~Below(g, c, d), ~Below(g, d, c)
      PROVE  FALSE
  <2> DEFINE T == {x \in Shapes : Below(g, x, c) /\ Below(g, x, d)}
  <2>1. ASSUME NEW x \in T PROVE p[x] \in T
    <3>1. x # c /\ x # d
      BY <1>3
    <3>2. Below(g, p[x], c) /\ Below(g, p[x], d)
      BY <1>1, <3>1, BelowFacts
    <3>3. p[x] \in Shapes
      BY <3>2, BelowIs
    <3> QED
      BY <3>2, <3>3
  <2>2. o \in T
    BY <1>3
  <2> HIDE DEF T
  <2>3. T \in SUBSET Shapes
    BY DEF T
  <2> QED
    BY <2>1, <2>2, <2>3, NoAscent
<1> QED
  BY <1>2, <1>3 DEF g

\* No diagram that was found is below another.
LEMMA TopmostApart ==
    ASSUME NObjects \in Nat,
           NEW p \in Trees, NEW q, Topmost(p, q), NEW c \in Range(q), NEW d \in Range(q), c # d
    PROVE  ~Below(GraphOf(p), d, c)
<1>1. PICK V \in SUBSET Shapes :
         /\ Range(q) \subseteq V
         /\ \A o \in V : p[o] = Root \/ (p[o] \in V /\ form[p[o]] = "plain")
  BY DEF Topmost
<1> DEFINE S == {x \in V : form[x] = "plain"} \cup {d}
<1>2. S \in SUBSET Shapes /\ d \in S
  BY <1>1
<1>3. Up(p, S)
  BY <1>1, PlaceFacts DEF Up
<1>4. c \notin S
  BY DEF Topmost
<1>5. GraphOf(p).parent = p
  BY GraphOfTree
<1> HIDE DEF S
<1> QED
  BY <1>2, <1>3, <1>4, <1>5, BelowIs

\* What is in c, with c itself or without.
Within(p, c) == {o \in Shapes : Below(GraphOf(p), o, c)}
Content(p, c, self) == IF self THEN Within(p, c) ELSE Within(p, c) \ {c}

\* What is below c stays so when others, of which none is in c, are cut out.
LEMMA BelowPartly ==
    ASSUME NObjects \in Nat,
           NEW p \in Trees, NEW A, NEW B, Separate(p, A, B), NEW g \in Graphs,
           Hangs(g, p, A, B), NEW c \in Shapes,
           \A b \in B : ~Below(GraphOf(p), b, c)
    PROVE  \A self \in BOOLEAN : Members(g, c, self) = Content(p, c, self)
<1> DEFINE G == GraphOf(p)
           T == Within(p, c)
           f == g.parent
<1>1. G \in Graphs /\ G.parent = p
  BY GraphOfTree
<1>2. T \subseteq Shapes /\ c \in T /\ \A o : o \in T <=> Below(G, o, c)
  <2>1. \A o : Below(G, o, c) => o \in Shapes
    BY BelowIs
  <2> QED
    BY <1>1, <2>1, BelowFacts DEF Within
<1>3. \A o \in Shapes : o \in T \ {c} <=> p[o] \in T
  BY <1>1, <1>2, BelowFacts, TreeBelow
<1>4. \A o \in Shapes : f[o] = IF o \in A THEN RootOf(o)
                               ELSE IF p[o] \in B THEN RootOf(p[o]) ELSE p[o]
  BY DEF Hangs
<1>5. A \subseteq Shapes /\ \A o \in A : p[o] = Root
  BY DEF Separate, Tops
<1>6. \A b \in B : b \in Shapes /\ b \notin T
  BY <1>2 DEF Separate
<1> HIDE DEF G, T, f
<1>7. \A o \in Shapes : p[o] \in T => f[o] = p[o]
  BY <1>2, <1>4, <1>5, <1>6, PlaceFacts
<1>8. \A o \in Shapes : f[o] = p[o] \/ f[o] \in Roots
  BY <1>4, <1>6, PlaceFacts
<1>9. ASSUME NEW o \in Shapes PROVE Below(g, o, c) <=> o \in T
  <2>1. Below(g, o, c) <=> \A S \in SUBSET Shapes : o \in S /\ Up(f, S) => c \in S
    BY BelowIs DEF f
  <2>2. o \in T <=> \A S \in SUBSET Shapes : o \in S /\ Up(p, S) => c \in S
    BY <1>1, <1>2, BelowIs
  <2>3. ASSUME Below(g, o, c) PROVE o \in T
    <3>1. \A S \in SUBSET Shapes : Up(p, S) => Up(f, S)
      BY <1>8 DEF Up
    <3> QED
      BY <2>1, <2>2, <2>3, <3>1
  <2>4. ASSUME o \in T, NEW S \in SUBSET Shapes, o \in S, Up(f, S), c \notin S PROVE FALSE
    <3> DEFINE R == S \cup (Shapes \ T)
    <3>1. ASSUME NEW x \in R PROVE p[x] \in R \cup Roots
      <4>1. x \in Shapes /\ p[x] \in Shapes \cup Roots
        BY TreeFacts DEF Places
      <4>2. CASE x \in T
        <5>1. x \in S /\ x # c
          BY <2>4, <4>2
        <5>2. f[x] = p[x] /\ p[x] \in T
          BY <1>3, <1>7, <4>1, <4>2, <5>1
        <5> QED
          BY <2>4, <5>1, <5>2 DEF Up
      <4>3. CASE x \notin T
        <5>1. p[x] \notin T
          BY <1>3, <4>1, <4>3
        <5> QED
          BY <4>1, <5>1
      <4> QED
        BY <4>2, <4>3
    <3>2. Up(p, R) /\ R \in SUBSET Shapes /\ o \in R
      BY <2>4, <3>1 DEF Up
    <3> HIDE DEF R
    <3>3. c \in R
      BY <2>2, <2>4, <3>2
    <3> QED
      BY <1>2, <2>4, <3>3 DEF R
  <2> QED
    BY <2>1, <2>3, <2>4
<1>10. Members(g, c, TRUE) = Content(p, c, TRUE)
  BY <1>2, <1>9 DEF Members, Content, T
<1>11. Members(g, c, FALSE) = Content(p, c, FALSE)
  <2>1. ASSUME NEW o \in Shapes PROVE Below(g, f[o], c) <=> o \in T \ {c}
    <3>1. ASSUME Below(g, f[o], c) PROVE o \in T \ {c}
      <4>1. f[o] \in Shapes
        BY <3>1, BelowIs
      <4>2. f[o] = p[o] /\ f[o] \in T
        BY <1>8, <1>9, <3>1, <4>1, PlaceFacts
      <4> QED
        BY <1>3, <4>2
    <3>2. ASSUME o \in T \ {c} PROVE Below(g, f[o], c)
      <4>1. p[o] \in T /\ f[o] = p[o]
        BY <1>3, <1>7, <3>2
      <4> QED
        BY <1>2, <1>9, <4>1
    <3> QED
      BY <3>1, <3>2
  <2> QED
    BY <1>2, <2>1 DEF Members, Content, f, T
<1> QED
  BY <1>10, <1>11

-----------------------------------------------------------------------------
(* Cutting out and putting back one after the other                        *)

UprootAll(g, q) == FoldLeft(Uproot, g, q)
CutAll(g, q) == FoldLeft(CutOut, g, q)
RestoreAll(g, q) == FoldLeft(Restore, g, q)
PutAllBack(g, q) == FoldLeft(PutBack, g, q)

\* The folds of the library go from a set of indices to the set without its greatest.
Iterated(it, q, g, h) ==
    \A s \in SUBSET (1..Len(q)) :
        it[s] = IF s = {} THEN g ELSE h[<<it[s \ {Greatest(s)}], q[Greatest(s)]>>]

LEMMA IteratedExists ==
    ASSUME NEW g \in Graphs, NEW q \in Seq(Shapes), NEW h \in [Graphs \X Shapes -> Graphs]
    PROVE  \E it \in [SUBSET (1..Len(q)) -> Graphs] : Iterated(it, q, g, h)
<1> DEFINE S == 1..Len(q)
           pick == [s \in SUBSET S |-> Greatest(s)]
           k == [x \in S \X Graphs |-> h[<<x[2], q[x[1]]>>]]
<1>1. Len(q) \in Nat /\ \A i \in S : q[i] \in Shapes
  OBVIOUS
<1>2. \A s \in SUBSET S : s # {} => Greatest(s) \in s
  BY <1>1, GreatestPicks
<1>3. k \in [S \X Graphs -> Graphs]
  BY <1>1
<1>4. Picks(pick, S)
  BY <1>2 DEF Picks
<1>5. IsFiniteSet(S)
  BY <1>1, FS_Interval
<1> HIDE DEF k, pick, S
<1>6. PICK it \in [SUBSET S -> Graphs] : Folded(it, S, g, k, pick)
  BY <1>3, <1>4, <1>5, FoldsExist
<1>7. ASSUME NEW s \in SUBSET S, s # {}
      PROVE  it[s] = h[<<it[s \ {Greatest(s)}], q[Greatest(s)]>>]
  <2>1. pick[s] = Greatest(s) /\ pick[s] \in S
    BY <1>2, <1>7 DEF pick
  <2>2. it[s] = k[<<pick[s], it[s \ {pick[s]}]>>]
    BY <1>6, <1>7 DEF Folded
  <2>3. it[s \ {pick[s]}] \in Graphs
    BY <1>6
  <2>4. k[<<pick[s], it[s \ {pick[s]}]>>] = h[<<it[s \ {pick[s]}], q[pick[s]]>>]
    BY <2>1, <2>3 DEF k
  <2> QED
    BY <2>1, <2>2, <2>4
<1>8. it[{}] = g
  BY <1>6 DEF Folded
<1> QED
  BY <1>6, <1>7, <1>8 DEF Iterated, S

\* The values at the sets of the first indices.
Prefixed(v, n, it) ==
    /\ v = [i \in 0..n |-> v[i]]
    /\ v[0] = it[{}] /\ v[n] = it[1..n]
    /\ \A i \in 1..n : /\ 1..i \in SUBSET (1..n) /\ 1..i # {}
                       /\ Greatest(1..i) = i
                       /\ v[i] = it[1..i]
                       /\ v[i - 1] = it[(1..i) \ {Greatest(1..i)}]

LEMMA PrefixValues ==
    ASSUME NEW n \in Nat, NEW it
    PROVE  \E v : Prefixed(v, n, it)
<1> DEFINE w == [i \in 0..n |-> it[1..i]]
<1>1. w = [i \in 0..n |-> w[i]]
  OBVIOUS
<1>2. w[0] = it[{}] /\ w[n] = it[1..n]
  <2>1. 1..0 = {} /\ 0 \in 0..n /\ n \in 0..n
    OBVIOUS
  <2> QED
    BY <2>1
<1>3. ASSUME NEW i \in 1..n
      PROVE  /\ 1..i \in SUBSET (1..n) /\ 1..i # {}
             /\ Greatest(1..i) = i
             /\ w[i] = it[1..i]
             /\ w[i - 1] = it[(1..i) \ {Greatest(1..i)}]
  <2>1. i \in Nat /\ i > 0 /\ i \in 0..n /\ i - 1 \in 0..n /\ i \in 1..i /\ i <= n
    OBVIOUS
  <2>2. Greatest(1..i) = i /\ (1..i) \ {i} = 1..(i - 1)
    BY <2>1, GreatestPicks
  <2>3. \A j \in 1..i : j \in 1..n
    BY <2>1
  <2> QED
    BY <2>1, <2>2, <2>3
<1> HIDE DEF w
<1>4. Prefixed(w, n, it)
  BY <1>1, <1>2, <1>3 DEF Prefixed
<1> QED
  BY <1>4

LEMMA AllStay ==
    ASSUME NEW n \in Nat, NEW v, v = [i \in 0..n |-> v[i]], NEW D, v[0] \in D,
           \A i \in 1..n : v[i - 1] \in D => v[i] \in D
    PROVE  v \in [0..n -> D]
<1> DEFINE N == {i \in Nat : i <= n => v[i] \in D}
<1>1. 0 \in N
  OBVIOUS
<1>2. ASSUME NEW i \in Nat, i \in N PROVE i + 1 \in N
  <2> SUFFICES ASSUME i + 1 <= n PROVE v[i + 1] \in D
    OBVIOUS
  <2>1. i + 1 \in 1..n /\ (i + 1) - 1 = i /\ i <= n
    OBVIOUS
  <2> QED
    BY <1>2, <2>1
<1>3. Nat \subseteq N
  <2> HIDE DEF N
  <2> QED
    BY <1>1, <1>2, AllNaturals
<1>4. \A i \in 0..n : v[i] \in D
  BY <1>3
<1> QED
  BY <1>4

LEMMA StepTypes ==
    ASSUME NObjects \in Nat, NEW g \in Graphs, NEW c \in Shapes
    PROVE  /\ IncludeSelf(c) \in BOOLEAN
           /\ Uproot(g, c) \in Graphs /\ CutOut(g, c) \in Graphs
           /\ Restore(g, c) \in Graphs /\ PutBack(g, c) \in Graphs
<1>1. IncludeSelf(c) \in BOOLEAN
  BY DEF IncludeSelf
<1>2. Uproot(g, c) \in Graphs
  BY <1>1, ReparentIs DEF Uproot, Reparented
<1>3. CutOut(g, c) \in Graphs
  BY <1>1, ExtractIs DEF CutOut, Extracted
<1>4. Restore(g, c) \in Graphs
  <2> DEFINE into == IF IncludeSelf(c) THEN Root ELSE c
  <2>1. into \in Shapes \cup {Root}
    OBVIOUS
  <2> HIDE DEF into
  <2>2. Inject(g, into, c) \in Graphs
    BY <2>1, InjectIs DEF Injected
  <2> QED
    BY <2>2 DEF Restore, into
<1>5. PutBack(g, c) \in Graphs
  <2>1. g.sub[c].external \in Seq(Listed)
    BY GraphFields
  <2> QED
    BY <1>4, <2>1, WithEdgesIs DEF PutBack, Joins
<1> QED
  BY <1>1, <1>2, <1>3, <1>4, <1>5

\* What Uproot makes of g for one object after the other.
Uproots(v, g, q) ==
    /\ v \in [0..Len(q) -> Graphs] /\ v[0] = g
    /\ \A i \in 1..Len(q) : v[i] = Uproot(v[i - 1], q[i])

LEMMA UprootChain ==
    ASSUME NObjects \in Nat, NEW g \in Graphs, NEW q \in Seq(Shapes)
    PROVE  \E v : Uproots(v, g, q) /\ UprootAll(g, q) = v[Len(q)]
<1> DEFINE n == Len(q)
           h == [x \in Graphs \X Shapes |-> Uproot(x[1], x[2])]
           Iter(it) == it = [s \in SUBSET (1..n) |->
                               IF s = {} THEN g ELSE Uproot(it[s \ {Greatest(s)}], q[Greatest(s)])]
           it == CHOOSE f : Iter(f)
<1>1. n \in Nat /\ DOMAIN q = 1..n /\ \A i \in 1..n : q[i] \in Shapes
  OBVIOUS
<1>2. UprootAll(g, q) = it[1..n]
  BY <1>1 DEF UprootAll, FoldLeft, MapThenFoldSet, Max, Greatest
<1>3. \A f \in Graphs, c \in Shapes : Uproot(f, c) \in Graphs
  BY StepTypes
<1>4. Iter(it)
  <2>1. h \in [Graphs \X Shapes -> Graphs]
    BY <1>3
  <2> HIDE DEF h
  <2>2. PICK f \in [SUBSET (1..n) -> Graphs] : Iterated(f, q, g, h)
    BY <2>1, IteratedExists
  <2>3. ASSUME NEW s \in SUBSET (1..n), s # {}
        PROVE  f[s] = Uproot(f[s \ {Greatest(s)}], q[Greatest(s)])
    <3>1. Greatest(s) \in 1..n
      BY <1>1, <2>3, GreatestPicks
    <3>2. f[s] = h[<<f[s \ {Greatest(s)}], q[Greatest(s)]>>]
      BY <2>2, <2>3 DEF Iterated
    <3>3. f[s \ {Greatest(s)}] \in Graphs /\ q[Greatest(s)] \in Shapes
      BY <1>1, <3>1
    <3> QED
      BY <3>2, <3>3 DEF h
  <2>4. f[{}] = g
    BY <2>2 DEF Iterated
  <2>5. Iter(f)
    BY <2>3, <2>4
  <2> HIDE DEF Iter
  <2> QED
    BY <2>5
<1> HIDE DEF it
<1>5. PICK v : Prefixed(v, n, it)
  BY <1>1, PrefixValues
<1>6. v[0] = g
  BY <1>4, <1>5 DEF Prefixed
<1>7. ASSUME NEW i \in 1..n PROVE v[i] = Uproot(v[i - 1], q[i])
  <2>1. it[1..i] = Uproot(it[(1..i) \ {Greatest(1..i)}], q[Greatest(1..i)])
    BY <1>4, <1>5 DEF Prefixed
  <2> QED
    BY <1>5, <2>1 DEF Prefixed
<1>8. v \in [0..n -> Graphs]
  <2>1. \A i \in 1..n : v[i - 1] \in Graphs => v[i] \in Graphs
    BY <1>1, <1>3, <1>7
  <2> QED
    BY <1>1, <1>5, <1>6, <2>1, AllStay DEF Prefixed
<1>9. Uproots(v, g, q)
  BY <1>6, <1>7, <1>8 DEF Uproots
<1> QED
  BY <1>2, <1>5, <1>9 DEF Prefixed

\* What CutOut makes of g for one object after the other.
CutsOut(v, g, q) ==
    /\ v \in [0..Len(q) -> Graphs] /\ v[0] = g
    /\ \A i \in 1..Len(q) : v[i] = CutOut(v[i - 1], q[i])

LEMMA CutOutChain ==
    ASSUME NObjects \in Nat, NEW g \in Graphs, NEW q \in Seq(Shapes)
    PROVE  \E v : CutsOut(v, g, q) /\ CutAll(g, q) = v[Len(q)]
<1> DEFINE n == Len(q)
           h == [x \in Graphs \X Shapes |-> CutOut(x[1], x[2])]
           Iter(it) == it = [s \in SUBSET (1..n) |->
                               IF s = {} THEN g ELSE CutOut(it[s \ {Greatest(s)}], q[Greatest(s)])]
           it == CHOOSE f : Iter(f)
<1>1. n \in Nat /\ DOMAIN q = 1..n /\ \A i \in 1..n : q[i] \in Shapes
  OBVIOUS
<1>2. CutAll(g, q) = it[1..n]
  BY <1>1 DEF CutAll, FoldLeft, MapThenFoldSet, Max, Greatest
<1>3. \A f \in Graphs, c \in Shapes : CutOut(f, c) \in Graphs
  BY StepTypes
<1>4. Iter(it)
  <2>1. h \in [Graphs \X Shapes -> Graphs]
    BY <1>3
  <2> HIDE DEF h
  <2>2. PICK f \in [SUBSET (1..n) -> Graphs] : Iterated(f, q, g, h)
    BY <2>1, IteratedExists
  <2>3. ASSUME NEW s \in SUBSET (1..n), s # {}
        PROVE  f[s] = CutOut(f[s \ {Greatest(s)}], q[Greatest(s)])
    <3>1. Greatest(s) \in 1..n
      BY <1>1, <2>3, GreatestPicks
    <3>2. f[s] = h[<<f[s \ {Greatest(s)}], q[Greatest(s)]>>]
      BY <2>2, <2>3 DEF Iterated
    <3>3. f[s \ {Greatest(s)}] \in Graphs /\ q[Greatest(s)] \in Shapes
      BY <1>1, <3>1
    <3> QED
      BY <3>2, <3>3 DEF h
  <2>4. f[{}] = g
    BY <2>2 DEF Iterated
  <2>5. Iter(f)
    BY <2>3, <2>4
  <2> HIDE DEF Iter
  <2> QED
    BY <2>5
<1> HIDE DEF it
<1>5. PICK v : Prefixed(v, n, it)
  BY <1>1, PrefixValues
<1>6. v[0] = g
  BY <1>4, <1>5 DEF Prefixed
<1>7. ASSUME NEW i \in 1..n PROVE v[i] = CutOut(v[i - 1], q[i])
  <2>1. it[1..i] = CutOut(it[(1..i) \ {Greatest(1..i)}], q[Greatest(1..i)])
    BY <1>4, <1>5 DEF Prefixed
  <2> QED
    BY <1>5, <2>1 DEF Prefixed
<1>8. v \in [0..n -> Graphs]
  <2>1. \A i \in 1..n : v[i - 1] \in Graphs => v[i] \in Graphs
    BY <1>1, <1>3, <1>7
  <2> QED
    BY <1>1, <1>5, <1>6, <2>1, AllStay DEF Prefixed
<1>9. CutsOut(v, g, q)
  BY <1>6, <1>7, <1>8 DEF CutsOut
<1> QED
  BY <1>2, <1>5, <1>9 DEF Prefixed

\* What Restore makes of g for one object after the other.
Restores(v, g, q) ==
    /\ v \in [0..Len(q) -> Graphs] /\ v[0] = g
    /\ \A i \in 1..Len(q) : v[i] = Restore(v[i - 1], q[i])

LEMMA RestoreChain ==
    ASSUME NObjects \in Nat, NEW g \in Graphs, NEW q \in Seq(Shapes)
    PROVE  \E v : Restores(v, g, q) /\ RestoreAll(g, q) = v[Len(q)]
<1> DEFINE n == Len(q)
           h == [x \in Graphs \X Shapes |-> Restore(x[1], x[2])]
           Iter(it) == it = [s \in SUBSET (1..n) |->
                               IF s = {} THEN g ELSE Restore(it[s \ {Greatest(s)}], q[Greatest(s)])]
           it == CHOOSE f : Iter(f)
<1>1. n \in Nat /\ DOMAIN q = 1..n /\ \A i \in 1..n : q[i] \in Shapes
  OBVIOUS
<1>2. RestoreAll(g, q) = it[1..n]
  BY <1>1 DEF RestoreAll, FoldLeft, MapThenFoldSet, Max, Greatest
<1>3. \A f \in Graphs, c \in Shapes : Restore(f, c) \in Graphs
  BY StepTypes
<1>4. Iter(it)
  <2>1. h \in [Graphs \X Shapes -> Graphs]
    BY <1>3
  <2> HIDE DEF h
  <2>2. PICK f \in [SUBSET (1..n) -> Graphs] : Iterated(f, q, g, h)
    BY <2>1, IteratedExists
  <2>3. ASSUME NEW s \in SUBSET (1..n), s # {}
        PROVE  f[s] = Restore(f[s \ {Greatest(s)}], q[Greatest(s)])
    <3>1. Greatest(s) \in 1..n
      BY <1>1, <2>3, GreatestPicks
    <3>2. f[s] = h[<<f[s \ {Greatest(s)}], q[Greatest(s)]>>]
      BY <2>2, <2>3 DEF Iterated
    <3>3. f[s \ {Greatest(s)}] \in Graphs /\ q[Greatest(s)] \in Shapes
      BY <1>1, <3>1
    <3> QED
      BY <3>2, <3>3 DEF h
  <2>4. f[{}] = g
    BY <2>2 DEF Iterated
  <2>5. Iter(f)
    BY <2>3, <2>4
  <2> HIDE DEF Iter
  <2> QED
    BY <2>5
<1> HIDE DEF it
<1>5. PICK v : Prefixed(v, n, it)
  BY <1>1, PrefixValues
<1>6. v[0] = g
  BY <1>4, <1>5 DEF Prefixed
<1>7. ASSUME NEW i \in 1..n PROVE v[i] = Restore(v[i - 1], q[i])
  <2>1. it[1..i] = Restore(it[(1..i) \ {Greatest(1..i)}], q[Greatest(1..i)])
    BY <1>4, <1>5 DEF Prefixed
  <2> QED
    BY <1>5, <2>1 DEF Prefixed
<1>8. v \in [0..n -> Graphs]
  <2>1. \A i \in 1..n : v[i - 1] \in Graphs => v[i] \in Graphs
    BY <1>1, <1>3, <1>7
  <2> QED
    BY <1>1, <1>5, <1>6, <2>1, AllStay DEF Prefixed
<1>9. Restores(v, g, q)
  BY <1>6, <1>7, <1>8 DEF Restores
<1> QED
  BY <1>2, <1>5, <1>9 DEF Prefixed

\* What PutBack makes of g for one object after the other.
PutsBack(v, g, q) ==
    /\ v \in [0..Len(q) -> Graphs] /\ v[0] = g
    /\ \A i \in 1..Len(q) : v[i] = PutBack(v[i - 1], q[i])

LEMMA PutBackChain ==
    ASSUME NObjects \in Nat, NEW g \in Graphs, NEW q \in Seq(Shapes)
    PROVE  \E v : PutsBack(v, g, q) /\ PutAllBack(g, q) = v[Len(q)]
<1> DEFINE n == Len(q)
           h == [x \in Graphs \X Shapes |-> PutBack(x[1], x[2])]
           Iter(it) == it = [s \in SUBSET (1..n) |->
                               IF s = {} THEN g ELSE PutBack(it[s \ {Greatest(s)}], q[Greatest(s)])]
           it == CHOOSE f : Iter(f)
<1>1. n \in Nat /\ DOMAIN q = 1..n /\ \A i \in 1..n : q[i] \in Shapes
  OBVIOUS
<1>2. PutAllBack(g, q) = it[1..n]
  BY <1>1 DEF PutAllBack, FoldLeft, MapThenFoldSet, Max, Greatest
<1>3. \A f \in Graphs, c \in Shapes : PutBack(f, c) \in Graphs
  BY StepTypes
<1>4. Iter(it)
  <2>1. h \in [Graphs \X Shapes -> Graphs]
    BY <1>3
  <2> HIDE DEF h
  <2>2. PICK f \in [SUBSET (1..n) -> Graphs] : Iterated(f, q, g, h)
    BY <2>1, IteratedExists
  <2>3. ASSUME NEW s \in SUBSET (1..n), s # {}
        PROVE  f[s] = PutBack(f[s \ {Greatest(s)}], q[Greatest(s)])
    <3>1. Greatest(s) \in 1..n
      BY <1>1, <2>3, GreatestPicks
    <3>2. f[s] = h[<<f[s \ {Greatest(s)}], q[Greatest(s)]>>]
      BY <2>2, <2>3 DEF Iterated
    <3>3. f[s \ {Greatest(s)}] \in Graphs /\ q[Greatest(s)] \in Shapes
      BY <1>1, <3>1
    <3> QED
      BY <3>2, <3>3 DEF h
  <2>4. f[{}] = g
    BY <2>2 DEF Iterated
  <2>5. Iter(f)
    BY <2>3, <2>4
  <2> HIDE DEF Iter
  <2> QED
    BY <2>5
<1> HIDE DEF it
<1>5. PICK v : Prefixed(v, n, it)
  BY <1>1, PrefixValues
<1>6. v[0] = g
  BY <1>4, <1>5 DEF Prefixed
<1>7. ASSUME NEW i \in 1..n PROVE v[i] = PutBack(v[i - 1], q[i])
  <2>1. it[1..i] = PutBack(it[(1..i) \ {Greatest(1..i)}], q[Greatest(1..i)])
    BY <1>4, <1>5 DEF Prefixed
  <2> QED
    BY <1>5, <2>1 DEF Prefixed
<1>8. v \in [0..n -> Graphs]
  <2>1. \A i \in 1..n : v[i - 1] \in Graphs => v[i] \in Graphs
    BY <1>1, <1>3, <1>7
  <2> QED
    BY <1>1, <1>5, <1>6, <2>1, AllStay DEF Prefixed
<1>9. PutsBack(v, g, q)
  BY <1>6, <1>7, <1>8 DEF PutsBack
<1> QED
  BY <1>2, <1>5, <1>9 DEF Prefixed

\* An object is cut out with itself, or its contents are.
LEMMA ExtractHangs ==
    ASSUME NObjects \in Nat,
           NEW p \in Trees, NEW A, NEW B, Separate(p, A, B), NEW g \in Graphs,
           Hangs(g, p, A, B), NEW c \in Shapes, c \notin A, c \notin B
    PROVE  /\ Hangs(Extract(g, c, FALSE), p, A, B \cup {c}) /\ Separate(p, A, B \cup {c})
           /\ p[c] = Root => /\ Hangs(Extract(g, c, TRUE), p, A \cup {c}, B)
                             /\ Separate(p, A \cup {c}, B)
<1>1. ASSUME NEW self \in BOOLEAN, NEW S, NEW T, Hangs(Reparent(g, c, self), p, S, T)
      PROVE  Hangs(Extract(g, c, self), p, S, T)
  <2>1. /\ Extract(g, c, self).parent = Reparent(g, c, self).parent
        /\ Extract(g, c, self).kids = Reparent(g, c, self).kids
    BY ExtractIs DEF Extracted
  <2> QED
    BY <1>1, <2>1, HangsSame
<1>2. Hangs(Extract(g, c, FALSE), p, A, B \cup {c}) /\ Separate(p, A, B \cup {c})
  BY <1>1, ReparentContent
<1>3. ASSUME p[c] = Root
      PROVE  Hangs(Extract(g, c, TRUE), p, A \cup {c}, B) /\ Separate(p, A \cup {c}, B)
  <2>1. c \in Tops(p)
    BY <1>3 DEF Tops
  <2> QED
    BY <1>1, <2>1, ReparentSelf
<1> QED
  BY <1>2, <1>3

-----------------------------------------------------------------------------
(* What the diagrams hold                                                  *)

\* What is cut out with the i-th of the diagrams q, and with the first n.
Contents(p, q, i) == Content(p, q[i], IncludeSelf(q[i]))
Gone(p, q, n) == UNION {Contents(p, q, i) : i \in 1..n}
Stay(p, q, n) == Neither(Gone(p, q, n))
Firsts(q, n) == {q[i] : i \in 1..n}
Nearby(S) == {c \in S : IncludeSelf(c)}
Others(S) == {c \in S : ~IncludeSelf(c)}

\* The graph that is made of the i-th.
PartOf(p, q, i) ==
    [objs |-> Those(Ordered(Shapes), Contents(p, q, i)),
     edges |-> Those(AllEdges, Both(Contents(p, q, i))),
     external |-> Those(AllEdges, Stay(p, q, i - 1) \
                                    (Both(Contents(p, q, i)) \cup Neither(Contents(p, q, i))))]

\* Topmost diagrams of which those at a near are at the top.
Chosen(p, q) == Topmost(p, q) /\ \A c \in Range(q) : IncludeSelf(c) => p[c] = Root

\* The first n of the diagrams q have been cut out.
Stage(g, p, q, n) ==
    /\ g \in Graphs
    /\ Hangs(g, p, Nearby(Firsts(q, n)), Others(Firsts(q, n)))
    /\ g.objs = Those(Ordered(Shapes), Shapes \ Gone(p, q, n))
    /\ g.edges = Those(AllEdges, Stay(p, q, n))
    /\ \A i \in 1..n : g.sub[q[i]] = PartOf(p, q, i)
    /\ \A c \in Shapes \ Firsts(q, n) : g.sub[c] = Empty

LEMMA ChosenFacts ==
    ASSUME NObjects \in Nat, NEW p \in Trees, NEW q, Chosen(p, q)
    PROVE  /\ q \in Seq(Shapes) /\ Len(q) \in Nat /\ DOMAIN q = 1..Len(q)
           /\ \A i \in 1..Len(q) : q[i] \in Shapes /\ q[i] \in Range(q)
                                   /\ (IncludeSelf(q[i]) => p[q[i]] = Root)
                                   /\ Contents(p, q, i) \subseteq Shapes
           /\ \A i, j \in 1..Len(q) : i # j =>
                /\ q[i] # q[j] /\ ~Below(GraphOf(p), q[i], q[j])
                /\ Contents(p, q, i) \cap Contents(p, q, j) = {}
<1>1. q \in Seq(Shapes) /\ IsInjective(q)
  BY DEF Chosen, Topmost
<1>2. Len(q) \in Nat /\ DOMAIN q = 1..Len(q) /\ \A i \in 1..Len(q) : q[i] \in Shapes
  BY <1>1
<1>3. \A i \in 1..Len(q) : q[i] \in Range(q)
  BY <1>2 DEF Range
<1>4. \A i \in 1..Len(q) : /\ Contents(p, q, i) \subseteq Shapes
                           /\ \A o \in Contents(p, q, i) : Below(GraphOf(p), o, q[i])
  BY DEF Contents, Content, Within
<1>5. ASSUME NEW i \in 1..Len(q), NEW j \in 1..Len(q), i # j
      PROVE  /\ q[i] # q[j] /\ ~Below(GraphOf(p), q[i], q[j])
             /\ Contents(p, q, i) \cap Contents(p, q, j) = {}
  <2>1. q[i] # q[j]
    BY <1>1, <1>2, <1>5 DEF IsInjective
  <2>2. ~Below(GraphOf(p), q[i], q[j]) /\ ~Below(GraphOf(p), q[j], q[i])
    BY <1>3, <2>1, TopmostApart DEF Chosen
  <2>3. ASSUME NEW o \in Contents(p, q, i), o \in Contents(p, q, j) PROVE FALSE
    <3>1. o \in Shapes /\ Below(GraphOf(p), o, q[i]) /\ Below(GraphOf(p), o, q[j])
      BY <1>4, <2>3
    <3> QED
      BY <1>2, <2>2, <3>1, TreeBelow
  <2> QED
    BY <2>1, <2>2, <2>3
<1> QED
  BY <1>1, <1>2, <1>3, <1>4, <1>5 DEF Chosen

\* What is gone after n diagrams, and which edges stay.
LEMMA GoneFacts ==
    ASSUME NObjects \in Nat,
           NEW p \in Trees, NEW q, Chosen(p, q), NEW n \in 1..Len(q)
    PROVE  /\ Gone(p, q, n) = Gone(p, q, n - 1) \cup Contents(p, q, n)
           /\ Gone(p, q, n - 1) \cap Contents(p, q, n) = {}
           /\ Firsts(q, n) = Firsts(q, n - 1) \cup {q[n]} /\ q[n] \notin Firsts(q, n - 1)
           /\ Firsts(q, n - 1) \subseteq Shapes
           /\ Gone(p, q, n) \subseteq Shapes
           /\ Stay(p, q, n) = Stay(p, q, n - 1) \cap Neither(Contents(p, q, n))
           /\ Both(Contents(p, q, n)) \subseteq Stay(p, q, n - 1)
<1>1. n \in Nat /\ n - 1 \in Nat /\ 1..n = 1..(n - 1) \cup {n} /\ n \notin 1..(n - 1)
  BY ChosenFacts
<1>2. \A i \in 1..n : i \in 1..Len(q)
  BY ChosenFacts
<1>3. Gone(p, q, n) = Gone(p, q, n - 1) \cup Contents(p, q, n)
  BY <1>1 DEF Gone
<1>4. Firsts(q, n) = Firsts(q, n - 1) \cup {q[n]}
  BY <1>1 DEF Firsts
<1>5. \A i \in 1..(n - 1) : i \in 1..Len(q) /\ i # n
  BY <1>1, <1>2
<1>6. q[n] \notin Firsts(q, n - 1)
  BY <1>2, <1>5, ChosenFacts DEF Firsts
<1>7. Gone(p, q, n - 1) \cap Contents(p, q, n) = {}
  BY <1>2, <1>5, ChosenFacts DEF Gone
<1>8. Firsts(q, n - 1) \subseteq Shapes /\ Gone(p, q, n) \subseteq Shapes
  BY <1>2, <1>5, ChosenFacts DEF Firsts, Gone
<1>9. Stay(p, q, n) = Stay(p, q, n - 1) \cap Neither(Contents(p, q, n))
  BY <1>3 DEF Stay, Neither
<1>10. Both(Contents(p, q, n)) \subseteq Stay(p, q, n - 1)
  <2>1. Lifeline \notin Gone(p, q, n - 1)
    BY <1>3, <1>8 DEF Lifeline, Shapes
  <2> QED
    BY <1>7, <2>1 DEF Stay, Both, Neither
<1> QED
  BY <1>3, <1>4, <1>6, <1>7, <1>8, <1>9, <1>10

LEMMA StageStart ==
    ASSUME NObjects \in Nat, NEW p \in Trees, NEW q
    PROVE  Stage(GraphOf(p), p, q, 0)
<1>1. 1..0 = {}
  OBVIOUS
<1>2. Gone(p, q, 0) = {} /\ Firsts(q, 0) = {} /\ Nearby({}) = {} /\ Others({}) = {}
  BY <1>1 DEF Gone, Firsts, Nearby, Others
<1>3. Stay(p, q, 0) = Edges
  BY <1>2 DEF Stay, Neither
<1>4. Those(AllEdges, Edges) = AllEdges
  BY EdgesAreListed, ThoseFacts DEF Listed
<1>5. Those(Ordered(Shapes), Shapes) = Ordered(Shapes)
  BY OrderedFacts, ThoseFacts
<1>6. Shapes \ {} = Shapes
  OBVIOUS
<1> QED
  BY <1>1, <1>2, <1>3, <1>4, <1>5, <1>6, GraphOfTree DEF Stage

LEMMA ThoseTwice ==
    ASSUME NEW X, NEW S, NEW T, NEW q \in Seq(X)
    PROVE  Those(Those(q, S), T) = Those(q, S \cap T)
BY ThoseFacts

LEMMA StageSeparate ==
    ASSUME NObjects \in Nat,
           NEW p \in Trees, NEW q, Chosen(p, q), NEW n \in 0..Len(q)
    PROVE  Separate(p, Nearby(Firsts(q, n)), Others(Firsts(q, n)))
<1>1. \A i \in 1..n : i \in 1..Len(q)
  BY ChosenFacts
<1>2. \A c \in Firsts(q, n) : c \in Shapes /\ (IncludeSelf(c) => p[c] = Root)
  BY <1>1, ChosenFacts DEF Firsts
<1> QED
  BY <1>2 DEF Separate, Nearby, Others, Tops

\* The members of the next diagram are what the tree says.
LEMMA StageMembers ==
    ASSUME NObjects \in Nat,
           NEW p \in Trees, NEW q, Chosen(p, q), NEW n \in 1..Len(q), NEW g,
           Stage(g, p, q, n - 1)
    PROVE  /\ Members(g, q[n], IncludeSelf(q[n])) = Contents(p, q, n)
           /\ q[n] \in Shapes /\ IncludeSelf(q[n]) \in BOOLEAN
<1> DEFINE A == Nearby(Firsts(q, n - 1))
           B == Others(Firsts(q, n - 1))
<1>1. n - 1 \in 0..Len(q) /\ \A i \in 1..(n - 1) : i \in 1..Len(q) /\ i # n
  BY ChosenFacts
<1>2. Separate(p, A, B) /\ g \in Graphs /\ Hangs(g, p, A, B)
  BY <1>1, StageSeparate DEF Stage
<1>3. q[n] \in Shapes /\ IncludeSelf(q[n]) \in BOOLEAN
  BY ChosenFacts, StepTypes, <1>2
<1>4. \A b \in B : ~Below(GraphOf(p), b, q[n])
  BY <1>1, ChosenFacts DEF Others, Firsts
<1> HIDE DEF A, B
<1>5. \A self \in BOOLEAN : Members(g, q[n], self) = Content(p, q[n], self)
  BY <1>2, <1>3, <1>4, BelowPartly
<1> QED
  BY <1>3, <1>5 DEF Contents

\* The next diagram is cut out.
LEMMA StageStep ==
    ASSUME NObjects \in Nat,
           NEW p \in Trees, NEW q, Chosen(p, q), NEW n \in 1..Len(q), NEW g,
           Stage(g, p, q, n - 1)
    PROVE  Stage(CutOut(g, q[n]), p, q, n)
<1> DEFINE c == q[n]
           A == Nearby(Firsts(q, n - 1))
           B == Others(Firsts(q, n - 1))
           C == Contents(p, q, n)
           self == IncludeSelf(c)
           r == CutOut(g, c)
           U == Gone(p, q, n - 1)
           K == Stay(p, q, n - 1)
<1>1. /\ c \in Shapes /\ self \in BOOLEAN /\ Members(g, c, self) = C
      /\ g \in Graphs /\ Hangs(g, p, A, B)
  BY StageMembers DEF Stage
<1>2. Separate(p, A, B)
  <2>1. n - 1 \in 0..Len(q)
    BY ChosenFacts
  <2> QED
    BY <2>1, StageSeparate
<1>3. Extracted(g, c, self, r)
  BY <1>1, ExtractIs DEF CutOut
<1>4. Hangs(r, p, Nearby(Firsts(q, n)), Others(Firsts(q, n)))
  <2>1. c \notin A /\ c \notin B
    BY GoneFacts DEF Nearby, Others
  <2>2. CASE self
    <3>1. Nearby(Firsts(q, n)) = A \cup {c} /\ Others(Firsts(q, n)) = B
      BY <2>2, GoneFacts DEF Nearby, Others
    <3>2. p[c] = Root
      BY <2>2, ChosenFacts
    <3>3. r = Extract(g, c, TRUE)
      <4>1. self = TRUE
        BY <2>2 DEF IncludeSelf
      <4> QED
        BY <4>1 DEF CutOut
    <3> HIDE DEF A, B, r, c
    <3> QED
      <4>1. Hangs(Extract(g, c, TRUE), p, A \cup {c}, B)
        BY <1>1, <1>2, <2>1, <3>2, ExtractHangs
      <4> QED
        BY <3>1, <3>3, <4>1
  <2>3. CASE ~self
    <3>1. Nearby(Firsts(q, n)) = A /\ Others(Firsts(q, n)) = B \cup {c}
      BY <2>3, GoneFacts DEF Nearby, Others
    <3>3. r = Extract(g, c, FALSE)
      <4>1. self = FALSE
        BY <2>3 DEF IncludeSelf
      <4> QED
        BY <4>1 DEF CutOut
    <3> HIDE DEF A, B, r, c
    <3> QED
      <4>1. Hangs(Extract(g, c, FALSE), p, A, B \cup {c})
        BY <1>1, <1>2, <2>1, ExtractHangs
      <4> QED
        BY <3>1, <3>3, <4>1
  <2> QED
    BY <2>2, <2>3
<1>5. /\ g.objs = Those(Ordered(Shapes), Shapes \ U) /\ g.edges = Those(AllEdges, K)
      /\ Ordered(Shapes) \in Seq(Shapes) /\ AllEdges \in Seq(Listed)
  BY OrderedFacts, EdgesAreListed DEF Stage
<1>6. /\ Gone(p, q, n) = U \cup C /\ U \cap C = {} /\ C \subseteq Shapes
      /\ Stay(p, q, n) = K \cap Neither(C) /\ Both(C) \subseteq K /\ K \subseteq Edges
  <2>1. K \subseteq Edges
    BY DEF Stay, Neither
  <2>2. C \subseteq Shapes
    BY ChosenFacts
  <2> QED
    BY <2>1, <2>2, GoneFacts
<1> HIDE DEF U, C, K, r
<1>7. r.objs = Those(Ordered(Shapes), Shapes \ Gone(p, q, n))
  <2>1. (Shapes \ U) \cap (Shapes \ C) = Shapes \ Gone(p, q, n)
    BY <1>6
  <2>2. r.objs = Those(Those(Ordered(Shapes), Shapes \ U), Shapes \ C)
    BY <1>1, <1>3, <1>5 DEF Extracted
  <2>3. Those(Those(Ordered(Shapes), Shapes \ U), Shapes \ C)
          = Those(Ordered(Shapes), (Shapes \ U) \cap (Shapes \ C))
    BY <1>5, ThoseTwice
  <2> QED
    BY <2>1, <2>2, <2>3
<1>8. r.edges = Those(AllEdges, Stay(p, q, n))
  <2>1. r.edges = Those(Those(AllEdges, K), Neither(C))
    BY <1>1, <1>3, <1>5 DEF Extracted
  <2>2. Those(Those(AllEdges, K), Neither(C)) = Those(AllEdges, K \cap Neither(C))
    BY <1>5, ThoseTwice
  <2> QED
    BY <1>6, <2>1, <2>2
<1>9. r.sub[c] = PartOf(p, q, n)
  <2>1. r.sub[c] = CutOf(g, C)
    BY <1>1, <1>3 DEF Extracted
  <2>2. /\ (Shapes \ U) \cap C = C /\ K \cap Both(C) = Both(C)
        /\ K \cap (Edges \ (Both(C) \cup Neither(C))) = K \ (Both(C) \cup Neither(C))
    BY <1>6
  <2>3. Those(g.objs, C) = Those(Ordered(Shapes), C)
    <3>1. Those(g.objs, C) = Those(Ordered(Shapes), (Shapes \ U) \cap C)
      BY <1>5, ThoseTwice
    <3> QED
      BY <2>2, <3>1
  <2>4. Those(g.edges, Both(C)) = Those(AllEdges, Both(C))
    <3>1. Those(g.edges, Both(C)) = Those(AllEdges, K \cap Both(C))
      BY <1>5, ThoseTwice
    <3> QED
      BY <2>2, <3>1
  <2>5. Those(g.edges, Edges \ (Both(C) \cup Neither(C)))
          = Those(AllEdges, K \ (Both(C) \cup Neither(C)))
    <3> DEFINE X == Edges \ (Both(C) \cup Neither(C))
    <3>1. K \cap X = K \ (Both(C) \cup Neither(C))
      BY <2>2
    <3> HIDE DEF X
    <3>2. Those(g.edges, X) = Those(AllEdges, K \cap X)
      BY <1>5, ThoseTwice
    <3> QED
      BY <3>1, <3>2 DEF X
  <2> QED
    BY <2>1, <2>3, <2>4, <2>5 DEF CutOf, PartOf, C, K
<1>10. \A i \in 1..n : r.sub[q[i]] = PartOf(p, q, i)
  <2> SUFFICES ASSUME NEW i \in 1..n, i # n PROVE r.sub[q[i]] = PartOf(p, q, i)
    BY <1>9
  <2>1. i \in 1..(n - 1) /\ i \in 1..Len(q)
    BY ChosenFacts
  <2>2. q[i] # c /\ q[i] \in Shapes
    BY <2>1, ChosenFacts
  <2>3. g.sub[q[i]] = PartOf(p, q, i)
    BY <2>1 DEF Stage
  <2> HIDE DEF c
  <2> QED
    BY <1>3, <2>2, <2>3 DEF Extracted
<1>11. \A d \in Shapes \ Firsts(q, n) : r.sub[d] = Empty
  <2>1. Firsts(q, n) = Firsts(q, n - 1) \cup {c}
    BY GoneFacts
  <2> HIDE DEF c
  <2> QED
    BY <1>3, <2>1 DEF Extracted, Stage
<1> QED
  BY <1>3, <1>4, <1>7, <1>8, <1>10, <1>11 DEF Stage, Extracted, r

\* Cutting out the first n one after the other.
LEMMA Stages ==
    ASSUME NObjects \in Nat,
           NEW p \in Trees, NEW q, Chosen(p, q), NEW n \in 0..Len(q)
    PROVE  /\ SubSeq(q, 1, n) \in Seq(Shapes) /\ Len(SubSeq(q, 1, n)) = n
           /\ \A v : CutsOut(v, GraphOf(p), SubSeq(q, 1, n)) =>
                       \A i \in 0..n : Stage(v[i], p, q, i)
           /\ Stage(CutAll(GraphOf(p), SubSeq(q, 1, n)), p, q, n)
<1> DEFINE r == SubSeq(q, 1, n)
<1>1. q \in Seq(Shapes) /\ Len(q) \in Nat /\ n \in Nat /\ n <= Len(q)
  BY ChosenFacts
<1>2. r \in Seq(Shapes) /\ Len(r) = n /\ \A i \in 1..n : r[i] = q[i] /\ i \in 1..Len(q)
  BY <1>1
<1> HIDE DEF r
<1>3. ASSUME NEW v, CutsOut(v, GraphOf(p), r) PROVE \A i \in 0..n : Stage(v[i], p, q, i)
  <2> DEFINE N == {i \in Nat : i <= n => Stage(v[i], p, q, i)}
  <2>1. 0 \in N
    BY <1>3, StageStart DEF CutsOut
  <2>2. ASSUME NEW i \in Nat, i \in N PROVE i + 1 \in N
    <3> SUFFICES ASSUME i + 1 <= n PROVE Stage(v[i + 1], p, q, i + 1)
      OBVIOUS
    <3>1. i + 1 \in 1..n /\ (i + 1) - 1 = i /\ i <= n
      BY <1>1
    <3>2. v[i + 1] = CutOut(v[i], q[i + 1]) /\ Stage(v[i], p, q, i)
      BY <1>2, <1>3, <2>2, <3>1 DEF CutsOut
    <3>3. i + 1 \in 1..Len(q)
      BY <1>2, <3>1
    <3> QED
      BY <3>1, <3>2, <3>3, StageStep
  <2>3. Nat \subseteq N
    <3> HIDE DEF N
    <3> QED
      BY <2>1, <2>2, AllNaturals
  <2> QED
    BY <1>1, <2>3
<1>4. GraphOf(p) \in Graphs
  BY GraphOfTree
<1>5. PICK v : CutsOut(v, GraphOf(p), r) /\ CutAll(GraphOf(p), r) = v[Len(r)]
  BY <1>2, <1>4, CutOutChain
<1>6. Stage(CutAll(GraphOf(p), r), p, q, n)
  BY <1>1, <1>2, <1>3, <1>5
<1> QED
  BY <1>2, <1>3, <1>6 DEF r

-----------------------------------------------------------------------------
(* All in one pass                                                         *)

\* The diagrams o is in, the one it goes to, and what goes to each.
InOf(g, q, o) ==
    {i \in DOMAIN q : /\ o # Lifeline /\ Below(g, o, q[i])
                      /\ IncludeSelf(q[i]) \/ o # q[i]}
OwnerOf(g, q) ==
    [o \in Shapes \cup {Lifeline} |-> IF InOf(g, q, o) = {} THEN 0 ELSE Max(InOf(g, q, o))]
OwnedBy(w, i) == {o \in Shapes : w[o] = i}
InsideOf(w, i) == {e \in Edges : w[e[1]] = i /\ (e[2] = Lifeline \/ w[e[2]] = i)}
LeavingOf(w, i) == {e \in Edges : /\ e \notin InsideOf(w, w[e[1]])
                                  /\ i = FirstOwner(<<w[e[1]], w[e[2]]>>)}
CutFor(g, w, i) ==
    [objs |-> Those(g.objs, OwnedBy(w, i)), edges |-> Those(g.edges, InsideOf(w, i)),
     external |-> Those(g.edges, LeavingOf(w, i))]
RestOf(g, w, q) ==
    [g EXCEPT
        !.objs = Those(g.objs, OwnedBy(w, 0)),
        !.edges = Those(g.edges, InsideOf(w, 0)),
        !.sub = [c \in Shapes |-> IF c \in Range(q)
                                  THEN CutFor(g, w, CHOOSE i \in DOMAIN q : q[i] = c)
                                  ELSE g.sub[c]]]

LEMMA ExtractAllIs ==
    ASSUME NEW g, NEW q
    PROVE  ExtractAll(g, q) = UprootAll(RestOf(g, OwnerOf(g, q), q), q)
BY ZenonT(60)
   DEF ExtractAll, UprootAll, RestOf, OwnerOf, InOf, OwnedBy, InsideOf,
       LeavingOf, CutFor

\* An object goes to the diagram that it is cut out with.
LEMMA OwnerIs ==
    ASSUME NObjects \in Nat,
           NEW p \in Trees, NEW q, Chosen(p, q), NEW w, w = OwnerOf(GraphOf(p), q)
    PROVE  /\ w[Lifeline] = 0
           /\ \A o \in Shapes : /\ w[o] \in 0..Len(q)
                                /\ w[o] = 0 <=> o \notin Gone(p, q, Len(q))
                                /\ \A i \in 1..Len(q) : w[o] = i <=> o \in Contents(p, q, i)
<1> DEFINE G == GraphOf(p)
           n == Len(q)
<1>1. n \in Nat /\ DOMAIN q = 1..n
  BY ChosenFacts
<1>2. w[Lifeline] = 0
  BY DEF OwnerOf, InOf
<1>3. ASSUME NEW o \in Shapes
      PROVE  InOf(G, q, o) = {i \in 1..n : o \in Contents(p, q, i)}
  <2>1. o # Lifeline
    BY DEF Shapes, Lifeline
  <2>2. \A i \in 1..n : o \in Contents(p, q, i)
                          <=> Below(G, o, q[i]) /\ (IncludeSelf(q[i]) \/ o # q[i])
    BY DEF Contents, Content, Within
  <2> HIDE DEF G, n
  <2> QED
    BY <1>1, <2>1, <2>2 DEF InOf
<1>4. \A o \in Shapes : w[o] = IF InOf(G, q, o) = {} THEN 0 ELSE Max(InOf(G, q, o))
  BY DEF OwnerOf
<1> HIDE DEF G
<1>5. ASSUME NEW o \in Shapes, NEW i \in 1..n, o \in Contents(p, q, i) PROVE w[o] = i
  <2>1. \A j \in 1..n : o \in Contents(p, q, j) => j = i
    BY <1>5, ChosenFacts
  <2>2. InOf(G, q, o) = {i}
    BY <1>3, <1>5, <2>1
  <2>3. i \in Int /\ i >= i
    BY <1>1
  <2>4. Max({i}) = i
    BY <2>3 DEF Max
  <2> QED
    BY <1>4, <2>2, <2>4
<1>6. ASSUME NEW o \in Shapes, \A i \in 1..n : o \notin Contents(p, q, i) PROVE w[o] = 0
  BY <1>3, <1>4, <1>6
<1>7. \A o \in Shapes : o \in Gone(p, q, n) <=> \E i \in 1..n : o \in Contents(p, q, i)
  BY DEF Gone
<1> HIDE DEF n
<1>8. ASSUME NEW o \in Shapes
      PROVE  /\ w[o] \in 0..n
             /\ w[o] = 0 <=> o \notin Gone(p, q, n)
             /\ \A i \in 1..n : w[o] = i <=> o \in Contents(p, q, i)
  <2>1. CASE \E i \in 1..n : o \in Contents(p, q, i)
    <3>1. PICK i \in 1..n : o \in Contents(p, q, i)
      BY <2>1
    <3>2. w[o] = i /\ i \in 0..n /\ i # 0
      BY <1>1, <1>5, <3>1
    <3>3. \A j \in 1..n : o \in Contents(p, q, j) => j = i
      BY <1>5, <3>2
    <3> QED
      BY <1>7, <2>1, <3>1, <3>2, <3>3
  <2>2. CASE \A i \in 1..n : o \notin Contents(p, q, i)
    <3>1. w[o] = 0 /\ 0 \in 0..n /\ 0 \notin 1..n
      BY <1>1, <1>6, <2>2
    <3> QED
      BY <1>7, <2>2, <3>1
  <2> QED
    BY <2>1, <2>2
<1> QED
  BY <1>2, <1>8 DEF n

\* So what is decided for all diagrams at once is what is cut out for each in turn.
LEMMA OwnedIs ==
    ASSUME NObjects \in Nat,
           NEW p \in Trees, NEW q, Chosen(p, q), NEW w, w = OwnerOf(GraphOf(p), q)
    PROVE  /\ OwnedBy(w, 0) = Shapes \ Gone(p, q, Len(q))
           /\ InsideOf(w, 0) = Stay(p, q, Len(q))
           /\ \A i \in 1..Len(q) :
                /\ OwnedBy(w, i) = Contents(p, q, i)
                /\ InsideOf(w, i) = Both(Contents(p, q, i))
                /\ LeavingOf(w, i) = Stay(p, q, i - 1) \
                                       (Both(Contents(p, q, i)) \cup Neither(Contents(p, q, i)))
<1> DEFINE n == Len(q)
           C(i) == Contents(p, q, i)
           U == Gone(p, q, n)
<1>1. n \in Nat /\ \A i \in 1..n : C(i) \subseteq Shapes
  BY ChosenFacts
<1>2. /\ w[Lifeline] = 0
      /\ \A o \in Shapes : /\ w[o] \in 0..n /\ (w[o] = 0 <=> o \notin U)
                           /\ \A i \in 1..n : w[o] = i <=> o \in C(i)
  BY OwnerIs
<1>3. Lifeline \notin Shapes /\ U \subseteq Shapes /\ \A i \in 1..n : Lifeline \notin C(i)
  <2>1. Lifeline \notin Shapes
    BY DEF Lifeline, Shapes
  <2>2. U \subseteq Shapes
    BY <1>1 DEF Gone
  <2> QED
    BY <1>1, <2>1, <2>2
<1>4. \A e \in Edges : e[1] \in Shapes /\ (e[2] \in Shapes \/ e[2] = Lifeline) /\ e[1] # e[2]
  BY DEF Edges
<1>5. \A i \in 1..n : \A j \in 1..(i - 1) : j \in 1..n /\ j < i
  BY <1>1
<1>6. ASSUME NEW i \in 1..n, NEW o \in Shapes \cup {Lifeline}
      PROVE  o \notin Gone(p, q, i - 1) <=> w[o] = 0 \/ w[o] >= i
  <2>1. o \in Gone(p, q, i - 1) <=> \E j \in 1..(i - 1) : o \in C(j)
    BY DEF Gone
  <2>2. CASE o = Lifeline
    BY <1>2, <1>3, <1>5, <2>1, <2>2
  <2>3. CASE o \in Shapes
    <3>1. \A j \in 1..(i - 1) : o \in C(j) <=> w[o] = j
      BY <1>2, <1>5, <2>3
    <3>2. w[o] \in 0..n
      BY <1>2, <2>3
    <3> HIDE DEF C, U
    <3>3. (\E j \in 1..(i - 1) : w[o] = j) <=> w[o] \in 1..(i - 1)
      OBVIOUS
    <3>4. w[o] \in 1..(i - 1) <=> ~(w[o] = 0 \/ w[o] >= i)
      BY <1>1, <3>2
    <3> QED
      BY <2>1, <3>1, <3>3, <3>4
  <2> QED
    BY <2>2, <2>3
<1> HIDE DEF n, C, U
<1>7. OwnedBy(w, 0) = Shapes \ U
  BY <1>2 DEF OwnedBy
<1>8. InsideOf(w, 0) = Stay(p, q, n)
  <2>1. \A e \in Edges : (w[e[1]] = 0 /\ (e[2] = Lifeline \/ w[e[2]] = 0))
                           <=> (e[1] \notin U /\ e[2] \notin U)
    BY <1>2, <1>3, <1>4
  <2> QED
    BY <2>1 DEF InsideOf, Stay, Neither, U
<1>9. ASSUME NEW i \in 1..n
      PROVE  /\ OwnedBy(w, i) = C(i) /\ InsideOf(w, i) = Both(C(i))
             /\ LeavingOf(w, i) = Stay(p, q, i - 1) \ (Both(C(i)) \cup Neither(C(i)))
  <2>1. OwnedBy(w, i) = C(i)
    BY <1>1, <1>2 DEF OwnedBy
  <2>2. InsideOf(w, i) = Both(C(i))
    <3>1. \A e \in Edges : (w[e[1]] = i /\ (e[2] = Lifeline \/ w[e[2]] = i))
                             <=> (e[1] \in C(i) /\ e[2] \in C(i) \cup {Lifeline})
      BY <1>2, <1>4
    <3> QED
      BY <3>1 DEF InsideOf, Both
  <2>3. ASSUME NEW e \in Edges
        PROVE  e \in LeavingOf(w, i)
                 <=> e \in Stay(p, q, i - 1) /\ e \notin Both(C(i)) /\ e \notin Neither(C(i))
    <3> DEFINE a == w[e[1]]
               b == w[e[2]]
               ll == e[2] = Lifeline
    <3>1. a \in 0..n /\ b \in 0..n /\ (ll => b = 0)
      BY <1>1, <1>2, <1>4
    <3>2. e \in InsideOf(w, w[e[1]]) <=> ll \/ b = a
      BY DEF InsideOf
    <3>3. e \in LeavingOf(w, i) <=> ~(ll \/ b = a) /\ i = FirstOwner(<<a, b>>)
      BY <3>2 DEF LeavingOf
    <3>4. FirstOwner(<<a, b>>) = IF a = 0 \/ (b # 0 /\ b < a) THEN b ELSE a
      BY DEF FirstOwner
    <3>5. /\ e \in Both(C(i)) <=> a = i /\ (b = i \/ ll)
          /\ e \in Neither(C(i)) <=> a # i /\ b # i
      <4>1. (e[1] \in C(i) <=> a = i) /\ (e[2] \in C(i) <=> b = i)
        BY <1>2, <1>3, <1>4
      <4> HIDE DEF a, b
      <4> QED
        BY <4>1 DEF Both, Neither
    <3>6. e \in Stay(p, q, i - 1) <=> (a = 0 \/ a >= i) /\ (b = 0 \/ b >= i)
      <4>1. e[1] \in Shapes \cup {Lifeline} /\ e[2] \in Shapes \cup {Lifeline}
        BY <1>4
      <4>2. (e[1] \notin Gone(p, q, i - 1) <=> a = 0 \/ a >= i)
        BY <1>6, <4>1
      <4>3. (e[2] \notin Gone(p, q, i - 1) <=> b = 0 \/ b >= i)
        BY <1>6, <4>1
      <4> HIDE DEF a, b
      <4> QED
        BY <4>2, <4>3 DEF Stay, Neither
    <3>7. i \in Int /\ i > 0 /\ i <= n
      BY <1>1
    <3> HIDE DEF a, b, ll
    <3>8. (~(ll \/ b = a) /\ i = IF a = 0 \/ (b # 0 /\ b < a) THEN b ELSE a)
            <=> /\ (a = 0 \/ a >= i) /\ (b = 0 \/ b >= i)
                /\ ~(a = i /\ (b = i \/ ll)) /\ ~(a # i /\ b # i)
      BY <1>1, <3>1, <3>7
    <3> QED
      BY <3>3, <3>4, <3>5, <3>6, <3>8
  <2>4. LeavingOf(w, i) \subseteq Edges /\ Stay(p, q, i - 1) \subseteq Edges
    BY DEF LeavingOf, Stay, Neither
  <2> QED
    BY <2>1, <2>2, <2>3, <2>4
<1> QED
  BY <1>7, <1>8, <1>9 DEF n, C, U

\* The graph before the diagrams are given their roots.
Rest(p, q, r) ==
    /\ r \in Graphs
    /\ r.parent = GraphOf(p).parent /\ r.kids = GraphOf(p).kids
    /\ r.objs = Those(Ordered(Shapes), Shapes \ Gone(p, q, Len(q)))
    /\ r.edges = Those(AllEdges, Stay(p, q, Len(q)))
    /\ \A i \in 1..Len(q) : r.sub[q[i]] = PartOf(p, q, i)
    /\ \A c \in Shapes \ Range(q) : r.sub[c] = Empty

LEMMA RestIs ==
    ASSUME NObjects \in Nat, NEW p \in Trees, NEW q, Chosen(p, q), NEW r,
           r = RestOf(GraphOf(p), OwnerOf(GraphOf(p), q), q)
    PROVE  Rest(p, q, r)
<1> DEFINE G == GraphOf(p)
           w == OwnerOf(G, q)
           n == Len(q)
           at(c) == CHOOSE i \in DOMAIN q : q[i] = c
<1>1. /\ G \in Graphs /\ G.objs = Ordered(Shapes) /\ G.edges = AllEdges
      /\ \A c \in Shapes : G.sub[c] = Empty
  BY GraphOfTree
<1>2. /\ OwnedBy(w, 0) = Shapes \ Gone(p, q, n) /\ InsideOf(w, 0) = Stay(p, q, n)
      /\ \A i \in 1..n : CutFor(G, w, i) = PartOf(p, q, i)
  <2>1. /\ OwnedBy(w, 0) = Shapes \ Gone(p, q, n) /\ InsideOf(w, 0) = Stay(p, q, n)
        /\ \A i \in 1..n :
             /\ OwnedBy(w, i) = Contents(p, q, i)
             /\ InsideOf(w, i) = Both(Contents(p, q, i))
             /\ LeavingOf(w, i) = Stay(p, q, i - 1) \
                                    (Both(Contents(p, q, i)) \cup Neither(Contents(p, q, i)))
    BY OwnedIs
  <2> HIDE DEF w, G
  <2> QED
    BY <1>1, <2>1 DEF CutFor, PartOf
<1>3. q \in Seq(Shapes) /\ n \in Nat /\ DOMAIN q = 1..n
      /\ \A i, j \in 1..n : i # j => q[i] # q[j]
  BY ChosenFacts
<1>4. \A i \in 1..n : at(q[i]) = i
  BY <1>3
<1>5. \A c \in Range(q) : at(c) \in 1..n /\ q[at(c)] = c
  BY <1>3 DEF Range
<1>6. \A i \in 1..n : q[i] \in Range(q) /\ q[i] \in Shapes
  BY <1>3 DEF Range
<1>7. /\ Those(G.objs, OwnedBy(w, 0)) \in Seq(Shapes)
      /\ Those(G.edges, InsideOf(w, 0)) \in Seq(Listed)
      /\ \A S : Those(G.objs, S) \in Seq(Shapes)
      /\ \A S : Those(G.edges, S) \in Seq(Listed)
  BY <1>1, GraphFields, ThoseFacts
<1>8. \A i : CutFor(G, w, i) \in Subgraphs
  <2> HIDE DEF G, w
  <2> QED
    BY <1>7 DEF CutFor, Subgraphs
<1>9. /\ G = [objs |-> G.objs, edges |-> G.edges, parent |-> G.parent,
              kids |-> G.kids, sub |-> G.sub]
      /\ G.parent \in [Shapes -> Places] /\ G.kids \in [Places -> Seq(Shapes)]
      /\ \A c \in Shapes : G.sub[c] \in Subgraphs
  BY <1>1, GraphFields
<1> DEFINE s == [c \in Shapes |-> IF c \in Range(q) THEN CutFor(G, w, at(c)) ELSE G.sub[c]]
<1>10. s \in [Shapes -> Subgraphs]
  <2> HIDE DEF G, w, at
  <2> QED
    BY <1>8, <1>9
<1>11. r = [objs |-> Those(G.objs, OwnedBy(w, 0)), edges |-> Those(G.edges, InsideOf(w, 0)),
            parent |-> G.parent, kids |-> G.kids, sub |-> s]
  <2>1. r = [G EXCEPT !.objs = Those(G.objs, OwnedBy(w, 0)),
                      !.edges = Those(G.edges, InsideOf(w, 0)), !.sub = s]
    BY DEF RestOf
  <2> HIDE DEF G, w, s
  <2> QED
    BY <1>9, <2>1
<1>12. /\ \A i \in 1..n : s[q[i]] = PartOf(p, q, i)
       /\ \A c \in Shapes \ Range(q) : s[c] = Empty
  <2>1. \A i \in 1..n : s[q[i]] = CutFor(G, w, at(q[i]))
    BY <1>6
  <2> HIDE DEF G, w, at
  <2> QED
    BY <1>1, <1>2, <1>4, <2>1
<1> HIDE DEF s, w
<1>13. r \in Graphs
  BY <1>7, <1>9, <1>10, <1>11 DEF Graphs
<1>14. r.parent = G.parent /\ r.kids = G.kids
  BY <1>11
<1>15. r.objs = Those(G.objs, OwnedBy(w, 0)) /\ r.edges = Those(G.edges, InsideOf(w, 0))
  BY <1>11
<1>16. r.sub = s
  BY <1>11
<1> HIDE DEF G
<1> QED
  BY <1>1, <1>2, <1>12, <1>13, <1>14, <1>15, <1>16 DEF G, Rest

\* Uprooting looks at nothing but the tree.
LEMMA UprootSame ==
    ASSUME NObjects \in Nat,
           NEW g \in Graphs, NEW h \in Graphs, NEW c \in Shapes,
           g.parent = h.parent, g.kids = h.kids
    PROVE  /\ Uproot(g, c).parent = CutOut(h, c).parent
           /\ Uproot(g, c).kids = CutOut(h, c).kids
           /\ Uproot(g, c).objs = g.objs /\ Uproot(g, c).edges = g.edges
           /\ Uproot(g, c).sub = g.sub
<1> DEFINE self == IncludeSelf(c)
           r == Reparent(g, c, self)
           s == Reparent(h, c, self)
<1>1. self \in BOOLEAN
  BY StepTypes
<1>2. Reparented(g, c, self, r) /\ Reparented(h, c, self, s)
  BY <1>1, ReparentIs
<1>3. CutOut(h, c).parent = s.parent /\ CutOut(h, c).kids = s.kids
  BY <1>1, ExtractIs DEF CutOut, Extracted
<1>4. Uproot(g, c) = r
  BY DEF Uproot
<1> HIDE DEF self, r, s
<1>5. TopOf(g, c, self) = TopOf(h, c, self) /\ FromOf(g, c, self) = FromOf(h, c, self)
  BY DEF TopOf, FromOf
<1>6. /\ r.parent \in [Shapes -> Places] /\ s.parent \in [Shapes -> Places]
      /\ r.kids \in [Places -> Seq(Shapes)] /\ s.kids \in [Places -> Seq(Shapes)]
  BY <1>2, GraphFields DEF Reparented
<1>7. \A o \in Shapes : r.parent[o] = s.parent[o]
  BY <1>2, <1>5 DEF Reparented
<1>8. \A x \in Places : r.kids[x] = s.kids[x]
  BY <1>2, <1>5 DEF Reparented
<1>9. r.parent = s.parent /\ r.kids = s.kids
  BY <1>6, <1>7, <1>8
<1> QED
  BY <1>2, <1>3, <1>4, <1>9 DEF Reparented

\* The pass over all diagrams gives what cutting out one after the other gives.
LEMMA BatchIsOneByOne ==
    ASSUME NObjects \in Nat, NEW p \in Trees, NEW q, Chosen(p, q)
    PROVE  /\ ExtractAll(GraphOf(p), q) = CutAll(GraphOf(p), SubSeq(q, 1, Len(q)))
           /\ Stage(ExtractAll(GraphOf(p), q), p, q, Len(q))
<1> DEFINE G == GraphOf(p)
           n == Len(q)
           s == SubSeq(q, 1, n)
<1>0. PICK r : r = RestOf(G, OwnerOf(G, q), q)
  OBVIOUS
<1>1. q \in Seq(Shapes) /\ n \in Nat /\ \A i \in 1..n : q[i] \in Shapes
  BY ChosenFacts
<1>2. s = q
  BY <1>1
<1>3. G \in Graphs
  BY GraphOfTree
<1> HIDE DEF s
<1>4. /\ r \in Graphs
      /\ r.parent = G.parent /\ r.kids = G.kids
      /\ r.objs = Those(Ordered(Shapes), Shapes \ Gone(p, q, n))
      /\ r.edges = Those(AllEdges, Stay(p, q, n))
      /\ \A i \in 1..n : r.sub[q[i]] = PartOf(p, q, i)
      /\ \A c \in Shapes \ Range(q) : r.sub[c] = Empty
  <2>1. Rest(p, q, r)
    BY <1>0, RestIs
  <2> QED
    BY <2>1 DEF Rest
<1>5. ExtractAll(G, q) = UprootAll(r, q)
  <2>1. ExtractAll(G, q) = UprootAll(RestOf(G, OwnerOf(G, q), q), q)
    BY ExtractAllIs
  <2> QED
    BY <1>0, <2>1
<1> HIDE DEF G
<1>6. PICK u : Uproots(u, r, q) /\ UprootAll(r, q) = u[n]
  BY <1>1, <1>4, UprootChain
<1>7. PICK v : CutsOut(v, G, q) /\ CutAll(G, q) = v[n]
  BY <1>1, <1>3, CutOutChain
<1>8. \A i \in 0..n : u[i] \in Graphs /\ v[i] \in Graphs
  BY <1>6, <1>7 DEF Uproots, CutsOut
<1>9. \A i \in 0..n : /\ u[i].parent = v[i].parent /\ u[i].kids = v[i].kids
                      /\ u[i].objs = r.objs /\ u[i].edges = r.edges /\ u[i].sub = r.sub
  <2> DEFINE Same(i) == /\ u[i].parent = v[i].parent /\ u[i].kids = v[i].kids
                        /\ u[i].objs = r.objs /\ u[i].edges = r.edges /\ u[i].sub = r.sub
             N == {i \in Nat : i <= n => Same(i)}
  <2>1. 0 \in N
    BY <1>4, <1>6, <1>7 DEF Uproots, CutsOut
  <2>2. ASSUME NEW i \in Nat, i \in N PROVE i + 1 \in N
    <3> SUFFICES ASSUME i + 1 <= n PROVE Same(i + 1)
      OBVIOUS
    <3>1. i + 1 \in 1..n /\ (i + 1) - 1 = i /\ i <= n /\ i \in 0..n
      BY <1>1
    <3>2. u[i + 1] = Uproot(u[i], q[i + 1]) /\ v[i + 1] = CutOut(v[i], q[i + 1])
      BY <1>6, <1>7, <3>1 DEF Uproots, CutsOut
    <3>3. u[i] \in Graphs /\ v[i] \in Graphs /\ q[i + 1] \in Shapes /\ Same(i)
      BY <1>1, <1>8, <2>2, <3>1
    <3> QED
      BY <3>2, <3>3, UprootSame
  <2>3. Nat \subseteq N
    <3> HIDE DEF N
    <3> QED
      BY <2>1, <2>2, AllNaturals
  <2> HIDE DEF Same
  <2>4. \A i \in 0..n : Same(i)
    BY <1>1, <2>3
  <2> QED
    BY <2>4 DEF Same
<1>10. Stage(v[n], p, q, n)
  <2>1. n \in 0..Len(q)
    BY <1>1
  <2>2. CutsOut(v, GraphOf(p), SubSeq(q, 1, n))
    BY <1>2, <1>7 DEF G, s
  <2> QED
    BY <1>1, <2>1, <2>2, Stages
<1>11. u[n] = v[n]
  <2>1. n \in 0..n /\ Firsts(q, n) = Range(q) /\ DOMAIN q = 1..n
    BY <1>1 DEF Firsts, Range
  <2>2. u[n] \in Graphs /\ v[n] \in Graphs
    BY <1>8, <2>1
  <2>3. u[n].objs = v[n].objs /\ u[n].edges = v[n].edges
    BY <1>4, <1>9, <1>10, <2>1 DEF Stage
  <2>4. u[n].sub = v[n].sub
    <3>1. u[n].sub \in [Shapes -> Subgraphs] /\ v[n].sub \in [Shapes -> Subgraphs]
      BY <2>2, GraphFields
    <3>2. u[n].sub = r.sub
      BY <1>9, <2>1
    <3>3. ASSUME NEW c \in Shapes PROVE r.sub[c] = v[n].sub[c]
      <4>1. CASE c \in Range(q)
        <5>1. PICK i \in 1..n : c = q[i]
          BY <2>1, <4>1 DEF Firsts
        <5> QED
          BY <1>4, <1>10, <5>1 DEF Stage
      <4>2. CASE c \notin Range(q)
        BY <1>4, <1>10, <2>1, <4>2 DEF Stage
      <4> QED
        BY <4>1, <4>2
    <3> QED
      BY <3>1, <3>2, <3>3
  <2> QED
    BY <1>9, <2>1, <2>2, <2>3, <2>4, SameGraph
<1> QED
  BY <1>2, <1>5, <1>6, <1>7, <1>10, <1>11 DEF G, s

-----------------------------------------------------------------------------
(* Putting back                                                            *)

\* What Restore makes of g.
Restored(g, p, A, B, c, r) ==
    /\ r \in Graphs
    /\ Hangs(r, p, A \ {c}, B \ {c}) /\ Separate(p, A \ {c}, B \ {c})
    /\ Range(r.objs) = Range(g.objs) \cup Range(g.sub[c].objs)
    /\ Range(r.edges) = Range(g.edges) \cup Range(g.sub[c].edges)
    /\ \A d \in Shapes : r.sub[d] = IF d = c THEN Empty ELSE g.sub[d]

\* Those cut out with themselves are at a near.
Told(A, B) == (\A a \in A : IncludeSelf(a)) /\ (\A b \in B : ~IncludeSelf(b))

LEMMA JoinedRange ==
    ASSUME NEW X, NEW q \in Seq(X), NEW r \in Seq(X)
    PROVE  Range(Joined(q, r)) = Range(q) \cup Range(r)
BY RangeGrows DEF Joined

LEMMA RestoreIs ==
    ASSUME NObjects \in Nat,
           NEW p \in Trees, NEW A, NEW B, Separate(p, A, B), Told(A, B), NEW g \in Graphs,
           Hangs(g, p, A, B), NEW c \in Shapes
    PROVE  Restored(g, p, A, B, c, Restore(g, c))
<1> DEFINE into == IF IncludeSelf(c) THEN Root ELSE c
           r == Inject(g, into, c)
<1>1. /\ into \in Shapes \cup {Root} /\ (into = c \/ into = Root)
      /\ (c \in A => into = Root) /\ (c \in B => into = c)
  BY DEF Told
<1>2. r = Restore(g, c)
  BY DEF Restore
<1> HIDE DEF into
<1>3. Injected(g, into, c, r)
  BY <1>1, InjectIs
<1>4. Hangs(r, p, A \ {c}, B \ {c}) /\ Separate(p, A \ {c}, B \ {c})
  BY <1>1, InjectHangs
<1>5. /\ g.objs \in Seq(Shapes) /\ g.edges \in Seq(Listed)
      /\ g.sub[c].objs \in Seq(Shapes) /\ g.sub[c].edges \in Seq(Listed)
  BY GraphFields
<1>6. /\ Range(r.objs) = Range(g.objs) \cup Range(g.sub[c].objs)
      /\ Range(r.edges) = Range(g.edges) \cup Range(g.sub[c].edges)
  BY <1>3, <1>5, JoinedRange DEF Injected
<1> HIDE DEF r
<1>7. Restored(g, p, A, B, c, r)
  BY <1>3, <1>4, <1>6 DEF Restored, Injected
<1> QED
  BY <1>2, <1>7

\* Two graphs that hold the same and hang alike are the same once they are in order.
LEMMA SameInOrder ==
    ASSUME NObjects \in Nat,
           NEW p \in Trees, NEW A, NEW B, NEW g \in Graphs, NEW h \in Graphs,
           Hangs(g, p, A, B), Hangs(h, p, A, B), Range(g.objs) = Range(h.objs),
           Range(g.edges) = Range(h.edges), \A c \in Shapes : g.sub[c] = h.sub[c]
    PROVE  RestoreOrder(g) = RestoreOrder(h)
<1> DEFINE r == RestoreOrder(g)
           s == RestoreOrder(h)
<1>1. InOrder(g, r) /\ InOrder(h, s)
  BY RestoreOrderIs
<1> HIDE DEF r, s
<1>2. r \in Graphs /\ s \in Graphs
  BY <1>1 DEF InOrder
<1>3. r.objs = s.objs
  BY <1>1 DEF InOrder
<1>4. r.edges = s.edges
  BY <1>1 DEF InOrder, Sorted
<1>5. r.parent = s.parent
  <2>1. g.parent \in [Shapes -> Places] /\ h.parent \in [Shapes -> Places]
    BY GraphFields
  <2>2. \A o \in Shapes : g.parent[o] = h.parent[o]
    BY DEF Hangs
  <2>3. g.parent = h.parent
    BY <2>1, <2>2
  <2> QED
    BY <1>1, <2>3 DEF InOrder
<1>6. r.kids = s.kids
  <2>1. r.kids \in [Places -> Seq(Shapes)] /\ s.kids \in [Places -> Seq(Shapes)]
    BY <1>2, GraphFields
  <2>2. r.kids[Root] = s.kids[Root]
    <3>1. Range(g.kids[Root]) = Range(h.kids[Root])
      BY DEF Hangs
    <3> QED
      BY <1>1, <3>1, PlaceFacts DEF InOrder
  <2>3. \A x \in Shapes : g.kids[x] = h.kids[x] /\ g.kids[RootOf(x)] = h.kids[RootOf(x)]
    BY DEF Hangs
  <2>4. \A x \in Places : x = Root \/ x \in Shapes \/ \E c \in Shapes : x = RootOf(c)
    BY DEF Places, Roots
  <2>5. \A x \in Places : x # Root => r.kids[x] = s.kids[x]
    BY <1>1, <2>3, <2>4 DEF InOrder
  <2>6. \A x \in Places : r.kids[x] = s.kids[x]
    BY <2>2, <2>5
  <2> QED
    BY <2>1, <2>6
<1>7. r.sub = s.sub
  <2>1. g.sub \in [Shapes -> Subgraphs] /\ h.sub \in [Shapes -> Subgraphs]
    BY GraphFields
  <2> QED
    BY <1>1, <2>1 DEF InOrder
<1> QED
  BY <1>2, <1>3, <1>4, <1>5, <1>6, <1>7, SameGraph DEF r, s

\* The edges that are cut out with the i-th, inside it or leaving it.
Taken(p, q, i) == Listed \cap (Stay(p, q, i - 1) \ Stay(p, q, i))

LEMMA PartFacts ==
    ASSUME NObjects \in Nat,
           NEW p \in Trees, NEW q, Chosen(p, q), NEW i \in 1..Len(q)
    PROVE  /\ Range(PartOf(p, q, i).objs) = Contents(p, q, i)
           /\ Range(PartOf(p, q, i).edges) \cup Range(PartOf(p, q, i).external) = Taken(p, q, i)
           /\ PartOf(p, q, i).external \in Seq(Listed)
<1> DEFINE C == Contents(p, q, i)
           K == Stay(p, q, i - 1)
<1>1. C \subseteq Shapes
  BY ChosenFacts
<1>2. Stay(p, q, i) = K \cap Neither(C) /\ Both(C) \subseteq K
  BY GoneFacts
<1>3. Both(C) \cap Neither(C) = {}
  BY DEF Both, Neither
<1> HIDE DEF C, K
<1>4. Range(Those(Ordered(Shapes), C)) = C
  <2>1. Ordered(Shapes) \in Seq(Shapes) /\ Range(Ordered(Shapes)) = Shapes
    BY OrderedFacts
  <2>2. Range(Those(Ordered(Shapes), C)) = Range(Ordered(Shapes)) \cap C
    BY <2>1, ThoseFacts
  <2> QED
    BY <1>1, <2>1, <2>2
<1>5. /\ Range(Those(AllEdges, Both(C))) = Listed \cap Both(C)
      /\ Range(Those(AllEdges, K \ (Both(C) \cup Neither(C))))
           = Listed \cap (K \ (Both(C) \cup Neither(C)))
      /\ Those(AllEdges, K \ (Both(C) \cup Neither(C))) \in Seq(Listed)
  BY EdgesAreListed, ThoseFacts DEF Listed
<1>6. PartOf(p, q, i) = [objs |-> Those(Ordered(Shapes), C), edges |-> Those(AllEdges, Both(C)),
                         external |-> Those(AllEdges, K \ (Both(C) \cup Neither(C)))]
  BY DEF PartOf, C, K
<1>7. Taken(p, q, i) = Listed \cap (K \ (K \cap Neither(C)))
  BY <1>2 DEF Taken, K
<1>8. Range(PartOf(p, q, i).objs) = C
  BY <1>4, <1>6
<1>9. Range(PartOf(p, q, i).edges) = Listed \cap Both(C)
  BY <1>5, <1>6
<1>10. /\ PartOf(p, q, i).external \in Seq(Listed)
       /\ Range(PartOf(p, q, i).external) = Listed \cap (K \ (Both(C) \cup Neither(C)))
  <2> DEFINE X == K \ (Both(C) \cup Neither(C))
  <2> HIDE DEF X
  <2>1. PartOf(p, q, i).external = Those(AllEdges, X)
    BY <1>6 DEF X
  <2>2. Range(Those(AllEdges, X)) = Listed \cap X /\ Those(AllEdges, X) \in Seq(Listed)
    BY EdgesAreListed, ThoseFacts DEF Listed
  <2> QED
    BY <2>1, <2>2 DEF X
<1>11. (Listed \cap Both(C)) \cup (Listed \cap (K \ (Both(C) \cup Neither(C)))) = Taken(p, q, i)
  BY <1>2, <1>3, <1>7
<1> QED
  BY <1>8, <1>9, <1>10, <1>11 DEF C

\* What is there after the first m is what is there after the first j, and what has
\* been cut out in between.
LEMMA Between ==
    ASSUME NObjects \in Nat,
           NEW p \in Trees, NEW q, Chosen(p, q), NEW m \in 0..Len(q), NEW j \in m..Len(q)
    PROVE  /\ Shapes \ Gone(p, q, m) = (Shapes \ Gone(p, q, j))
                                         \cup UNION {Contents(p, q, i) : i \in (m + 1)..j}
           /\ Listed \cap Stay(p, q, m) = (Listed \cap Stay(p, q, j))
                                            \cup UNION {Taken(p, q, i) : i \in (m + 1)..j}
<1> DEFINE Conts(k) == UNION {Contents(p, q, i) : i \in (m + 1)..k}
           Takes(k) == UNION {Taken(p, q, i) : i \in (m + 1)..k}
           Tel(k) == /\ Shapes \ Gone(p, q, m) = (Shapes \ Gone(p, q, k)) \cup Conts(k)
                     /\ Listed \cap Stay(p, q, m) = (Listed \cap Stay(p, q, k)) \cup Takes(k)
           N == {k \in Nat : m + k <= Len(q) => Tel(m + k)}
<1>1. Len(q) \in Nat /\ m \in Nat
  BY ChosenFacts
<1>2. 0 \in N
  <2>1. (m + 1)..(m + 0) = {} /\ m + 0 = m
    BY <1>1
  <2> QED
    BY <2>1
<1>3. ASSUME NEW k \in Nat, k \in N PROVE k + 1 \in N
  <2> SUFFICES ASSUME m + (k + 1) <= Len(q) PROVE Tel(m + (k + 1))
    OBVIOUS
  <2> DEFINE a == m + k
             b == m + (k + 1)
  <2>1. /\ a \in Nat /\ b - 1 = a /\ b \in 1..Len(q) /\ a <= Len(q)
        /\ (m + 1)..b = (m + 1)..a \cup {b}
    BY <1>1
  <2>2. Tel(a)
    BY <1>3, <2>1
  <2> HIDE DEF a, b
  <2>3. /\ Gone(p, q, b) = Gone(p, q, a) \cup Contents(p, q, b)
        /\ Gone(p, q, a) \cap Contents(p, q, b) = {}
        /\ Gone(p, q, b) \subseteq Shapes
        /\ Stay(p, q, b) = Stay(p, q, a) \cap Neither(Contents(p, q, b))
    BY <2>1, GoneFacts
  <2>4. Taken(p, q, b) = Listed \cap (Stay(p, q, a) \ Stay(p, q, b))
    BY <2>1 DEF Taken
  <2>5. /\ Conts(b) = Conts(a) \cup Contents(p, q, b)
        /\ Takes(b) = Takes(a) \cup Taken(p, q, b)
    <3> DEFINE S == (m + 1)..a
    <3>1. (m + 1)..b = S \cup {b}
      BY <2>1
    <3> HIDE DEF S
    <3>2. Conts(b) = (UNION {Contents(p, q, i) : i \in S}) \cup Contents(p, q, b)
      BY <3>1
    <3>3. Takes(b) = (UNION {Taken(p, q, i) : i \in S}) \cup Taken(p, q, b)
      BY <3>1
    <3> QED
      BY <3>2, <3>3 DEF S
  <2>6. Shapes \ Gone(p, q, a) = (Shapes \ Gone(p, q, b)) \cup Contents(p, q, b)
    BY <2>3
  <2>7. Listed \cap Stay(p, q, a) = (Listed \cap Stay(p, q, b)) \cup Taken(p, q, b)
    BY <2>3, <2>4
  <2>8. Tel(b)
    <3> HIDE DEF Conts, Takes
    <3> QED
      BY <2>2, <2>5, <2>6, <2>7
  <2> QED
    BY <2>8 DEF b
<1>4. Nat \subseteq N
  <2> HIDE DEF N
  <2> QED
    BY <1>2, <1>3, AllNaturals
<1>5. j - m \in Nat /\ m + (j - m) = j /\ j <= Len(q)
  BY <1>1
<1> HIDE DEF Tel
<1>6. Tel(j)
  BY <1>4, <1>5
<1> QED
  BY <1>6 DEF Tel

\* Of the diagrams q, all of which have been cut out, those after the m-th up to the
\* j-th have been put back, with the edges that leave them.
Still(q, m, j) == {q[i] : i \in 1..m \cup (j + 1)..Len(q)}
Undone(w, p, q, m, j) ==
    /\ w \in Graphs
    /\ Hangs(w, p, Nearby(Still(q, m, j)), Others(Still(q, m, j)))
    /\ Range(w.objs) = (Shapes \ Gone(p, q, Len(q)))
                         \cup UNION {Contents(p, q, i) : i \in (m + 1)..j}
    /\ Range(w.edges) = (Listed \cap Stay(p, q, Len(q)))
                          \cup UNION {Taken(p, q, i) : i \in (m + 1)..j}
    /\ \A i \in 1..m \cup (j + 1)..Len(q) : w.sub[q[i]] = PartOf(p, q, i)
    /\ \A c \in Shapes \ Still(q, m, j) : w.sub[c] = Empty

\* What is there after n diagrams.
LEMMA StageHolds ==
    ASSUME NObjects \in Nat,
           NEW p \in Trees, NEW q, NEW n, NEW g, Stage(g, p, q, n)
    PROVE  /\ Range(g.objs) = Shapes \ Gone(p, q, n)
           /\ Range(g.edges) = Listed \cap Stay(p, q, n)
<1>1. Ordered(Shapes) \in Seq(Shapes) /\ Range(Ordered(Shapes)) = Shapes
  BY OrderedFacts
<1> DEFINE S == Shapes \ Gone(p, q, n)
<1> HIDE DEF S
<1>2. Range(Those(Ordered(Shapes), S)) = Range(Ordered(Shapes)) \cap S
  BY <1>1, ThoseFacts
<1>3. Range(Those(AllEdges, Stay(p, q, n))) = Listed \cap Stay(p, q, n)
  BY EdgesAreListed, ThoseFacts DEF Listed
<1>4. g.objs = Those(Ordered(Shapes), S) /\ g.edges = Those(AllEdges, Stay(p, q, n))
  BY DEF Stage, S
<1>5. Shapes \cap S = S
  BY DEF S
<1>6. Range(g.objs) = S
  BY <1>1, <1>2, <1>4, <1>5
<1>7. Range(g.edges) = Listed \cap Stay(p, q, n)
  BY <1>3, <1>4
<1> QED
  BY <1>6, <1>7 DEF S

LEMMA UndoneStart ==
    ASSUME NObjects \in Nat,
           NEW p \in Trees, NEW q, Chosen(p, q), NEW m \in 0..Len(q), NEW g,
           Stage(g, p, q, Len(q))
    PROVE  Undone(g, p, q, m, m)
<1>1. Len(q) \in Nat /\ m \in Nat /\ 1..m \cup (m + 1)..Len(q) = 1..Len(q) /\ (m + 1)..m = {}
  BY ChosenFacts
<1>2. Still(q, m, m) = Firsts(q, Len(q))
  BY <1>1 DEF Still, Firsts
<1>3. /\ UNION {Contents(p, q, i) : i \in (m + 1)..m} = {}
      /\ UNION {Taken(p, q, i) : i \in (m + 1)..m} = {}
  BY <1>1
<1>4. /\ g \in Graphs /\ Hangs(g, p, Nearby(Still(q, m, m)), Others(Still(q, m, m)))
      /\ \A c \in Shapes \ Still(q, m, m) : g.sub[c] = Empty
  BY <1>2 DEF Stage
<1>5. \A i \in 1..m \cup (m + 1)..Len(q) : g.sub[q[i]] = PartOf(p, q, i)
  BY <1>1 DEF Stage
<1>6. /\ Range(g.objs) = Shapes \ Gone(p, q, Len(q))
      /\ Range(g.edges) = Listed \cap Stay(p, q, Len(q))
  BY StageHolds
<1> QED
  BY <1>3, <1>4, <1>5, <1>6 DEF Undone

LEMMA UndoneStep ==
    ASSUME NObjects \in Nat,
           NEW p \in Trees, NEW q, Chosen(p, q), NEW m \in 0..Len(q),
           NEW j \in (m + 1)..Len(q), NEW w, Undone(w, p, q, m, j - 1)
    PROVE  Undone(PutBack(w, q[j]), p, q, m, j)
<1> DEFINE c == q[j]
           S == Still(q, m, j - 1)
           part == PartOf(p, q, j)
           r == Restore(w, c)
           s == PutBack(w, c)
<1>1. /\ m \in Nat /\ j \in Nat /\ Len(q) \in Nat /\ j \in 1..Len(q)
      /\ (j - 1) + 1 = j /\ (m + 1)..j = (m + 1)..(j - 1) \cup {j}
      /\ 1..m \cup j..Len(q) = (1..m \cup (j + 1)..Len(q)) \cup {j}
      /\ j \notin 1..m \cup (j + 1)..Len(q)
      /\ \A i \in 1..m \cup j..Len(q) : i \in 1..Len(q)
  BY ChosenFacts
<1>2. /\ c \in Shapes
      /\ \A i \in 1..m \cup (j + 1)..Len(q) : i \in 1..m \cup j..Len(q) /\ q[i] # c
  BY <1>1, ChosenFacts
<1>3. S = Still(q, m, j) \cup {c} /\ c \notin Still(q, m, j)
  BY <1>1, <1>2 DEF Still
<1>4. \A x \in S : x \in Shapes /\ (IncludeSelf(x) => p[x] = Root)
  BY <1>1, ChosenFacts DEF Still
<1>5. Separate(p, Nearby(S), Others(S)) /\ Told(Nearby(S), Others(S))
  BY <1>4 DEF Separate, Told, Nearby, Others, Tops
<1>6. /\ w \in Graphs /\ Hangs(w, p, Nearby(S), Others(S)) /\ w.sub[c] = part
      /\ \A i \in 1..m \cup (j + 1)..Len(q) : w.sub[q[i]] = PartOf(p, q, i)
      /\ \A x \in Shapes \ S : w.sub[x] = Empty
  BY <1>1, <1>2 DEF Undone
<1> HIDE DEF S, part, r, c
<1>7. Restored(w, p, Nearby(S), Others(S), c, r)
  BY <1>2, <1>5, <1>6, RestoreIs DEF r
<1>8. part.external \in Seq(Listed)
  BY <1>1, PartFacts DEF part
<1>9. Joins(r, part.external, s)
  BY <1>6, <1>7, <1>8, WithEdgesIs DEF PutBack, Restored, r
<1> HIDE DEF s
<1>10. s \in Graphs
  BY <1>9 DEF Joins
<1>11. Hangs(s, p, Nearby(Still(q, m, j)), Others(Still(q, m, j)))
  <2>1. /\ Nearby(Still(q, m, j)) = Nearby(S) \ {c}
        /\ Others(Still(q, m, j)) = Others(S) \ {c}
    BY <1>3 DEF Nearby, Others
  <2>2. Hangs(r, p, Nearby(S) \ {c}, Others(S) \ {c})
    BY <1>7 DEF Restored
  <2>3. s.parent = r.parent /\ s.kids = r.kids
    BY <1>9 DEF Joins
  <2> QED
    BY <2>1, <2>2, <2>3, HangsSame
<1>12. Range(s.objs) = Range(w.objs) \cup Contents(p, q, j)
  <2>1. Range(part.objs) = Contents(p, q, j)
    BY <1>1, PartFacts DEF part
  <2> QED
    BY <1>6, <1>7, <1>9, <2>1 DEF Joins, Restored
<1>13. Range(s.edges) = Range(w.edges) \cup Taken(p, q, j)
  <2>1. Range(part.edges) \cup Range(part.external) = Taken(p, q, j)
    BY <1>1, PartFacts DEF part
  <2>2. r.edges \in Seq(Listed)
    BY <1>7, GraphFields DEF Restored
  <2>3. Range(s.edges) = Range(r.edges) \cup Range(part.external)
    BY <1>8, <1>9, <2>2, JoinedRange DEF Joins
  <2> QED
    BY <1>6, <1>7, <2>1, <2>3 DEF Restored
<1>14. \A x \in Shapes : s.sub[x] = IF x = c THEN Empty ELSE w.sub[x]
  BY <1>7, <1>9 DEF Joins, Restored
<1>15. \A i \in 1..m \cup (j + 1)..Len(q) : s.sub[q[i]] = PartOf(p, q, i)
  <2> TAKE i \in 1..m \cup (j + 1)..Len(q)
  <2>1. q[i] \in Shapes /\ q[i] # c
    BY <1>1, <1>2, ChosenFacts
  <2> QED
    BY <1>6, <1>14, <2>1
<1>16. \A x \in Shapes \ Still(q, m, j) : s.sub[x] = Empty
  BY <1>3, <1>6, <1>14
<1>17. Range(s.objs) = (Shapes \ Gone(p, q, Len(q)))
                         \cup UNION {Contents(p, q, i) : i \in (m + 1)..j}
  <2> DEFINE T == (m + 1)..(j - 1)
  <2>1. Range(w.objs) = (Shapes \ Gone(p, q, Len(q))) \cup UNION {Contents(p, q, i) : i \in T}
    BY DEF Undone
  <2>2. (m + 1)..j = T \cup {j}
    BY <1>1
  <2> HIDE DEF T
  <2>3. UNION {Contents(p, q, i) : i \in (m + 1)..j}
          = (UNION {Contents(p, q, i) : i \in T}) \cup Contents(p, q, j)
    BY <2>2
  <2> QED
    BY <1>12, <2>1, <2>3
<1>18. Range(s.edges) = (Listed \cap Stay(p, q, Len(q)))
                          \cup UNION {Taken(p, q, i) : i \in (m + 1)..j}
  <2> DEFINE T == (m + 1)..(j - 1)
  <2>1. Range(w.edges) = (Listed \cap Stay(p, q, Len(q))) \cup UNION {Taken(p, q, i) : i \in T}
    BY DEF Undone
  <2>2. (m + 1)..j = T \cup {j}
    BY <1>1
  <2> HIDE DEF T
  <2>3. UNION {Taken(p, q, i) : i \in (m + 1)..j}
          = (UNION {Taken(p, q, i) : i \in T}) \cup Taken(p, q, j)
    BY <2>2
  <2> QED
    BY <1>13, <2>1, <2>3
<1> QED
  BY <1>10, <1>11, <1>15, <1>16, <1>17, <1>18 DEF Undone, s, c

\* Putting the last ones back gives, in order, what cutting out the others gives.
LEMMA PutBackUndoes ==
    ASSUME NObjects \in Nat,
           NEW p \in Trees, NEW q, Chosen(p, q), NEW m \in 0..Len(q), NEW g,
           Stage(g, p, q, Len(q))
    PROVE  /\ PutAllBack(g, SubSeq(q, m + 1, Len(q))) \in Graphs
           /\ RestoreOrder(PutAllBack(g, SubSeq(q, m + 1, Len(q))))
                = RestoreOrder(CutAll(GraphOf(p), SubSeq(q, 1, m)))
<1> DEFINE n == Len(q)
           r == SubSeq(q, m + 1, n)
           h == CutAll(GraphOf(p), SubSeq(q, 1, m))
<1>1. q \in Seq(Shapes) /\ n \in Nat /\ m \in Nat /\ m <= n
  BY ChosenFacts
<1>2. r \in Seq(Shapes) /\ Len(r) = n - m /\ \A i \in 1..(n - m) : r[i] = q[m + i]
  BY <1>1
<1>3. g \in Graphs
  BY DEF Stage
<1> HIDE DEF r, n
<1>4. PICK w : PutsBack(w, g, r) /\ PutAllBack(g, r) = w[Len(r)]
  BY <1>2, <1>3, PutBackChain
<1>5. Undone(w[n - m], p, q, m, n)
  <2> DEFINE N == {i \in Nat : m + i <= n => Undone(w[i], p, q, m, m + i)}
  <2>1. 0 \in N
    <3>1. w[0] = g /\ m + 0 = m
      BY <1>1, <1>4 DEF PutsBack
    <3>2. Undone(g, p, q, m, m)
      BY UndoneStart DEF n
    <3> QED
      BY <3>1, <3>2
  <2>2. ASSUME NEW i \in Nat, i \in N PROVE i + 1 \in N
    <3> SUFFICES ASSUME m + (i + 1) <= n PROVE Undone(w[i + 1], p, q, m, m + (i + 1))
      OBVIOUS
    <3> DEFINE j == m + (i + 1)
    <3>1. i + 1 \in 1..(n - m) /\ (i + 1) - 1 = i /\ j - 1 = m + i /\ m + i <= n
          /\ j \in (m + 1)..n
      BY <1>1
    <3>2. w[i + 1] = PutBack(w[i], r[i + 1])
      BY <1>2, <1>4, <3>1 DEF PutsBack
    <3>3. r[i + 1] = q[j] /\ Undone(w[i], p, q, m, j - 1)
      BY <1>2, <2>2, <3>1
    <3> HIDE DEF j
    <3> QED
      BY <3>1, <3>2, <3>3, UndoneStep DEF n, j
  <2>3. Nat \subseteq N
    <3> HIDE DEF N
    <3> QED
      BY <2>1, <2>2, AllNaturals
  <2>4. n - m \in Nat /\ m + (n - m) = n /\ n <= n
    BY <1>1
  <2> QED
    BY <2>3, <2>4
<1>6. Stage(h, p, q, m)
  BY <1>1, Stages
<1> DEFINE k == w[n - m]
<1> HIDE DEF h, k
<1>7. /\ k \in Graphs /\ h \in Graphs
      /\ Hangs(h, p, Nearby(Firsts(q, m)), Others(Firsts(q, m)))
      /\ \A i \in 1..m : h.sub[q[i]] = PartOf(p, q, i)
      /\ \A c \in Shapes \ Firsts(q, m) : h.sub[c] = Empty
      /\ Range(h.objs) = Shapes \ Gone(p, q, m) /\ Range(h.edges) = Listed \cap Stay(p, q, m)
  BY <1>5, <1>6, StageHolds DEF Stage, Undone, k
<1>8. 1..m \cup (n + 1)..Len(q) = 1..m
  BY <1>1 DEF n
<1>9. Still(q, m, n) = Firsts(q, m)
  BY <1>8 DEF Still, Firsts
<1>10. /\ Hangs(k, p, Nearby(Firsts(q, m)), Others(Firsts(q, m)))
       /\ \A i \in 1..m : k.sub[q[i]] = PartOf(p, q, i)
       /\ \A c \in Shapes \ Firsts(q, m) : k.sub[c] = Empty
  BY <1>5, <1>8, <1>9 DEF Undone, k
<1>11. Range(k.objs) = Range(h.objs) /\ Range(k.edges) = Range(h.edges)
  <2>1. n \in m..Len(q)
    BY <1>1 DEF n
  <2>2. /\ Shapes \ Gone(p, q, m) = (Shapes \ Gone(p, q, n))
                                      \cup UNION {Contents(p, q, i) : i \in (m + 1)..n}
        /\ Listed \cap Stay(p, q, m) = (Listed \cap Stay(p, q, n))
                                         \cup UNION {Taken(p, q, i) : i \in (m + 1)..n}
    BY <2>1, Between
  <2> QED
    BY <1>5, <1>7, <2>2 DEF Undone, k, n
<1>12. \A c \in Shapes : k.sub[c] = h.sub[c]
  BY <1>7, <1>10 DEF Firsts
<1>13. RestoreOrder(k) = RestoreOrder(h)
  BY <1>7, <1>10, <1>11, <1>12, SameInOrder
<1> QED
  BY <1>2, <1>4, <1>7, <1>13 DEF h, k, r, n

-----------------------------------------------------------------------------
(* Nothing is lost                                                         *)

\* With the edges ext, the graph and what has been cut out of it are what was given.
Apart(g, p, A, B, ext) ==
    /\ g \in Graphs /\ Separate(p, A, B) /\ Hangs(g, p, A, B)
    /\ ObjsIn(g) = Shapes /\ EdgesIn(g) \cup ext = Listed
    /\ \A c \in Shapes : c \notin A /\ c \notin B => g.sub[c] = Empty

LEMMA ExtractApart ==
    ASSUME NObjects \in Nat,
           NEW p \in Trees, NEW A, NEW B, NEW ext, NEW g, Apart(g, p, A, B, ext),
           NEW c \in Shapes, c \notin A, c \notin B, NEW self \in BOOLEAN,
           self => p[c] = Root, NEW r, r = Extract(g, c, self)
    PROVE  /\ self => Apart(r, p, A \cup {c}, B, ext \cup Range(r.sub[c].external))
           /\ ~self => Apart(r, p, A, B \cup {c}, ext \cup Range(r.sub[c].external))
           /\ r.sub[c].external \in Seq(Listed)
           /\ \A d \in Shapes : d # c => r.sub[d] = g.sub[d]
<1> DEFINE S == IF self THEN A \cup {c} ELSE A
           T == IF self THEN B ELSE B \cup {c}
<1>1. /\ g \in Graphs /\ Separate(p, A, B) /\ Hangs(g, p, A, B)
      /\ ObjsIn(g) = Shapes /\ EdgesIn(g) \cup ext = Listed
      /\ \A d \in Shapes : d \notin A /\ d \notin B => g.sub[d] = Empty
  BY DEF Apart
<1>2. g.sub[c] = Empty
  BY <1>1
<1>3. /\ ObjsIn(Extract(g, c, self)) = ObjsIn(g)
      /\ EdgesIn(Extract(g, c, self))
           \cup Range(Extract(g, c, self).sub[c].external) = EdgesIn(g)
  BY <1>1, <1>2, ExtractHolds
<1>4. ObjsIn(r) = ObjsIn(g) /\ EdgesIn(r) \cup Range(r.sub[c].external) = EdgesIn(g)
  BY <1>3
<1>5. Extracted(g, c, self, r)
  BY <1>1, ExtractIs
<1>6. r \in Graphs /\ \A d \in Shapes : d # c => r.sub[d] = g.sub[d]
  BY <1>5 DEF Extracted
<1>7. Hangs(r, p, S, T) /\ Separate(p, S, T)
  <2>1. CASE self
    <3>1. self = TRUE
      BY <2>1
    <3>2. Hangs(Extract(g, c, TRUE), p, A \cup {c}, B) /\ Separate(p, A \cup {c}, B)
      BY <1>1, <2>1, ExtractHangs
    <3> QED
      BY <3>1, <3>2
  <2>2. CASE ~self
    <3>1. self = FALSE
      BY <2>2
    <3>2. Hangs(Extract(g, c, FALSE), p, A, B \cup {c}) /\ Separate(p, A, B \cup {c})
      BY <1>1, ExtractHangs
    <3> QED
      BY <3>1, <3>2
  <2> QED
    BY <2>1, <2>2
<1>8. r.sub[c].external \in Seq(Listed)
  BY <1>6, GraphFields
<1>9. \A d \in Shapes : d \notin S /\ d \notin T => d # c /\ d \notin A /\ d \notin B
  OBVIOUS
<1> HIDE DEF S, T
<1>10. \A d \in Shapes : d \notin S /\ d \notin T => r.sub[d] = Empty
  BY <1>1, <1>6, <1>9
<1>11. EdgesIn(r) \cup (ext \cup Range(r.sub[c].external)) = Listed
  BY <1>1, <1>4
<1>12. Apart(r, p, S, T, ext \cup Range(r.sub[c].external))
  BY <1>1, <1>4, <1>6, <1>7, <1>10, <1>11 DEF Apart
<1>13. (self => S = A \cup {c} /\ T = B) /\ (~self => S = A /\ T = B \cup {c})
  BY DEF S, T
<1> QED
  BY <1>6, <1>8, <1>12, <1>13

LEMMA InjectApart ==
    ASSUME NObjects \in Nat,
           NEW p \in Trees, NEW A, NEW B, NEW ext, NEW g, Apart(g, p, A, B, ext),
           NEW c \in Shapes, NEW into \in Shapes \cup {Root},
           into = c \/ into = Root, c \in A => into = Root, c \in B => into = c
    PROVE  Apart(Inject(g, into, c), p, A \ {c}, B \ {c}, ext)
<1> DEFINE r == Inject(g, into, c)
<1>1. /\ g \in Graphs /\ Separate(p, A, B) /\ Hangs(g, p, A, B)
      /\ ObjsIn(g) = Shapes /\ EdgesIn(g) \cup ext = Listed
      /\ \A d \in Shapes : d \notin A /\ d \notin B => g.sub[d] = Empty
  BY DEF Apart
<1>2. Hangs(r, p, A \ {c}, B \ {c}) /\ Separate(p, A \ {c}, B \ {c})
  BY <1>1, InjectHangs
<1>3. /\ ObjsIn(r) = ObjsIn(g) /\ EdgesIn(r) = EdgesIn(g)
      /\ \A d \in Shapes : r.sub[d] = IF d = c THEN Empty ELSE g.sub[d]
  BY <1>1, InjectHolds
<1>4. r \in Graphs
  BY <1>1, InjectIs DEF Injected
<1> HIDE DEF r
<1>5. \A d \in Shapes : d \notin A \ {c} /\ d \notin B \ {c} => r.sub[d] = Empty
  BY <1>1, <1>3
<1>6. Apart(r, p, A \ {c}, B \ {c}, ext)
  BY <1>1, <1>2, <1>3, <1>4, <1>5 DEF Apart
<1> QED
  BY <1>6 DEF r

\* The order of the graph does not matter, nor do edges that are added.
LEMMA OrderApart ==
    ASSUME NObjects \in Nat,
           NEW p \in Trees, NEW A, NEW B, NEW ext, NEW g, Apart(g, p, A, B, ext)
    PROVE  /\ Apart(RestoreOrder(g), p, A, B, ext)
           /\ \A q \in Seq(Listed) : Apart(WithEdges(g, q), p, A, B, ext \ Range(q))
<1>1. /\ g \in Graphs /\ Separate(p, A, B) /\ Hangs(g, p, A, B)
      /\ ObjsIn(g) = Shapes /\ EdgesIn(g) \cup ext = Listed
      /\ \A d \in Shapes : d \notin A /\ d \notin B => g.sub[d] = Empty
  BY DEF Apart
<1>2. Apart(RestoreOrder(g), p, A, B, ext)
  <2> DEFINE r == RestoreOrder(g)
  <2>1. InOrder(g, r)
    BY <1>1, RestoreOrderIs
  <2>2. /\ ObjsIn(r) = ObjsIn(g) /\ EdgesIn(r) = EdgesIn(g)
        /\ Range(r.kids[Root]) = Range(g.kids[Root])
    BY <1>1, RestoreOrderHolds
  <2> HIDE DEF r
  <2>3. /\ r \in Graphs /\ r.parent = g.parent /\ r.sub = g.sub
        /\ \A x \in Places : x # Root => r.kids[x] = g.kids[x]
    BY <2>1 DEF InOrder
  <2>4. Hangs(r, p, A, B)
    BY <1>1, <2>2, <2>3, HangsSame
  <2>5. Apart(r, p, A, B, ext)
    BY <1>1, <2>2, <2>3, <2>4 DEF Apart
  <2> QED
    BY <2>5 DEF r
<1>3. ASSUME NEW q \in Seq(Listed) PROVE Apart(WithEdges(g, q), p, A, B, ext \ Range(q))
  <2> DEFINE r == WithEdges(g, q)
  <2>1. Joins(g, q, r)
    BY <1>1, WithEdgesIs
  <2>2. ObjsIn(r) = ObjsIn(g) /\ EdgesIn(r) = EdgesIn(g) \cup Range(q)
    BY <1>1, WithEdgesHolds
  <2> HIDE DEF r
  <2>3. r \in Graphs /\ r.parent = g.parent /\ r.sub = g.sub /\ r.kids = g.kids
    BY <2>1 DEF Joins
  <2>4. Hangs(r, p, A, B)
    BY <1>1, <2>3, HangsSame
  <2>5. Range(q) \subseteq Listed
    BY RangeGrows
  <2>6. EdgesIn(r) \cup (ext \ Range(q)) = Listed
    BY <1>1, <2>2, <2>5
  <2>7. Apart(r, p, A, B, ext \ Range(q))
    BY <1>1, <2>2, <2>3, <2>4, <2>6 DEF Apart
  <2> QED
    BY <2>7 DEF r
<1> QED
  BY <1>2, <1>3

LEMMA ReverseFacts ==
    ASSUME NEW X, NEW q \in Seq(X)
    PROVE  Reverse(q) \in Seq(X) /\ Range(Reverse(q)) = Range(q)
<1> DEFINE n == Len(q)
           r == [i \in 1..n |-> q[(n - i) + 1]]
<1>1. n \in Nat /\ DOMAIN q = 1..n /\ \A i \in 1..n : q[i] \in X
  OBVIOUS
<1>2. Reverse(q) = r
  BY DEF Reverse
<1>3. \A i \in 1..n : (n - i) + 1 \in 1..n /\ (n - ((n - i) + 1)) + 1 = i
  BY <1>1
<1>4. r \in [1..n -> X]
  BY <1>1, <1>3
<1>5. r \in Seq(X) /\ DOMAIN r = 1..n
  BY <1>1, <1>4, SeqDef
<1>6. \A i \in 1..n : r[i] = q[(n - i) + 1] /\ r[(n - i) + 1] = q[i]
  BY <1>3
<1> HIDE DEF r, n
<1>7. Range(r) = Range(q)
  BY <1>1, <1>3, <1>5, <1>6 DEF Range
<1> QED
  BY <1>2, <1>5, <1>7

\* What a layout does to the order of the graph.
Shuffled(g, r) ==
    /\ r \in Graphs /\ Range(r.objs) = Range(g.objs) /\ Range(r.edges) = Range(g.edges)
    /\ r.parent = g.parent /\ r.sub = g.sub
    /\ \A x \in Places : x # Root => r.kids[x] = g.kids[x]
    /\ Range(r.kids[Root]) = Range(g.kids[Root])

LEMMA ShuffledApart ==
    ASSUME NObjects \in Nat,
           NEW p \in Trees, NEW A, NEW B, NEW ext, NEW g, Apart(g, p, A, B, ext),
           NEW r, Shuffled(g, r)
    PROVE  Apart(r, p, A, B, ext)
<1>1. Hangs(r, p, A, B)
  BY HangsSame DEF Apart, Shuffled
<1>2. ObjsIn(r) = ObjsIn(g) /\ EdgesIn(r) = EdgesIn(g)
  BY DEF Shuffled, ObjsIn, EdgesIn
<1> QED
  BY <1>1, <1>2 DEF Apart, Shuffled

LEMMA ContentApart ==
    ASSUME NObjects \in Nat,
           NEW p \in Trees, NEW A, NEW B, NEW ext, NEW g, Apart(g, p, A, B, ext),
           NEW c \in Shapes, c \notin A, c \notin B, NEW r, r = Extract(g, c, FALSE)
    PROVE  /\ Apart(r, p, A, B \cup {c}, ext \cup Range(r.sub[c].external))
           /\ r.sub[c].external \in Seq(Listed)
<1>1. FALSE \in BOOLEAN
  OBVIOUS
<1> QED
  BY <1>1, ExtractApart

LEMMA SelfApart ==
    ASSUME NObjects \in Nat,
           NEW p \in Trees, NEW A, NEW B, NEW ext, NEW g, Apart(g, p, A, B, ext),
           NEW c \in Shapes, c \notin A, c \notin B, p[c] = Root,
           NEW r, r = Extract(g, c, TRUE)
    PROVE  /\ Apart(r, p, A \cup {c}, B, ext \cup Range(r.sub[c].external))
           /\ r.sub[c].external \in Seq(Listed)
<1>1. TRUE \in BOOLEAN
  OBVIOUS
<1> QED
  BY <1>1, ExtractApart

LEMMA CutApart ==
    ASSUME NObjects \in Nat,
           NEW p \in Trees, NEW S \in SUBSET Shapes, NEW ext, NEW g,
           Apart(g, p, Nearby(S), Others(S), ext), NEW c \in Shapes, c \notin S,
           IncludeSelf(c) => p[c] = Root, NEW r, r = CutOut(g, c)
    PROVE  /\ Apart(r, p, Nearby(S \cup {c}), Others(S \cup {c}),
                    ext \cup Range(r.sub[c].external))
           /\ r.sub[c].external \in Seq(Listed)
<1> DEFINE self == IncludeSelf(c)
           A == Nearby(S)
           B == Others(S)
           x == ext \cup Range(r.sub[c].external)
<1>1. self \in BOOLEAN /\ c \notin A /\ c \notin B
  BY DEF Nearby, Others, IncludeSelf
<1>2. r = Extract(g, c, self)
  BY DEF CutOut
<1>3. /\ self => Nearby(S \cup {c}) = A \cup {c} /\ Others(S \cup {c}) = B
      /\ ~self => Nearby(S \cup {c}) = A /\ Others(S \cup {c}) = B \cup {c}
  BY DEF Nearby, Others
<1>4. /\ self => Apart(r, p, A \cup {c}, B, x)
      /\ ~self => Apart(r, p, A, B \cup {c}, x)
      /\ r.sub[c].external \in Seq(Listed)
  <2>1. self => p[c] = Root
    OBVIOUS
  <2>2. Apart(g, p, A, B, ext)
    OBVIOUS
  <2>3. CASE self
    <3>1. self = TRUE
      BY <1>1, <2>3
    <3>2. r = Extract(g, c, TRUE)
      BY <1>2, <3>1
    <3> HIDE DEF self, A, B
    <3> QED
      BY <1>1, <2>1, <2>2, <2>3, <3>2, SelfApart
  <2>4. CASE ~self
    <3>1. self = FALSE
      BY <1>1, <2>4
    <3>2. r = Extract(g, c, FALSE)
      BY <1>2, <3>1
    <3> HIDE DEF self, A, B
    <3> QED
      BY <1>1, <2>2, <2>4, <3>2, ContentApart
  <2> QED
    BY <2>3, <2>4
<1> HIDE DEF self, A, B, x
<1>5. Apart(r, p, Nearby(S \cup {c}), Others(S \cup {c}), x)
  BY <1>3, <1>4
<1> QED
  BY <1>4, <1>5 DEF x

LEMMA RestoreApart ==
    ASSUME NObjects \in Nat,
           NEW p \in Trees, NEW S \in SUBSET Shapes, NEW ext, NEW g,
           Apart(g, p, Nearby(S), Others(S), ext), NEW c \in Shapes
    PROVE  Apart(Restore(g, c), p, Nearby(S \ {c}), Others(S \ {c}), ext)
<1> DEFINE into == IF IncludeSelf(c) THEN Root ELSE c
           A == Nearby(S)
           B == Others(S)
<1>1. /\ into \in Shapes \cup {Root} /\ (into = c \/ into = Root)
      /\ (c \in A => into = Root) /\ (c \in B => into = c)
  BY DEF Nearby, Others
<1>2. Nearby(S \ {c}) = A \ {c} /\ Others(S \ {c}) = B \ {c}
  BY DEF Nearby, Others
<1>3. Restore(g, c) = Inject(g, into, c)
  BY DEF Restore
<1> HIDE DEF into, A, B
<1>4. Apart(g, p, A, B, ext)
  BY DEF A, B
<1>5. Apart(Inject(g, into, c), p, A \ {c}, B \ {c}, ext)
  BY <1>1, <1>4, InjectApart
<1> QED
  BY <1>2, <1>3, <1>5

LEMMA RestoreAllApart ==
    ASSUME NObjects \in Nat,
           NEW p \in Trees, NEW S \in SUBSET Shapes, NEW ext, NEW g,
           Apart(g, p, Nearby(S), Others(S), ext), NEW q \in Seq(Shapes), S \subseteq Range(q)
    PROVE  Apart(RestoreAll(g, q), p, {}, {}, ext)
<1> DEFINE n == Len(q)
           Left(i) == S \ Firsts(q, i)
<1>1. n \in Nat /\ DOMAIN q = 1..n /\ \A i \in 1..n : q[i] \in Shapes
  OBVIOUS
<1>2. PICK w : Restores(w, g, q) /\ RestoreAll(g, q) = w[n]
  BY RestoreChain DEF Apart
<1> DEFINE N == {i \in Nat : i <= n => Apart(w[i], p, Nearby(Left(i)), Others(Left(i)), ext)}
<1>3. 0 \in N
  <2>1. 1..0 = {}
    OBVIOUS
  <2>2. Left(0) = S
    BY <2>1 DEF Firsts
  <2>3. w[0] = g
    BY <1>2 DEF Restores
  <2> HIDE DEF Left
  <2> QED
    BY <2>2, <2>3
<1>4. ASSUME NEW i \in Nat, i \in N PROVE i + 1 \in N
  <2> SUFFICES ASSUME i + 1 <= n
               PROVE  Apart(w[i + 1], p, Nearby(Left(i + 1)), Others(Left(i + 1)), ext)
    OBVIOUS
  <2>1. i + 1 \in 1..n /\ (i + 1) - 1 = i /\ i <= n /\ 1..(i + 1) = 1..i \cup {i + 1}
    BY <1>1
  <2>2. w[i + 1] = Restore(w[i], q[i + 1])
    BY <1>2, <2>1 DEF Restores
  <2>3. Left(i + 1) = Left(i) \ {q[i + 1]}
    BY <2>1 DEF Firsts
  <2>4. Left(i) \in SUBSET Shapes /\ q[i + 1] \in Shapes
    BY <1>1, <2>1
  <2>5. Apart(w[i], p, Nearby(Left(i)), Others(Left(i)), ext)
    BY <1>4, <2>1
  <2> HIDE DEF Left
  <2> QED
    BY <2>2, <2>3, <2>4, <2>5, RestoreApart
<1>5. Nat \subseteq N
  <2> HIDE DEF N
  <2> QED
    BY <1>3, <1>4, AllNaturals
<1>6. Left(n) = {} /\ Nearby({}) = {} /\ Others({}) = {}
  BY <1>1 DEF Firsts, Range, Nearby, Others
<1>7. Apart(w[n], p, Nearby(Left(n)), Others(Left(n)), ext)
  BY <1>1, <1>5
<1> QED
  BY <1>2, <1>6, <1>7

\* What was given is in order.
LEMMA GivenInOrder ==
    ASSUME NObjects \in Nat,
           NEW p \in Trees PROVE RestoreOrder(GraphOf(p)) = GraphOf(p)
<1> DEFINE g == GraphOf(p)
           r == RestoreOrder(g)
<1>1. /\ g \in Graphs /\ g.objs = Ordered(Shapes) /\ g.edges = AllEdges
      /\ g.kids[Root] = Kids(p, Root)
  BY GraphOfTree
<1> HIDE DEF g
<1>2. InOrder(g, r)
  BY <1>1, RestoreOrderIs
<1> HIDE DEF r
<1>3. r.objs = g.objs
  <2>1. Range(Ordered(Shapes)) = Shapes
    BY OrderedFacts
  <2> QED
    BY <1>1, <1>2, <2>1 DEF InOrder
<1>4. r.edges = g.edges
  <2>1. Sorted(AllEdges) = AllEdges
    BY EdgesAreListed, OrderedFacts DEF Listed
  <2> QED
    BY <1>1, <1>2, <2>1 DEF InOrder
<1>5. r.kids = g.kids
  <2>1. r.kids \in [Places -> Seq(Shapes)] /\ g.kids \in [Places -> Seq(Shapes)]
    BY <1>1, <1>2, GraphFields DEF InOrder
  <2>2. Range(Kids(p, Root)) = {o \in Shapes : p[o] = Root}
    BY TreeFacts
  <2>3. Ordered(Range(Kids(p, Root))) = Kids(p, Root)
    BY <2>2 DEF Kids
  <2>4. \A x \in Places : r.kids[x] = g.kids[x]
    BY <1>1, <1>2, <2>3 DEF InOrder
  <2> QED
    BY <2>1, <2>4
<1>6. r.parent = g.parent /\ r.sub = g.sub /\ r \in Graphs
  BY <1>2 DEF InOrder
<1> QED
  BY <1>1, <1>3, <1>4, <1>5, <1>6, SameGraph DEF g, r

\* When everything has been put back, with its edges, the order is all that is missing.
LEMMA WholeIsGiven ==
    ASSUME NObjects \in Nat,
           NEW p \in Trees, NEW ext, NEW g, Apart(g, p, {}, {}, ext),
           NEW q \in Seq(Listed), Range(q) = ext
    PROVE  RestoreOrder(WithEdges(g, q)) = GraphOf(p)
<1> DEFINE r == WithEdges(g, q)
           G == GraphOf(p)
<1>1. Apart(r, p, {}, {}, ext \ Range(q))
  BY OrderApart
<1> HIDE DEF r
<1>2. /\ r \in Graphs /\ Hangs(r, p, {}, {}) /\ ObjsIn(r) = Shapes
      /\ EdgesIn(r) = Listed /\ \A c \in Shapes : r.sub[c] = Empty
  BY <1>1 DEF Apart
<1>3. /\ G \in Graphs /\ Hangs(G, p, {}, {}) /\ G.objs = Ordered(Shapes) /\ G.edges = AllEdges
      /\ \A c \in Shapes : G.sub[c] = Empty
  BY GraphOfTree
<1> HIDE DEF G
<1>4. Range(r.objs) = ObjsIn(r)
  <2>1. \A o : o \in ObjsIn(r) <=>
                 (o \in Range(r.objs) \/ \E c \in Shapes : o \in Range(r.sub[c].objs))
    BY HeldIn
  <2>2. \A c \in Shapes : Range(r.sub[c].objs) = {}
    BY <1>2, EmptyIs
  <2> QED
    BY <2>1, <2>2
<1>5. Range(r.edges) = EdgesIn(r)
  <2>1. \A e : e \in EdgesIn(r) <=>
                 (e \in Range(r.edges) \/ \E c \in Shapes : e \in Range(r.sub[c].edges))
    BY HeldIn
  <2>2. \A c \in Shapes : Range(r.sub[c].edges) = {}
    BY <1>2, EmptyIs
  <2> QED
    BY <2>1, <2>2
<1>6. Range(G.objs) = Shapes /\ Range(G.edges) = Listed
  <2>1. Range(Ordered(Shapes)) = Shapes
    BY OrderedFacts
  <2>2. Range(AllEdges) = Listed
    BY DEF Listed
  <2> QED
    BY <1>3, <2>1, <2>2
<1>7. RestoreOrder(r) = RestoreOrder(G)
  BY <1>2, <1>3, <1>4, <1>5, <1>6, SameInOrder
<1> QED
  BY <1>7, GivenInOrder DEF r, G

\* More edges may be left out.
LEMMA ApartMore ==
    ASSUME NEW p \in Trees, NEW A, NEW B, NEW ext, NEW g, Apart(g, p, A, B, ext),
           NEW more \in SUBSET Listed
    PROVE  ext \subseteq Listed /\ Apart(g, p, A, B, ext \cup more)
<1>1. EdgesIn(g) \cup ext = Listed
  BY DEF Apart
<1>2. EdgesIn(g) \cup (ext \cup more) = Listed
  BY <1>1
<1> QED
  BY <1>1, <1>2 DEF Apart

\* A cell that is laid out, put back and emptied.
LEMMA CellApart ==
    ASSUME NObjects \in Nat,
           NEW p \in Trees, NEW S \in SUBSET Shapes, NEW ext, NEW g,
           Apart(g, p, Nearby(S), Others(S), ext), NEW c \in Shapes, c \notin S,
           ~IncludeSelf(c), p[c] = Root, NEW r, r = CellContents(Extract(g, c, TRUE), c)
    PROVE  /\ Extract(g, c, TRUE) \in Graphs
           /\ Apart(r, p, Nearby(S \cup {c}), Others(S \cup {c}),
                    ext \cup Range(r.sub[c].external))
           /\ r.sub[c].external \in Seq(Listed)
<1> DEFINE A == Nearby(S)
           B == Others(S)
           cell == Extract(g, c, TRUE)
           q == cell.sub[c].external
           back == Inject(cell, Root, c)
           whole == RestoreOrder(WithEdges(back, q))
<1>1. c \notin A /\ c \notin B
  BY DEF Nearby, Others
<1>2. Nearby(S \cup {c}) = A /\ Others(S \cup {c}) = B \cup {c}
  BY DEF Nearby, Others
<1>3. r = Extract(whole, c, FALSE)
  BY DEF CellContents
<1>4. Apart(g, p, A, B, ext)
  OBVIOUS
<1> HIDE DEF A, B
<1>5. Apart(cell, p, A \cup {c}, B, ext \cup Range(q)) /\ q \in Seq(Listed)
  BY <1>1, <1>4, SelfApart
<1>6. (A \cup {c}) \ {c} = A /\ B \ {c} = B
  BY <1>1
<1> HIDE DEF cell
<1>7. Apart(back, p, A, B, ext \cup Range(q))
  <2>1. Root \in Shapes \cup {Root} /\ c \notin B
    BY <1>1
  <2> DEFINE more == A \cup {c}
  <2> HIDE DEF more
  <2>2. Apart(Inject(cell, Root, c), p, more \ {c}, B \ {c}, ext \cup Range(q))
    BY <1>5, <2>1, InjectApart DEF more
  <2> QED
    BY <1>6, <2>2 DEF more
<1> HIDE DEF back, q
<1>8. Apart(WithEdges(back, q), p, A, B, (ext \cup Range(q)) \ Range(q))
  BY <1>5, <1>7, OrderApart
<1>9. ext \subseteq Listed
  BY <1>4, ApartMore
<1>10. Apart(WithEdges(back, q), p, A, B, ((ext \cup Range(q)) \ Range(q)) \cup ext)
  BY <1>8, <1>9, ApartMore
<1>11. ((ext \cup Range(q)) \ Range(q)) \cup ext = ext
  OBVIOUS
<1>12. Apart(WithEdges(back, q), p, A, B, ext)
  BY <1>10, <1>11
<1>13. Apart(whole, p, A, B, ext)
  BY <1>12, OrderApart
<1> HIDE DEF whole
<1>14. /\ Apart(r, p, A, B \cup {c}, ext \cup Range(r.sub[c].external))
       /\ r.sub[c].external \in Seq(Listed)
  BY <1>1, <1>3, <1>13, ContentApart
<1> QED
  BY <1>2, <1>5, <1>14 DEF Apart, cell

\* The edges that leave the diagrams S.
Exts(g, S) == UNION {Range(g.sub[c].external) : c \in S}

\* When all diagrams have been cut out, nothing is lost.
LEMMA StageApart ==
    ASSUME NObjects \in Nat,
           NEW p \in Trees, NEW q, Chosen(p, q), NEW g, Stage(g, p, q, Len(q))
    PROVE  /\ Apart(g, p, Nearby(Range(q)), Others(Range(q)), Exts(g, Range(q)))
           /\ \A c \in Range(q) : g.sub[c].external \in Seq(Listed)
<1> DEFINE n == Len(q)
<1>1. /\ q \in Seq(Shapes) /\ n \in Nat /\ DOMAIN q = 1..n
      /\ \A i \in 1..n : q[i] \in Shapes /\ q[i] \in Range(q)
  BY ChosenFacts
<1>2. Firsts(q, n) = Range(q)
  BY <1>1 DEF Firsts, Range
<1>3. 0 \in 0..n /\ n \in 0..n /\ (0 + 1)..n = 1..n
  BY <1>1
<1> HIDE DEF n
<1>4. Stage(g, p, q, n)
  BY DEF n
<1>5. /\ g \in Graphs /\ Hangs(g, p, Nearby(Range(q)), Others(Range(q)))
      /\ \A i \in 1..n : g.sub[q[i]] = PartOf(p, q, i)
      /\ \A c \in Shapes \ Range(q) : g.sub[c] = Empty
  BY <1>2, <1>4 DEF Stage
<1>6. Separate(p, Nearby(Range(q)), Others(Range(q)))
  <2>1. n \in 0..Len(q)
    BY <1>3 DEF n
  <2> QED
    BY <1>2, <2>1, StageSeparate
<1>7. Range(g.objs) = Shapes \ Gone(p, q, n) /\ Range(g.edges) = Listed \cap Stay(p, q, n)
  BY <1>4, StageHolds
<1>8. Gone(p, q, 0) = {} /\ Listed \cap Stay(p, q, 0) = Listed
  <2>1. 1..0 = {}
    OBVIOUS
  <2>2. Gone(p, q, 0) = {}
    BY <2>1 DEF Gone
  <2>3. Stay(p, q, 0) = Edges
    BY <2>2 DEF Stay, Neither
  <2> QED
    BY <2>2, <2>3, EdgesAreListed
<1>9. /\ Shapes = (Shapes \ Gone(p, q, n)) \cup UNION {Contents(p, q, i) : i \in 1..n}
      /\ Listed = (Listed \cap Stay(p, q, n)) \cup UNION {Taken(p, q, i) : i \in 1..n}
  <2>1. 0 \in 0..Len(q) /\ n \in 0..Len(q)
    BY <1>3 DEF n
  <2>2. /\ Shapes \ Gone(p, q, 0) = (Shapes \ Gone(p, q, n))
                                         \cup UNION {Contents(p, q, i) : i \in (0 + 1)..n}
        /\ Listed \cap Stay(p, q, 0) = (Listed \cap Stay(p, q, n))
                                         \cup UNION {Taken(p, q, i) : i \in (0 + 1)..n}
    BY <2>1, Between
  <2> QED
    BY <1>3, <1>8, <2>2
<1>10. \A i \in 1..n :
          /\ Range(g.sub[q[i]].objs) = Contents(p, q, i)
          /\ Range(g.sub[q[i]].edges) \cup Range(g.sub[q[i]].external) = Taken(p, q, i)
          /\ g.sub[q[i]].external \in Seq(Listed)
  BY <1>5, PartFacts DEF n
<1>11. \A c \in Shapes \ Range(q) : Range(g.sub[c].objs) = {} /\ Range(g.sub[c].edges) = {}
  BY <1>5, EmptyIs
<1>12. \A c \in Range(q) : \E i \in 1..n : c = q[i]
  BY <1>1 DEF Range, n
<1>13. ObjsIn(g) = Shapes
  <2>1. \A o : o \in ObjsIn(g) <=>
                 (o \in Range(g.objs) \/ \E c \in Shapes : o \in Range(g.sub[c].objs))
    BY HeldIn
  <2>2. ASSUME NEW o PROVE o \in ObjsIn(g) <=>
              (o \in Range(g.objs) \/ \E i \in 1..n : o \in Contents(p, q, i))
    BY <1>1, <1>10, <1>11, <1>12, <2>1 DEF n
  <2> QED
    BY <1>7, <1>9, <2>2
<1>14. EdgesIn(g) \cup Exts(g, Range(q)) = Listed
  <2>1. \A e : e \in EdgesIn(g) <=>
                 (e \in Range(g.edges) \/ \E c \in Shapes : e \in Range(g.sub[c].edges))
    BY HeldIn
  <2>2. \A e : e \in Exts(g, Range(q)) <=>
                 \E c \in Range(q) : e \in Range(g.sub[c].external)
    BY DEF Exts
  <2>3. ASSUME NEW e PROVE e \in EdgesIn(g) \cup Exts(g, Range(q)) <=>
              (e \in Range(g.edges) \/ \E i \in 1..n : e \in Taken(p, q, i))
    <3>1. ASSUME e \in EdgesIn(g)
          PROVE  e \in Range(g.edges) \/ \E i \in 1..n : e \in Taken(p, q, i)
      BY <1>10, <1>11, <1>12, <2>1, <3>1
    <3>2. ASSUME e \in Exts(g, Range(q))
          PROVE  \E i \in 1..n : e \in Taken(p, q, i)
      BY <1>10, <1>12, <2>2, <3>2
    <3>3. ASSUME NEW i \in 1..n, e \in Taken(p, q, i)
          PROVE  e \in EdgesIn(g) \cup Exts(g, Range(q))
      BY <1>1, <1>10, <2>1, <2>2, <3>3 DEF n
    <3> QED
      BY <2>1, <3>1, <3>2, <3>3
  <2> QED
    BY <1>7, <1>9, <2>3
<1>15. \A c \in Shapes : c \notin Nearby(Range(q)) /\ c \notin Others(Range(q)) =>
          g.sub[c] = Empty
  BY <1>5 DEF Nearby, Others
<1>16. \A c \in Range(q) : g.sub[c].external \in Seq(Listed)
  BY <1>10, <1>12
<1> QED
  BY <1>5, <1>6, <1>13, <1>14, <1>15, <1>16 DEF Apart

\* The graph as the layout leaves it.
Turned(q, reordered) == IF reordered THEN Reverse(q) ELSE q
Laid(g, reordered) ==
    [g EXCEPT !.objs = Turned(g.objs, reordered), !.edges = Turned(g.edges, reordered),
              !.kids = [g.kids EXCEPT ![Root] = Turned(g.kids[Root], reordered)]]

LEMMA LaidIs ==
    ASSUME NObjects \in Nat, NEW g \in Graphs, NEW reordered \in BOOLEAN
    PROVE  Shuffled(g, Laid(g, reordered))
<1> DEFINE objs2 == Turned(g.objs, reordered)
           edges2 == Turned(g.edges, reordered)
           top2 == Turned(g.kids[Root], reordered)
           kids2 == [g.kids EXCEPT ![Root] = top2]
           r == Laid(g, reordered)
<1>1. /\ g.objs \in Seq(Shapes) /\ g.edges \in Seq(Listed)
      /\ g.kids \in [Places -> Seq(Shapes)] /\ g.kids[Root] \in Seq(Shapes)
      /\ Root \in Places
  BY GraphFields, PlaceFacts
<1>2. objs2 \in Seq(Shapes) /\ Range(objs2) = Range(g.objs)
  BY <1>1, ReverseFacts DEF Turned
<1>3. edges2 \in Seq(Listed) /\ Range(edges2) = Range(g.edges)
  BY <1>1, ReverseFacts DEF Turned
<1>4. top2 \in Seq(Shapes) /\ Range(top2) = Range(g.kids[Root])
  BY <1>1, ReverseFacts DEF Turned
<1>5. r = [g EXCEPT !.objs = objs2, !.edges = edges2, !.kids = kids2]
  BY DEF Laid
<1> HIDE DEF objs2, edges2, top2, r
<1>6. /\ kids2 \in [Places -> Seq(Shapes)] /\ kids2[Root] = top2
      /\ \A x \in Places : x # Root => kids2[x] = g.kids[x]
  BY <1>1, <1>4
<1> HIDE DEF kids2
<1>7. r = [objs |-> objs2, edges |-> edges2, parent |-> g.parent, kids |-> kids2, sub |-> g.sub]
  BY <1>5 DEF Graphs
<1>8. g.parent \in [Shapes -> Places] /\ g.sub \in [Shapes -> Subgraphs]
  BY GraphFields
<1>9. r \in Graphs
  BY <1>2, <1>3, <1>6, <1>7, <1>8 DEF Graphs
<1>10. /\ r.objs = objs2 /\ r.edges = edges2 /\ r.parent = g.parent
       /\ r.kids = kids2 /\ r.sub = g.sub
  BY <1>7
<1>11. Shuffled(g, r)
  BY <1>2, <1>3, <1>4, <1>6, <1>9, <1>10 DEF Shuffled
<1> QED
  BY <1>11 DEF r

\* What a complete call makes of the graph.
LEMMA FinishApart ==
    ASSUME NObjects \in Nat,
           NEW p \in Trees, NEW S \in SUBSET Shapes, NEW g, NEW x \in Seq(Listed),
           Apart(g, p, Nearby(S), Others(S), Range(x)), NEW reordered \in BOOLEAN,
           NEW q \in Seq(Shapes), S \subseteq Range(q)
    PROVE  /\ Laid(g, reordered) \in Graphs
           /\ WithEdges(RestoreAll(Laid(g, reordered), q), x) \in Graphs
           /\ RestoreOrder(WithEdges(RestoreAll(Laid(g, reordered), q), x)) = GraphOf(p)
<1> DEFINE r == Laid(g, reordered)
           w == RestoreAll(r, q)
<1>1. Shuffled(g, r)
  BY LaidIs DEF Apart
<1> HIDE DEF r
<1>2. Apart(r, p, Nearby(S), Others(S), Range(x))
  BY <1>1, ShuffledApart
<1>3. Apart(w, p, {}, {}, Range(x))
  BY <1>2, RestoreAllApart
<1> HIDE DEF w
<1>4. RestoreOrder(WithEdges(w, x)) = GraphOf(p)
  BY <1>3, WholeIsGiven
<1>5. WithEdges(w, x) \in Graphs
  BY <1>3, WithEdgesIs DEF Apart, Joins
<1> QED
  BY <1>1, <1>4, <1>5 DEF r, w, Shuffled

\* Only one graph can come of cutting out one diagram after the other.
LEMMA CutsOutUnique ==
    ASSUME NEW g, NEW q \in Seq(Shapes), NEW v, NEW w, CutsOut(v, g, q), CutsOut(w, g, q)
    PROVE  v[Len(q)] = w[Len(q)]
<1> DEFINE n == Len(q)
           N == {i \in Nat : i <= n => v[i] = w[i]}
<1>1. n \in Nat
  OBVIOUS
<1>2. 0 \in N
  BY DEF CutsOut
<1>3. ASSUME NEW i \in Nat, i \in N PROVE i + 1 \in N
  <2> SUFFICES ASSUME i + 1 <= n PROVE v[i + 1] = w[i + 1]
    OBVIOUS
  <2>1. i + 1 \in 1..n /\ (i + 1) - 1 = i /\ v[i] = w[i]
    BY <1>1, <1>3
  <2> QED
    BY <2>1 DEF CutsOut
<1>4. Nat \subseteq N
  <2> HIDE DEF N
  <2> QED
    BY <1>2, <1>3, AllNaturals
<1> QED
  BY <1>1, <1>4

\* h is what is left of g when the diagrams q have been cut out one after the other.
Cut(g, q, h) == \E v : CutsOut(v, g, q) /\ h = v[Len(q)]

LEMMA CutIs ==
    ASSUME NObjects \in Nat, NEW g \in Graphs, NEW q \in Seq(Shapes), NEW h
    PROVE  Cut(g, q, h) <=> h = CutAll(g, q)
<1>1. PICK v : CutsOut(v, g, q) /\ CutAll(g, q) = v[Len(q)]
  BY CutOutChain
<1>2. ASSUME NEW w, CutsOut(w, g, q) PROVE w[Len(q)] = CutAll(g, q)
  BY <1>1, <1>2, CutsOutUnique
<1> QED
  BY <1>1, <1>2 DEF Cut

-----------------------------------------------------------------------------
(* The invariant                                                           *)

\* The diagrams that have been laid out, and how many.
Done == Range(pulled) \cup Range(nears)
Count == Len(pulled) + Len(nears)

\* The graph at the call is a tree with its edges, a constant near only at the top.
InvCall ==
    /\ given.parent \in Trees /\ given = GraphOf(given.parent)
    /\ form \in [Shapes -> {"plain", "special", "near"}]
    /\ \A o \in Shapes : form[o] = "near" => given.parent[o] = Root
InvType ==
    /\ graph \in Graphs /\ todo \in Seq(Shapes) /\ external \in Seq(Listed)
    /\ pulled \in Seq(Shapes) /\ nears \in Seq(Shapes)
    /\ nesting \in {"idle", "cutting", "returned", "failed", "failed nested"}
    /\ batched \in BOOLEAN /\ inGrid \in BOOLEAN
InvIdle ==
    nesting = "idle" =>
        /\ graph = given
        /\ todo = <<>> /\ external = <<>> /\ pulled = <<>> /\ nears = <<>>

\* One diagram after the other: the graph, what was cut out and the edges aside are
\* what was given, and the search is at a place where no diagram is found twice.
InvOne ==
    nesting = "cutting" /\ ~batched =>
        /\ Apart(graph, given.parent, Nearby(Done), Others(Done), Range(external))
        /\ \E V \in SUBSET Shapes : Frontier(given.parent, V, todo) /\ Done \subseteq V

\* All at once: the graph is what cutting them out one by one leaves, and those that
\* remain are laid out in their order.
InvAll ==
    nesting = "cutting" /\ batched =>
        /\ Cut(given, SubSeq(Specs(given), 1, Len(Specs(given))), graph)
        /\ Count <= Len(Specs(given))
        /\ todo = SubSeq(Specs(given), Count + 1, Len(Specs(given)))
        /\ Done = Firsts(Specs(given), Count)
        /\ Range(external) = Exts(graph, Done)
InvUndone ==
    nesting = "failed nested" /\ batched =>
        \E h : /\ Cut(given, SubSeq(Specs(given), 1, Count + 1), h)
               /\ Count + 1 <= Len(Specs(given)) /\ graph = RestoreOrder(h)
InvReturned == nesting = "returned" => graph = given

NestedInv ==
    InvCall /\ InvType /\ InvIdle /\ InvOne /\ InvAll /\ InvUndone /\ InvReturned

LEMMA EmptyQueues ==
    ASSUME NEW X
    PROVE  <<>> \in Seq(X) /\ Range(<<>>) = {} /\ Len(<<>>) = 0
BY DEF Range

LEMMA NestedStarts ==
    ASSUME NObjects \in Nat,
           NEW p \in Trees, NEW k \in [Shapes -> {"plain", "special", "near"}],
           NEW i \in BOOLEAN, \A o \in Shapes : k[o] = "near" => p[o] = Root, Called(p, k, i)
    PROVE  NestedInv
<1>1. /\ graph = GraphOf(p) /\ given = graph /\ form = k /\ inGrid = i
      /\ nesting = "idle" /\ batched = FALSE
      /\ todo = <<>> /\ external = <<>> /\ pulled = <<>> /\ nears = <<>>
  BY DEF Called
<1>2. GraphOf(p) \in Graphs /\ GraphOf(p).parent = p
  BY GraphOfTree
<1>3. InvCall
  BY <1>1, <1>2 DEF InvCall
<1>4. InvType
  BY <1>1, <1>2, EmptyQueues DEF InvType
<1>5. InvIdle /\ InvOne /\ InvAll /\ InvUndone /\ InvReturned
  BY <1>1 DEF InvIdle, InvOne, InvAll, InvUndone, InvReturned
<1> QED
  BY <1>3, <1>4, <1>5 DEF NestedInv

\* The call does not change, nor what is said of it.
LEMMA CallStays ==
    ASSUME InvCall, UNCHANGED callVars
    PROVE  /\ given' = given /\ form' = form /\ inGrid' = inGrid
           /\ InvCall' /\ Specs(given)' = Specs(given)
<1>1. given' = given /\ form' = form /\ inGrid' = inGrid
  BY DEF callVars
<1>2. InvCall'
  BY <1>1 DEF InvCall
<1>3. Specs(given)' = Specs(given)
  BY <1>1 DEF Specs
<1> QED
  BY <1>1, <1>2, <1>3

LEMMA CutStays ==
    ASSUME form' = form, NEW g, NEW q, NEW h PROVE Cut(g, q, h)' <=> Cut(g, q, h)
<1>1. ASSUME NEW v PROVE CutsOut(v, g, q)' <=> CutsOut(v, g, q)
  BY DEF CutsOut, CutOut, IncludeSelf
<1> QED
  BY <1>1 DEF Cut

LEMMA FrontierStays ==
    ASSUME form' = form, NEW p, NEW V, NEW q
    PROVE  Frontier(p, V, q)' <=> Frontier(p, V, q)
BY DEF Frontier

LEMMA NearbyStays ==
    ASSUME form' = form, NEW S PROVE Nearby(S)' = Nearby(S) /\ Others(S)' = Others(S)
BY DEF Nearby, Others, IncludeSelf

\* What the invariant says of the diagrams in the graph.
LEMMA CallFacts ==
    ASSUME NObjects \in Nat, InvCall
    PROVE  /\ given \in Graphs /\ Chosen(given.parent, Specs(given))
           /\ \A c \in Shapes : given.kids[c] = Kids(given.parent, c)
           /\ given.kids[Root] = Kids(given.parent, Root)
           /\ \A c \in Shapes : form[c] = "near" <=> IncludeSelf(c)
           /\ Specs(given) \in Seq(Shapes) /\ Len(Specs(given)) \in Nat
           /\ \A i \in 1..Len(Specs(given)) :
                Specs(given)[i] \in Shapes /\ form[Specs(given)[i]] # "plain"
<1> DEFINE p == given.parent
           q == Specs(given)
<1>1. p \in Trees /\ given = GraphOf(p)
  BY DEF InvCall
<1>2. Topmost(p, Specs(GraphOf(p)))
  BY <1>1, SpecsAreTopmost
<1>3. Topmost(p, q)
  BY <1>1, <1>2
<1>4. \A c \in Shapes : form[c] = "near" <=> IncludeSelf(c)
  BY DEF IncludeSelf
<1>5. \A c \in Shapes : IncludeSelf(c) => p[c] = Root
  BY <1>4 DEF InvCall
<1> HIDE DEF p, q
<1>6. q \in Seq(Shapes) /\ \A c \in Range(q) : form[c] # "plain"
  BY <1>3 DEF Topmost
<1>7. Range(q) \subseteq Shapes /\ Len(q) \in Nat /\ \A i \in 1..Len(q) : q[i] \in Range(q)
  BY <1>6 DEF Range
<1>8. Chosen(p, q)
  BY <1>3, <1>5, <1>7 DEF Chosen
<1>9. /\ given \in Graphs /\ \A c \in Shapes : given.kids[c] = Kids(p, c)
      /\ given.kids[Root] = Kids(p, Root)
  BY <1>1, GraphOfTree, PlaceFacts
<1> QED
  BY <1>4, <1>6, <1>7, <1>8, <1>9 DEF p, q

LEMMA EmptyDone ==
    ASSUME pulled = <<>>, nears = <<>> PROVE Done = {} /\ Count = 0
BY EmptyQueues DEF Done, Count

LEMMA BeginOne ==
    ASSUME NObjects \in Nat, NestedInv, Begin, ~batched' PROVE InvOne'
<1> DEFINE p == given.parent
<1>1. /\ graph = given /\ todo = <<>> /\ external = <<>> /\ pulled = <<>> /\ nears = <<>>
      /\ graph' = graph /\ todo' = graph.kids[Root]
      /\ pulled' = <<>> /\ nears' = <<>> /\ external' = <<>>
  BY DEF NestedInv, InvIdle, Begin
<1>2. InvCall /\ UNCHANGED callVars
  BY DEF NestedInv, Begin
<1>3. given' = given /\ form' = form /\ p' = p
  BY <1>2, CallStays
<1>4. p \in Trees /\ given = GraphOf(p) /\ todo' = Kids(p, Root)
  BY <1>1, <1>2, CallFacts DEF InvCall
<1>5. Done' = {} /\ Range(external)' = {}
  BY <1>1, EmptyQueues DEF Done
<1>6. Nearby({})' = {} /\ Others({})' = {}
  BY DEF Nearby, Others
<1> HIDE DEF p
<1>7. Apart(graph', p, {}, {}, {})
  <2> DEFINE g == GraphOf(p)
  <2>1. /\ g \in Graphs /\ Hangs(g, p, {}, {}) /\ g.objs = Ordered(Shapes) /\ g.edges = AllEdges
        /\ \A c \in Shapes : g.sub[c] = Empty
    BY <1>4, GraphOfTree
  <2> HIDE DEF g
  <2>2. Separate(p, {}, {})
    BY DEF Separate
  <2>3. \A c \in Shapes : Range(g.sub[c].objs) = {} /\ Range(g.sub[c].edges) = {}
    BY <2>1, EmptyIs
  <2>4. Range(g.objs) = Shapes /\ Range(g.edges) = Listed
    <3>1. Range(Ordered(Shapes)) = Shapes
      BY OrderedFacts
    <3> QED
      BY <2>1, <3>1 DEF Listed
  <2>5. ObjsIn(g) = Shapes
    BY <2>3, <2>4, HeldIn
  <2>6. EdgesIn(g) \cup {} = Listed
    BY <2>3, <2>4, HeldIn
  <2>7. graph' = g
    BY <1>1, <1>4 DEF g
  <2> QED
    BY <2>1, <2>2, <2>5, <2>6, <2>7 DEF Apart
<1>8. Frontier(p, {}, Kids(p, Root))'
  BY <1>3, <1>4, FrontierStart, FrontierStays
<1>9. Apart(graph, p, Nearby(Done), Others(Done), Range(external))'
  BY <1>3, <1>5, <1>6, <1>7
<1>10. \E V \in SUBSET Shapes : Frontier(p, V, todo)' /\ (Done \subseteq V)'
  BY <1>3, <1>4, <1>5, <1>8
<1> QED
  BY <1>3, <1>9, <1>10 DEF InvOne, p

LEMMA BeginAll ==
    ASSUME NObjects \in Nat,
           NestedInv, Begin, batched' PROVE InvAll' /\ graph' \in Graphs /\ todo' \in Seq(Shapes)
<1> DEFINE p == given.parent
           q == Specs(given)
           s == SubSeq(q, 1, Len(q))
<1>1. /\ graph = given /\ todo = <<>> /\ external = <<>> /\ pulled = <<>> /\ nears = <<>>
      /\ graph' = ExtractAll(given, q) /\ todo' = q
      /\ pulled' = <<>> /\ nears' = <<>> /\ external' = <<>>
  BY DEF NestedInv, InvIdle, Begin
<1>2. InvCall /\ UNCHANGED callVars
  BY DEF NestedInv, Begin
<1>3. given' = given /\ form' = form /\ q' = q
  BY <1>2, CallStays
<1>4. /\ p \in Trees /\ given = GraphOf(p) /\ Chosen(p, q) /\ given \in Graphs
      /\ q \in Seq(Shapes) /\ Len(q) \in Nat
  BY <1>2, CallFacts DEF InvCall
<1>5. Done' = {} /\ Count' = 0 /\ Range(external)' = {}
  BY <1>1, EmptyQueues DEF Done, Count
<1> HIDE DEF p, q
<1>6. ExtractAll(given, q) = CutAll(given, s) /\ ExtractAll(given, q) \in Graphs
  BY <1>4, BatchIsOneByOne DEF Stage
<1>7. s \in Seq(Shapes) /\ SubSeq(q, 0 + 1, Len(q)) = q
  BY <1>4
<1>8. Cut(given, s, graph')
  BY <1>1, <1>4, <1>6, <1>7, CutIs
<1>9. Cut(given, s, graph)'
  BY <1>3, <1>8, CutStays
<1>10. Firsts(q, 0) = {} /\ \A g : Exts(g, {}) = {}
  BY DEF Firsts, Exts
<1>11. /\ (Count <= Len(q))' /\ (todo = SubSeq(q, Count + 1, Len(q)))'
       /\ (Done = Firsts(q, Count))' /\ (Range(external) = Exts(graph, Done))'
  BY <1>1, <1>3, <1>4, <1>5, <1>7, <1>10 DEF Firsts, Exts
<1> QED
  BY <1>1, <1>3, <1>4, <1>6, <1>9, <1>11 DEF InvAll, q

LEMMA BeginInv ==
    ASSUME NObjects \in Nat, NestedInv, Begin PROVE NestedInv'
<1>1. InvCall /\ UNCHANGED callVars /\ InvType /\ InvIdle
  BY DEF NestedInv, Begin
<1>2. InvCall' /\ inGrid' = inGrid
  BY <1>1, CallStays
<1>3. batched' \in BOOLEAN /\ nesting' = "cutting" /\ UNCHANGED <<external, pulled, nears>>
  BY DEF Begin
<1>4. given.kids[Root] \in Seq(Shapes)
  BY <1>1, CallFacts, GraphFields, PlaceFacts
<1>5. CASE batched'
  <2>1. InvAll' /\ graph' \in Graphs /\ todo' \in Seq(Shapes)
    BY <1>5, BeginAll
  <2> QED
    BY <1>1, <1>2, <1>3, <1>5, <2>1
       DEF NestedInv, InvType, InvIdle, InvOne, InvUndone, InvReturned
<1>6. CASE ~batched'
  <2>1. InvOne'
    BY <1>6, BeginOne
  <2>2. graph' = graph /\ todo' = graph.kids[Root] /\ graph = given
    BY <1>6, <1>1 DEF Begin, InvIdle
  <2>3. graph' \in Graphs /\ todo' \in Seq(Shapes)
    BY <1>1, <1>4, <2>2 DEF InvType
  <2> QED
    BY <1>1, <1>2, <1>3, <1>6, <2>1, <2>3
       DEF NestedInv, InvType, InvIdle, InvAll, InvUndone, InvReturned
<1> QED
  BY <1>5, <1>6

\* A call that fails, not in the middle of a batch.
LEMMA FailInv ==
    ASSUME NObjects \in Nat,
           NestedInv, NEW g \in Graphs, NEW how \in {"failed", "failed nested"},
           how = "failed nested" => ~batched, FailWith(g, how)
    PROVE  NestedInv'
<1>1. InvCall /\ UNCHANGED callVars /\ InvType
  BY DEF NestedInv, FailWith
<1>2. InvCall' /\ inGrid' = inGrid
  BY <1>1, CallStays
<1>3. /\ nesting' = how /\ graph' = RestoreOrder(g)
      /\ UNCHANGED <<batched, todo, external, pulled, nears>>
  BY DEF FailWith
<1>4. RestoreOrder(g) \in Graphs
  BY RestoreOrderIs DEF InOrder
<1>5. InvType'
  BY <1>1, <1>2, <1>3, <1>4 DEF InvType
<1>6. InvIdle' /\ InvOne' /\ InvAll' /\ InvUndone' /\ InvReturned'
  BY <1>3 DEF InvIdle, InvOne, InvAll, InvUndone, InvReturned
<1> QED
  BY <1>2, <1>5, <1>6 DEF NestedInv

LEMMA DoneGrows ==
    ASSUME NEW c \in Shapes, pulled \in Seq(Shapes), nears \in Seq(Shapes),
           \/ nears' = Append(nears, c) /\ UNCHANGED pulled
           \/ pulled' = Append(pulled, c) /\ UNCHANGED nears
    PROVE  /\ Done' = Done \cup {c} /\ Count' = Count + 1 /\ Count \in Nat
           /\ pulled' \in Seq(Shapes) /\ nears' \in Seq(Shapes)
<1>1. ASSUME NEW q \in Seq(Shapes)
      PROVE  /\ Range(Append(q, c)) = Range(q) \cup {c} /\ Append(q, c) \in Seq(Shapes)
             /\ Len(Append(q, c)) = Len(q) + 1 /\ Len(q) \in Nat
  BY RangeGrows
<1>2. CASE nears' = Append(nears, c) /\ UNCHANGED pulled
  BY <1>1, <1>2 DEF Done, Count
<1>3. CASE pulled' = Append(pulled, c) /\ UNCHANGED nears
  BY <1>1, <1>3 DEF Done, Count
<1> QED
  BY <1>2, <1>3

\* One diagram has been cut out and laid out.
LEMMA TakenOne ==
    ASSUME NObjects \in Nat,
           NestedInv, nesting = "cutting", ~batched, todo # <<>>, NEW c, c = Head(todo),
           NEW g, Apart(g, given.parent, Nearby(Done \cup {c}), Others(Done \cup {c}),
                        Range(external) \cup Range(g.sub[c].external)),
           g.sub[c].external \in Seq(Listed), CarryOn(g), todo' = Tail(todo),
           external' = external \o g.sub[c].external,
           \/ nears' = Append(nears, c) /\ UNCHANGED pulled
           \/ pulled' = Append(pulled, c) /\ UNCHANGED nears
    PROVE  NestedInv'
<1> DEFINE p == given.parent
           x == g.sub[c].external
<1>1. InvCall /\ UNCHANGED callVars /\ InvType
  BY DEF NestedInv, CarryOn
<1>2. /\ graph' = g /\ nesting' = nesting /\ batched' = batched /\ p \in Trees
  BY <1>1 DEF CarryOn, InvCall
<1>3. InvCall' /\ given' = given /\ form' = form /\ p' = p /\ inGrid' = inGrid
  BY <1>1, CallStays
<1>4. PICK V \in SUBSET Shapes : Frontier(p, V, todo) /\ Done \subseteq V
  BY DEF NestedInv, InvOne
<1> HIDE DEF p
<1>5. c \in Shapes /\ Frontier(p, V \cup {c}, Tail(todo)) /\ Tail(todo) \in Seq(Shapes)
  <2>1. Frontier(p, V \cup {c}, Tail(todo)) /\ c \in Shapes
    BY <1>2, <1>4, FrontierStep
  <2> QED
    BY <2>1 DEF Frontier
<1>6. /\ Done' = Done \cup {c} /\ pulled' \in Seq(Shapes) /\ nears' \in Seq(Shapes)
  BY <1>1, <1>5, DoneGrows DEF InvType
<1>7. external' \in Seq(Listed) /\ Range(external') = Range(external) \cup Range(x)
  <2>1. external \in Seq(Listed) /\ x \in Seq(Listed) /\ external' = external \o x
    BY <1>1 DEF InvType
  <2> HIDE DEF x
  <2> QED
    BY <2>1, RangeGrows
<1>8. g \in Graphs
  BY DEF Apart
<1>9. InvType'
  BY <1>1, <1>2, <1>3, <1>5, <1>6, <1>7, <1>8 DEF InvType
<1>10. Apart(graph', p, Nearby(Done \cup {c}), Others(Done \cup {c}), Range(external'))
  BY <1>2, <1>7 DEF p
<1>11. Nearby(Done)' = Nearby(Done \cup {c}) /\ Others(Done)' = Others(Done \cup {c})
  BY <1>3, <1>6 DEF Nearby, Others, IncludeSelf
<1>12. Apart(graph, p, Nearby(Done), Others(Done), Range(external))'
  BY <1>2, <1>3, <1>10, <1>11
<1>13. Frontier(p, V \cup {c}, todo)' /\ (Done \subseteq V \cup {c})'
  BY <1>3, <1>4, <1>5, <1>6, FrontierStays
<1>14. V \cup {c} \in SUBSET Shapes
  BY <1>5
<1>15. \E W \in SUBSET Shapes : Frontier(p, W, todo)' /\ (Done \subseteq W)'
  BY <1>13, <1>14
<1>16. InvOne'
  BY <1>3, <1>12, <1>15 DEF InvOne, p
<1>17. InvIdle' /\ InvAll' /\ InvUndone' /\ InvReturned'
  BY <1>2 DEF InvIdle, InvAll, InvUndone, InvReturned
<1> QED
  BY <1>3, <1>9, <1>16, <1>17 DEF NestedInv

\* The object that is visited, when no batch has been cut out.
LEMMA HeadFacts ==
    ASSUME NObjects \in Nat,
           NestedInv, nesting = "cutting", ~batched, todo # <<>>, NEW c, c = Head(todo)
    PROVE  /\ c \in Shapes /\ c \notin Done /\ Done \in SUBSET Shapes
           /\ given.parent \in Trees /\ graph \in Graphs
           /\ Apart(graph, given.parent, Nearby(Done), Others(Done), Range(external))
           /\ graph.kids[c] = Kids(given.parent, c)
           /\ graph.parent[c] = Root => given.parent[c] = Root
           /\ IncludeSelf(c) <=> form[c] = "near"
           /\ form[c] = "near" => given.parent[c] = Root
<1> DEFINE p == given.parent
<1>1. /\ p \in Trees /\ \A o \in Shapes : form[o] = "near" => p[o] = Root
  BY DEF NestedInv, InvCall
<1>2. PICK V \in SUBSET Shapes : Frontier(p, V, todo) /\ Done \subseteq V
  BY DEF NestedInv, InvOne
<1>3. Apart(graph, p, Nearby(Done), Others(Done), Range(external))
  BY DEF NestedInv, InvOne
<1> HIDE DEF p
<1>4. c \in Shapes /\ c \notin Done /\ Done \in SUBSET Shapes
  BY <1>1, <1>2, FrontierStep
<1>5. c \notin Nearby(Done) /\ c \notin Others(Done) /\ Others(Done) \subseteq Shapes
  BY <1>4 DEF Nearby, Others
<1>6. Hangs(graph, p, Nearby(Done), Others(Done)) /\ graph \in Graphs
  BY <1>3 DEF Apart
<1>7. graph.kids[c] = Kids(p, c)
  BY <1>4, <1>5, <1>6 DEF Hangs
<1>8. ASSUME graph.parent[c] = Root PROVE p[c] = Root
  BY <1>4, <1>5, <1>6, <1>8, PlaceFacts DEF Hangs
<1> QED
  BY <1>1, <1>3, <1>4, <1>6, <1>7, <1>8 DEF p, IncludeSelf

LEMMA SkipInv ==
    ASSUME NObjects \in Nat,
           NestedInv, nesting = "cutting", ~batched, todo # <<>>, NEW c, c = Head(todo),
           Skip(c)
    PROVE  NestedInv'
<1> DEFINE p == given.parent
<1>1. InvCall /\ UNCHANGED callVars /\ InvType
  BY DEF NestedInv, Skip, CarryOn
<1>2. /\ graph' = graph /\ nesting' = nesting /\ batched' = batched /\ p \in Trees
      /\ UNCHANGED <<external, pulled, nears>>
      /\ todo' = Tail(todo) \o IF form[c] = "plain" THEN graph.kids[c] ELSE <<>>
  BY <1>1 DEF CarryOn, InvCall, Skip
<1>3. InvCall' /\ given' = given /\ form' = form /\ p' = p /\ inGrid' = inGrid
  BY <1>1, CallStays
<1>4. PICK V \in SUBSET Shapes : Frontier(p, V, todo) /\ Done \subseteq V
  BY DEF NestedInv, InvOne
<1>5. c \in Shapes /\ graph.kids[c] = Kids(p, c)
  BY HeadFacts
<1>6. Apart(graph, p, Nearby(Done), Others(Done), Range(external))
  BY DEF NestedInv, InvOne
<1>7. Done' = Done
  BY <1>2 DEF Done
<1> HIDE DEF p
<1>8. Frontier(p, V \cup {c}, todo')
  <2>1. /\ Frontier(p, V \cup {c}, Tail(todo))
        /\ form[c] = "plain" => Frontier(p, V \cup {c}, Tail(todo) \o Kids(p, c))
    BY <1>2, <1>4, FrontierStep
  <2>2. Tail(todo) \in Seq(Shapes)
    BY <2>1 DEF Frontier
  <2>3. CASE form[c] = "plain"
    BY <1>2, <1>5, <2>1, <2>3
  <2>4. CASE form[c] # "plain"
    <3>1. todo' = Tail(todo) \o <<>>
      BY <1>2, <2>4
    <3>2. todo' = Tail(todo)
      BY <2>2, <3>1, ConcatEmptySeq
    <3> QED
      BY <2>1, <3>2
  <2> QED
    BY <2>3, <2>4
<1>9. todo' \in Seq(Shapes)
  BY <1>8 DEF Frontier
<1>10. InvType'
  BY <1>1, <1>2, <1>3, <1>9 DEF InvType
<1>11. Nearby(Done)' = Nearby(Done) /\ Others(Done)' = Others(Done)
  BY <1>3, <1>7 DEF Nearby, Others, IncludeSelf
<1>12. Apart(graph, p, Nearby(Done), Others(Done), Range(external))'
  BY <1>2, <1>3, <1>6, <1>11
<1>13. Frontier(p, V \cup {c}, todo)' /\ (Done \subseteq V \cup {c})'
  BY <1>3, <1>4, <1>7, <1>8, FrontierStays
<1>14. V \cup {c} \in SUBSET Shapes
  BY <1>5
<1>15. \E W \in SUBSET Shapes : Frontier(p, W, todo)' /\ (Done \subseteq W)'
  BY <1>13, <1>14
<1>16. InvOne'
  BY <1>3, <1>12, <1>15 DEF InvOne, p
<1>17. InvIdle' /\ InvAll' /\ InvUndone' /\ InvReturned'
  BY <1>2 DEF InvIdle, InvAll, InvUndone, InvReturned
<1> QED
  BY <1>3, <1>10, <1>16, <1>17 DEF NestedInv

LEMMA LayoutOneInv ==
    ASSUME NObjects \in Nat,
           NestedInv, nesting = "cutting", ~batched, todo # <<>>, NEW c, c = Head(todo),
           NEW ok, LayoutOne(c, ok)
    PROVE  NestedInv'
<1> DEFINE p == given.parent
           g == CutOut(graph, c)
<1>1. /\ c \in Shapes /\ c \notin Done /\ Done \in SUBSET Shapes
      /\ p \in Trees /\ graph \in Graphs
      /\ Apart(graph, p, Nearby(Done), Others(Done), Range(external))
      /\ IncludeSelf(c) => p[c] = Root
  BY HeadFacts
<1>2. g \in Graphs
  BY <1>1, StepTypes
<1>3. /\ Apart(g, p, Nearby(Done \cup {c}), Others(Done \cup {c}),
               Range(external) \cup Range(g.sub[c].external))
      /\ g.sub[c].external \in Seq(Listed)
  BY <1>1, CutApart
<1>4. CASE ok
  <2>1. /\ CarryOn(g) /\ todo' = Tail(todo) /\ external' = external \o g.sub[c].external
        /\ \/ nears' = Append(nears, c) /\ UNCHANGED pulled
           \/ pulled' = Append(pulled, c) /\ UNCHANGED nears
    BY <1>4 DEF LayoutOne
  <2> HIDE DEF g
  <2> QED
    BY <1>3, <2>1, TakenOne
<1>5. CASE ~ok
  <2>1. FailWith(g, "failed nested")
    BY <1>5 DEF LayoutOne
  <2> HIDE DEF g
  <2> QED
    BY <1>2, <2>1, FailInv
<1> QED
  BY <1>4, <1>5

LEMMA LayoutCellInv ==
    ASSUME NObjects \in Nat,
           NestedInv, nesting = "cutting", ~batched, todo # <<>>, NEW c, c = Head(todo),
           form[c] = "plain", graph.parent[c] = Root, NEW ok, LayoutCell(c, ok)
    PROVE  NestedInv'
<1> DEFINE p == given.parent
           cell == Extract(graph, c, TRUE)
           g == CellContents(cell, c)
<1>1. /\ c \in Shapes /\ c \notin Done /\ Done \in SUBSET Shapes
      /\ p \in Trees /\ graph \in Graphs
      /\ Apart(graph, p, Nearby(Done), Others(Done), Range(external))
      /\ ~IncludeSelf(c) /\ p[c] = Root
  BY HeadFacts
<1>2. /\ cell \in Graphs
      /\ Apart(g, p, Nearby(Done \cup {c}), Others(Done \cup {c}),
               Range(external) \cup Range(g.sub[c].external))
      /\ g.sub[c].external \in Seq(Listed)
  BY <1>1, CellApart
<1>3. CASE ok
  <2>1. /\ CarryOn(g) /\ todo' = Tail(todo) /\ external' = external \o g.sub[c].external
        /\ pulled' = Append(pulled, c) /\ UNCHANGED nears
    BY <1>3 DEF LayoutCell
  <2> HIDE DEF g
  <2> QED
    BY <1>2, <2>1, TakenOne
<1>4. CASE ~ok
  <2>1. FailWith(cell, "failed")
    BY <1>4 DEF LayoutCell
  <2> HIDE DEF cell
  <2> QED
    BY <1>2, <2>1, FailInv
<1> QED
  BY <1>3, <1>4

\* The graph while the diagrams of a batch are laid out.
LEMMA BatchFacts ==
    ASSUME NObjects \in Nat, NestedInv, nesting = "cutting", batched
    PROVE  /\ Stage(graph, given.parent, Specs(given), Len(Specs(given)))
           /\ Count \in 0..Len(Specs(given))
           /\ graph = CutAll(given, SubSeq(Specs(given), 1, Len(Specs(given))))
<1> DEFINE p == given.parent
           q == Specs(given)
           s == SubSeq(q, 1, Len(q))
<1>1. /\ p \in Trees /\ given = GraphOf(p) /\ Chosen(p, q) /\ given \in Graphs
      /\ q \in Seq(Shapes) /\ Len(q) \in Nat
  BY CallFacts DEF NestedInv, InvCall
<1>2. Cut(given, s, graph) /\ Count <= Len(q)
  BY DEF NestedInv, InvAll
<1>3. Count \in Nat
  BY DEF NestedInv, InvType, Count
<1> HIDE DEF p, q
<1>4. s \in Seq(Shapes)
  BY <1>1
<1>5. graph = CutAll(given, s)
  BY <1>1, <1>2, <1>4, CutIs
<1>6. Stage(ExtractAll(GraphOf(p), q), p, q, Len(q)) /\ ExtractAll(GraphOf(p), q) = CutAll(GraphOf(p), s)
  BY <1>1, BatchIsOneByOne
<1>7. Stage(graph, p, q, Len(q))
  BY <1>1, <1>5, <1>6
<1>8. Count \in 0..Len(q)
  BY <1>1, <1>2, <1>3
<1> QED
  BY <1>5, <1>7, <1>8 DEF p, q

LEMMA NextFacts ==
    ASSUME NObjects \in Nat,
           NestedInv, nesting = "cutting", batched, todo # <<>>, NEW c, c = Head(todo)
    PROVE  /\ Count + 1 \in 1..Len(Specs(given)) /\ c = Specs(given)[Count + 1]
           /\ c \in Shapes /\ form[c] # "plain"
           /\ Tail(todo) = SubSeq(Specs(given), (Count + 1) + 1, Len(Specs(given)))
           /\ Tail(todo) \in Seq(Shapes)
<1> DEFINE q == Specs(given)
           k == Count
<1>1. q \in Seq(Shapes) /\ Len(q) \in Nat
      /\ \A i \in 1..Len(q) : q[i] \in Shapes /\ form[q[i]] # "plain"
  BY CallFacts DEF NestedInv
<1>2. k \in 0..Len(q)
  BY BatchFacts
<1>3. todo = SubSeq(q, k + 1, Len(q))
  BY DEF NestedInv, InvAll
<1> HIDE DEF q, k
<1>4. k + 1 <= Len(q)
  <2>1. CASE k = Len(q)
    <3>1. todo = <<>>
      BY <1>1, <1>3, <2>1
    <3> QED
      BY <3>1
  <2>2. CASE k # Len(q)
    BY <1>1, <1>2, <2>2
  <2> QED
    BY <2>1, <2>2
<1>5. Head(todo) = q[k + 1] /\ Tail(todo) = SubSeq(q, (k + 1) + 1, Len(q))
  BY <1>1, <1>2, <1>3, <1>4
<1>6. Tail(todo) \in Seq(Shapes)
  BY DEF NestedInv, InvType
<1>7. k + 1 \in 1..Len(q)
  BY <1>1, <1>2, <1>4
<1> QED
  BY <1>1, <1>5, <1>6, <1>7 DEF q, k

LEMMA NextInBatch ==
    ASSUME NObjects \in Nat,
           NestedInv, nesting = "cutting", batched, todo # <<>>, NEW c, c = Head(todo),
           LayoutOne(c, TRUE)
    PROVE  NestedInv'
<1> DEFINE q == Specs(given)
           k == Count
           x == graph.sub[c].external
<1>1. InvCall /\ InvType /\ batched = TRUE
  BY DEF NestedInv, InvType
<1>2. /\ CarryOn(graph) /\ todo' = Tail(todo) /\ external' = external \o x
      /\ \/ nears' = Append(nears, c) /\ UNCHANGED pulled
         \/ pulled' = Append(pulled, c) /\ UNCHANGED nears
  BY DEF LayoutOne
<1>3. graph' = graph /\ nesting' = nesting /\ batched' = batched /\ UNCHANGED callVars
  BY <1>2 DEF CarryOn
<1>4. InvCall' /\ given' = given /\ form' = form /\ q' = q /\ inGrid' = inGrid
  BY <1>1, <1>3, CallStays
<1>5. /\ k + 1 \in 1..Len(q) /\ c = q[k + 1] /\ c \in Shapes
      /\ Tail(todo) = SubSeq(q, (k + 1) + 1, Len(q)) /\ Tail(todo) \in Seq(Shapes)
  BY NextFacts
<1>6. Done' = Done \cup {c} /\ Count' = k + 1 /\ k \in Nat
      /\ pulled' \in Seq(Shapes) /\ nears' \in Seq(Shapes)
  BY <1>1, <1>2, <1>5, DoneGrows DEF InvType
<1>7. /\ Cut(given, SubSeq(q, 1, Len(q)), graph) /\ Done = Firsts(q, k)
      /\ Range(external) = Exts(graph, Done)
  BY DEF NestedInv, InvAll
<1> HIDE DEF q, k
<1>8. x \in Seq(Listed) /\ graph \in Graphs
  BY <1>1, <1>5, GraphFields DEF InvType
<1> HIDE DEF x
<1>9. external' \in Seq(Listed) /\ Range(external') = Range(external) \cup Range(x)
  BY <1>1, <1>2, <1>8, RangeGrows DEF InvType
<1>10. InvType'
  BY <1>1, <1>2, <1>3, <1>4, <1>5, <1>6, <1>8, <1>9 DEF InvType
<1>11. Cut(given, SubSeq(q, 1, Len(q)), graph)'
  BY <1>3, <1>4, <1>7, CutStays
<1>12. Firsts(q, k + 1) = Firsts(q, k) \cup {c}
  <2>1. 1..(k + 1) = 1..k \cup {k + 1}
    BY <1>6
  <2> QED
    BY <1>5, <2>1 DEF Firsts
<1>13. Exts(graph, Done \cup {c}) = Exts(graph, Done) \cup Range(x)
  BY DEF Exts, x
<1>14. /\ Count' <= Len(q) /\ todo' = SubSeq(q, Count' + 1, Len(q))
       /\ Done' = Firsts(q, Count') /\ Range(external') = Exts(graph', Done')
  <2>1. Count' <= Len(q) /\ todo' = SubSeq(q, Count' + 1, Len(q))
    BY <1>2, <1>5, <1>6
  <2>2. Done' = Firsts(q, Count')
    BY <1>6, <1>7, <1>12
  <2>3. Range(external') = Exts(graph', Done')
    BY <1>3, <1>6, <1>7, <1>9, <1>13
  <2> QED
    BY <2>1, <2>2, <2>3
<1>15. InvAll'
  BY <1>4, <1>11, <1>14 DEF InvAll, Firsts, Exts, q
<1>16. InvIdle' /\ InvOne' /\ InvUndone' /\ InvReturned'
  BY <1>1, <1>3 DEF InvIdle, InvOne, InvUndone, InvReturned
<1> QED
  BY <1>4, <1>10, <1>15, <1>16 DEF NestedInv

LEMMA BatchFails ==
    ASSUME NObjects \in Nat,
           NestedInv, nesting = "cutting", batched, todo # <<>>, NEW c, c = Head(todo),
           LayoutOne(c, FALSE)
    PROVE  NestedInv'
<1> DEFINE p == given.parent
           q == Specs(given)
           k == Count
           g == RollbackAfter(graph, q, Len(pulled \o nears) + 1)
           h == CutAll(given, SubSeq(q, 1, k + 1))
<1>1. InvCall /\ InvType /\ batched = TRUE
  BY DEF NestedInv, InvType
<1>2. FailWith(g, "failed nested")
  BY <1>1 DEF LayoutOne
<1>3. /\ nesting' = "failed nested" /\ graph' = RestoreOrder(g) /\ UNCHANGED callVars
      /\ UNCHANGED <<batched, todo, external, pulled, nears>>
  BY <1>2 DEF FailWith
<1>4. InvCall' /\ given' = given /\ form' = form /\ q' = q /\ inGrid' = inGrid
  BY <1>1, <1>3, CallStays
<1>5. k + 1 \in 1..Len(q)
  BY NextFacts
<1>6. /\ p \in Trees /\ given = GraphOf(p) /\ Chosen(p, q) /\ given \in Graphs
      /\ q \in Seq(Shapes) /\ Len(q) \in Nat
  BY <1>1, CallFacts DEF InvCall
<1>7. Stage(graph, p, q, Len(q))
  BY BatchFacts
<1>8. Len(pulled \o nears) = k /\ k \in Nat
  BY <1>1 DEF InvType, Count
<1>9. g = PutAllBack(graph, SubSeq(q, (k + 1) + 1, Len(q)))
  BY <1>8 DEF RollbackAfter, PutAllBack
<1> HIDE DEF p, q, k, g
<1>10. g \in Graphs /\ RestoreOrder(g) = RestoreOrder(h)
  <2>1. k + 1 \in 0..Len(q)
    BY <1>5, <1>8
  <2> DEFINE m == k + 1
  <2> HIDE DEF m
  <2>2. /\ PutAllBack(graph, SubSeq(q, m + 1, Len(q))) \in Graphs
        /\ RestoreOrder(PutAllBack(graph, SubSeq(q, m + 1, Len(q))))
             = RestoreOrder(CutAll(GraphOf(p), SubSeq(q, 1, m)))
    BY <1>6, <1>7, <2>1, PutBackUndoes DEF m
  <2> QED
    BY <1>6, <1>9, <2>2 DEF m
<1>11. InvType'
  <2>1. RestoreOrder(g) \in Graphs
    BY <1>10, RestoreOrderIs DEF InOrder
  <2> QED
    BY <1>1, <1>3, <1>4, <2>1 DEF InvType
<1>12. SubSeq(q, 1, k + 1) \in Seq(Shapes)
  BY <1>5, <1>6, <1>8
<1>13. Cut(given, SubSeq(q, 1, k + 1), h)
  BY <1>6, <1>12, CutIs
<1>14. Count' = k /\ k' = k
  BY <1>3 DEF Count, k
<1> HIDE DEF h
<1>15. \E d : /\ Cut(given, SubSeq(q, 1, k + 1), d)'
              /\ k + 1 <= Len(q) /\ graph' = RestoreOrder(d)
  <2>1. ASSUME NEW d, d = h
        PROVE  /\ Cut(given, SubSeq(q, 1, k + 1), d)'
               /\ k + 1 <= Len(q) /\ graph' = RestoreOrder(d)
    <3>1. Cut(given, SubSeq(q, 1, k + 1), d)
      BY <1>13, <2>1
    <3> DEFINE s == SubSeq(q, 1, k + 1)
    <3>2. s' = s
      BY <1>4, <1>14
    <3> HIDE DEF s
    <3>3. Cut(given, s, d)'
      BY <1>4, <3>1, <3>2, CutStays DEF s
    <3>4. k + 1 <= Len(q) /\ graph' = RestoreOrder(d)
      <4>1. k + 1 <= Len(q)
        BY <1>5, <1>6, <1>8
      <4>2. graph' = RestoreOrder(g)
        BY <1>3
      <4>3. RestoreOrder(g) = RestoreOrder(h)
        BY <1>10
      <4>4. RestoreOrder(h) = RestoreOrder(d)
        BY <2>1
      <4> QED
        BY <4>1, <4>2, <4>3, <4>4
    <3> QED
      BY <3>3, <3>4 DEF s
  <2> QED
    BY <2>1
<1>16. InvUndone'
  BY <1>4, <1>14, <1>15 DEF InvUndone, q
<1>17. InvIdle' /\ InvOne' /\ InvAll' /\ InvReturned'
  BY <1>3 DEF InvIdle, InvOne, InvAll, InvReturned
<1> QED
  BY <1>4, <1>11, <1>16, <1>17 DEF NestedInv

LEMMA VisitInv ==
    ASSUME NObjects \in Nat,
           NestedInv, NEW ok \in BOOLEAN, Visit(ok) PROVE NestedInv'
<1> DEFINE c == Head(todo)
           cell == inGrid /\ graph.parent[c] = Root /\ graph.kids[c] # <<>>
<1>1. /\ nesting = "cutting" /\ todo # <<>>
      /\ \/ form[c] = "plain" /\ cell /\ LayoutCell(c, ok)
         \/ form[c] = "plain" /\ ~cell /\ ok /\ Skip(c)
         \/ form[c] = "special" /\ graph.kids[c] = <<>> /\ ~batched /\ ok /\ Skip(c)
         \/ /\ \/ form[c] = "near" \/ batched
               \/ form[c] = "special" /\ graph.kids[c] # <<>>
            /\ LayoutOne(c, ok)
  BY DEF Visit
<1>2. CASE ~batched
  <2>1. CASE form[c] = "plain" /\ cell /\ LayoutCell(c, ok)
    <3>1. graph.parent[c] = Root
      BY <2>1
    <3> HIDE DEF c, cell
    <3>2. c = Head(todo)
      BY DEF c
    <3> QED
      BY <1>1, <1>2, <2>1, <3>1, <3>2, LayoutCellInv
  <2>2. CASE Skip(c)
    <3> HIDE DEF cell
    <3> QED
      BY <1>1, <1>2, <2>2, SkipInv
  <2>3. CASE LayoutOne(c, ok)
    <3> HIDE DEF cell
    <3> QED
      BY <1>1, <1>2, <2>3, LayoutOneInv
  <2> QED
    BY <1>1, <2>1, <2>2, <2>3
<1>3. CASE batched
  <2>1. form[c] # "plain"
    BY <1>1, <1>3, NextFacts
  <2>2. LayoutOne(c, ok)
    BY <1>1, <1>3, <2>1
  <2> HIDE DEF cell
  <2>3. CASE ok
    <3>1. ok = TRUE
      BY <2>3
    <3>2. LayoutOne(c, TRUE)
      BY <2>2, <3>1
    <3> QED
      BY <1>1, <1>3, <3>2, NextInBatch
  <2>4. CASE ~ok
    <3>1. ok = FALSE
      BY <2>4
    <3>2. LayoutOne(c, FALSE)
      BY <2>2, <3>1
    <3> QED
      BY <1>1, <1>3, <3>2, BatchFails
  <2> QED
    BY <2>3, <2>4
<1> QED
  BY <1>2, <1>3

\* When all have been laid out, nothing is lost, in a batch or one after the other.
LEMMA WholeApart ==
    ASSUME NObjects \in Nat, NestedInv, nesting = "cutting", todo = <<>>
    PROVE  /\ Apart(graph, given.parent, Nearby(Done), Others(Done), Range(external))
           /\ Done \in SUBSET Shapes /\ Done \subseteq Range(nears \o pulled)
           /\ nears \o pulled \in Seq(Shapes)
<1> DEFINE p == given.parent
           q == Specs(given)
<1>1. pulled \in Seq(Shapes) /\ nears \in Seq(Shapes)
  BY DEF NestedInv, InvType
<1>2. /\ Range(nears \o pulled) = Done /\ Done \in SUBSET Shapes
      /\ nears \o pulled \in Seq(Shapes)
  BY <1>1, RangeGrows DEF Done
<1>3. Apart(graph, p, Nearby(Done), Others(Done), Range(external))
  <2>1. CASE ~batched
    BY <2>1 DEF NestedInv, InvOne
  <2>2. CASE batched
    <3>1. /\ p \in Trees /\ Chosen(p, q) /\ q \in Seq(Shapes) /\ Len(q) \in Nat
      BY CallFacts DEF NestedInv, InvCall
    <3>2. Stage(graph, p, q, Len(q)) /\ Count \in 0..Len(q)
      BY <2>2, BatchFacts
    <3>3. /\ todo = SubSeq(q, Count + 1, Len(q)) /\ Done = Firsts(q, Count)
          /\ Range(external) = Exts(graph, Done)
      BY <2>2 DEF NestedInv, InvAll
    <3> HIDE DEF p, q
    <3>4. Count = Len(q)
      <4> DEFINE k == Count
      <4>1. k \in 0..Len(q) /\ SubSeq(q, k + 1, Len(q)) = <<>>
        BY <3>2, <3>3
      <4> HIDE DEF k
      <4>2. CASE k < Len(q)
        <5>1. Len(SubSeq(q, k + 1, Len(q))) = Len(q) - k
          BY <3>1, <4>1, <4>2
        <5>2. Len(q) - k = 0
          BY <4>1, <5>1, EmptyQueues
        <5> QED
          BY <3>1, <4>1, <4>2, <5>2
      <4>3. CASE ~(k < Len(q))
        BY <3>1, <4>1, <4>3 DEF k
      <4> QED
        BY <4>2, <4>3
    <3>5. Done = Range(q)
      BY <3>1, <3>3, <3>4 DEF Firsts, Range
    <3>6. Apart(graph, p, Nearby(Range(q)), Others(Range(q)), Exts(graph, Range(q)))
      BY <3>1, <3>2, StageApart
    <3> QED
      BY <3>3, <3>5, <3>6 DEF p
  <2> QED
    BY <2>1, <2>2
<1> QED
  BY <1>2, <1>3

LEMMA FinishInv ==
    ASSUME NObjects \in Nat,
           NestedInv, NEW ok \in BOOLEAN, NEW reordered \in BOOLEAN, Finish(ok, reordered)
    PROVE  NestedInv'
<1> DEFINE laid == Laid(graph, reordered)
           whole == RestoreAll(laid, nears \o pulled)
<1>1. /\ nesting = "cutting" /\ todo = <<>>
      /\ \/ FailWith(laid, "failed")
         \/ FailWith(WithEdges(whole, external), "failed")
         \/ /\ nesting' = "returned"
            /\ graph' = RestoreOrder(WithEdges(whole, external))
            /\ UNCHANGED <<callVars, batched, todo, external, pulled, nears>>
  BY DEF Finish, Laid, Turned, RestoreAll
<1>2. given.parent \in Trees /\ given = GraphOf(given.parent) /\ external \in Seq(Listed)
  BY DEF NestedInv, InvCall, InvType
<1>3. /\ laid \in Graphs /\ WithEdges(whole, external) \in Graphs
      /\ RestoreOrder(WithEdges(whole, external)) = given
  <2> DEFINE p == given.parent
             q == nears \o pulled
             S == Done
  <2>1. /\ Apart(graph, p, Nearby(S), Others(S), Range(external))
        /\ S \in SUBSET Shapes /\ S \subseteq Range(q) /\ q \in Seq(Shapes)
    BY <1>1, WholeApart
  <2>2. p \in Trees /\ given = GraphOf(p) /\ whole = RestoreAll(Laid(graph, reordered), q)
    BY <1>2
  <2> HIDE DEF p, q, S, whole
  <2> QED
    BY <1>2, <2>1, <2>2, FinishApart
<1> HIDE DEF laid, whole
<1>4. CASE FailWith(laid, "failed")
  BY <1>3, <1>4, FailInv
<1>5. CASE FailWith(WithEdges(whole, external), "failed")
  BY <1>3, <1>5, FailInv
<1>6. CASE /\ nesting' = "returned"
           /\ graph' = RestoreOrder(WithEdges(whole, external))
           /\ UNCHANGED <<callVars, batched, todo, external, pulled, nears>>
  <2>1. InvCall /\ InvType /\ given \in Graphs
    BY CallFacts DEF NestedInv
  <2>2. InvCall' /\ given' = given /\ inGrid' = inGrid
    BY <1>6, <2>1, CallStays
  <2>3. graph' = given
    BY <1>3, <1>6
  <2>4. InvType'
    BY <1>6, <2>1, <2>2, <2>3 DEF InvType
  <2>5. InvIdle' /\ InvOne' /\ InvAll' /\ InvUndone' /\ InvReturned'
    BY <1>6, <2>2, <2>3 DEF InvIdle, InvOne, InvAll, InvUndone, InvReturned
  <2> QED
    BY <2>2, <2>4, <2>5 DEF NestedInv
<1> QED
  BY <1>1, <1>4, <1>5, <1>6

LEMMA NestedStep ==
    ASSUME NObjects \in Nat, NestedInv, [Next]_nestedVars PROVE NestedInv'
<1>1. CASE Begin
  BY <1>1, BeginInv
<1>2. ASSUME NEW ok \in BOOLEAN, Visit(ok) PROVE NestedInv'
  BY <1>2, VisitInv
<1>3. ASSUME NEW ok \in BOOLEAN, NEW r \in BOOLEAN, Finish(ok, r) PROVE NestedInv'
  BY <1>3, FinishInv
<1>4. CASE UNCHANGED nestedVars
  <2>1. /\ UNCHANGED callVars /\ UNCHANGED <<graph, nesting, batched, todo, external, pulled, nears>>
        /\ InvCall
    BY <1>4 DEF nestedVars, callVars, NestedInv
  <2>2. /\ InvCall' /\ given' = given /\ form' = form /\ inGrid' = inGrid
        /\ Specs(given)' = Specs(given)
    BY <2>1, CallStays
  <2>3. InvType' /\ InvIdle' /\ InvReturned'
    BY <2>1, <2>2 DEF NestedInv, InvType, InvIdle, InvReturned
  <2>4. Done' = Done /\ Count' = Count
    BY <2>1 DEF Done, Count
  <2>5. InvOne'
    BY <2>1, <2>2, <2>4
       DEF NestedInv, InvOne, Nearby, Others, IncludeSelf, Frontier
  <2>6. ASSUME NEW n, n' = n, NEW h
        PROVE  Cut(given, SubSeq(Specs(given), 1, n), h)'
                 <=> Cut(given, SubSeq(Specs(given), 1, n), h)
    <3> DEFINE s == SubSeq(Specs(given), 1, n)
    <3>1. s' = s
      BY <2>2
    <3> HIDE DEF s
    <3>2. Cut(given, s, h)' <=> Cut(given, s, h)
      BY <2>2, <3>1, CutStays
    <3> QED
      BY <3>2 DEF s
  <2>7. InvAll'
    BY <2>1, <2>2, <2>4, <2>6 DEF NestedInv, InvAll, Firsts, Exts
  <2>8. InvUndone'
    BY <2>1, <2>2, <2>4, <2>6 DEF NestedInv, InvUndone
  <2> QED
    BY <2>2, <2>3, <2>5, <2>7, <2>8 DEF NestedInv
<1> QED
  BY <1>1, <1>2, <1>3, <1>4 DEF Next

LEMMA NestedInits ==
    ASSUME NObjects \in Nat, Init \/ AtRest PROVE NestedInv
<1>1. CASE Init
  BY <1>1, NestedStarts DEF Init
<1>2. CASE AtRest
  <2> DEFINE p == [o \in Shapes |-> Root]
             k == [o \in Shapes |-> "plain"]
  <2>1. p \in Trees
    BY DEF Trees, Shapes, Root
  <2>2. k \in [Shapes -> {"plain", "special", "near"}] /\ \A o \in Shapes : k[o] # "near"
    OBVIOUS
  <2>3. Called(p, k, FALSE) /\ FALSE \in BOOLEAN
    BY <1>2 DEF AtRest
  <2> HIDE DEF p, k
  <2> QED
    BY <2>1, <2>2, <2>3, NestedStarts
<1> QED
  BY <1>1, <1>2

LEMMA CountIs == ASSUME InvType PROVE Len(pulled \o nears) = Count /\ Count \in Nat
<1>1. pulled \in Seq(Shapes) /\ nears \in Seq(Shapes)
  BY DEF InvType
<1> QED
  BY <1>1, ConcatProperties, LenProperties DEF Count

LEMMA FirstsAreShapes ==
    ASSUME NEW q \in Seq(Shapes), NEW k \in Nat, k + 1 <= Len(q)
    PROVE  SubSeq(q, 1, k + 1) \in Seq(Shapes)
<1>1. \A i \in 1..(k + 1) : q[i] \in Shapes
  BY ElementOfSeq, LenProperties
<1> QED
  BY <1>1, SubSeqProperties

LEMMA NestedInvHolds == ASSUME NObjects \in Nat,
           NestedInv PROVE TypeOK /\ LayoutRestores /\ ExtractionIsSequential
<1> DEFINE q == Specs(given)
<1>1. InvCall /\ InvType /\ InvReturned /\ InvUndone
  BY DEF NestedInv
<1>2. TypeOK
  <2>1. \A r \in Seq(Shapes) : Range(r) \subseteq Shapes
    BY RangeGrows
  <2>2. \A r \in Seq(Listed) : Range(r) \subseteq Range(AllEdges)
    BY RangeGrows DEF Listed
  <2>3. /\ graph.objs \in Seq(Shapes) /\ graph.edges \in Seq(Listed)
        /\ graph.parent \in [Shapes -> Shapes \cup Roots]
    BY <1>1, GraphFields DEF InvType, Places
  <2> QED
    BY <1>1, <2>1, <2>2, <2>3 DEF InvType, TypeOK
<1>3. LayoutRestores
  BY <1>1 DEF InvReturned, LayoutRestores
<1>4. BatchIsSequential
  BY BatchFacts DEF BatchIsSequential, OneByOne, CutAll
<1>5. RollbackIsSequential
  <2> SUFFICES ASSUME nesting = "failed nested", batched
               PROVE  graph = RestoreOrder(OneByOne(Len(pulled \o nears) + 1))
    BY DEF RollbackIsSequential
  <2>1. PICK h : Cut(given, SubSeq(q, 1, Count + 1), h) /\ Count + 1 <= Len(q)
                 /\ graph = RestoreOrder(h)
    BY <1>1 DEF InvUndone
  <2>2. Len(pulled \o nears) = Count /\ Count \in Nat
    BY <1>1, CountIs
  <2>3. q \in Seq(Shapes) /\ Len(q) \in Nat /\ given \in Graphs
    BY <1>1, CallFacts
  <2> HIDE DEF q
  <2>4. SubSeq(q, 1, Count + 1) \in Seq(Shapes)
    <3> DEFINE k == Count
    <3>1. k + 1 <= Len(q) /\ k \in Nat
      BY <2>1, <2>2
    <3> HIDE DEF k
    <3>2. SubSeq(q, 1, k + 1) \in Seq(Shapes)
      BY <2>3, <3>1, FirstsAreShapes
    <3> QED
      BY <3>2 DEF k
  <2>5. h = CutAll(given, SubSeq(q, 1, Count + 1))
    BY <2>1, <2>3, <2>4, CutIs
  <2> QED
    BY <2>1, <2>2, <2>5 DEF OneByOne, CutAll, q
<1> QED
  BY <1>2, <1>3, <1>4, <1>5 DEF ExtractionIsSequential

=============================================================================
