---------------------------- MODULE Texts_proofs ----------------------------
(***************************************************************************)
(* Proofs about what is done with the text of diagrams: the edits of any   *)
(* tree of objects give the names that were predicted, and keeping what    *)
(* imported files were compiled to changes nothing.                        *)
(***************************************************************************)
EXTENDS EditorKeys, SumTheorems, SequenceTheorems

CONSTANTS ImportFiles, Main, Sources, Flaws, MaxImportDepth
VARIABLES program, fault, stack, parsed, templates, seen, imports, errors, compiled

Imp == INSTANCE ImportStack

-----------------------------------------------------------------------------
(* Names                                                                   *)

\* What names are made of.
Signs == (UNION {{n[i] : i \in 1..Len(n)} : n \in Names}) \cup Numbers

Numbered(s, k) == Append(s, k)
Stem(n) == Front(n)
Size(n) == Len(n)

\* Names are sequences of signs.
LEMMA NamesAreSequences ==
    ASSUME KeysFit
    PROVE  \A n \in Names : n \in Seq(Signs) /\ Len(n) \in Nat \ {0}
<1> SUFFICES ASSUME NEW n \in Names PROVE n \in Seq(Signs) /\ Len(n) \in Nat \ {0}
  OBVIOUS
<1>1. Len(n) \in Nat \ {0} /\ n = [i \in 1..Len(n) |-> n[i]]
  BY DEF KeysFit
<1>2. \A i \in 1..Len(n) : n[i] \in Signs
  BY DEF Signs
<1> DEFINE k == Len(n)
<1>3. n \in [1..k -> Signs]
  <2>1. n = [i \in 1..k |-> n[i]] /\ \A i \in 1..k : n[i] \in Signs
    BY <1>1, <1>2
  <2> HIDE DEF k
  <2> QED
    BY <2>1
<1>4. n \in UNION {[1..m -> Signs] : m \in Nat}
  <2>1. k \in Nat
    BY <1>1
  <2> HIDE DEF k
  <2> QED
    BY <1>3, <2>1
<1>5. Seq(Signs) = UNION {[1..m -> Signs] : m \in Nat}
  BY SeqDef
<1> QED
  BY <1>1, <1>4, <1>5

\* A number makes another name of each name and number.
LEMMA NumberedFacts ==
    ASSUME NEW s \in Seq(Signs), NEW k \in Numbers
    PROVE  /\ Numbered(s, k) \in Seq(Signs) /\ Size(Numbered(s, k)) = Size(s) + 1
           /\ Stem(Numbered(s, k)) = s
<1>1. k \in Signs
  BY DEF Signs
<1>2. /\ Append(s, k) \in Seq(Signs) /\ Len(Append(s, k)) = Len(s) + 1
      /\ \A i \in 1..Len(s) : Append(s, k)[i] = s[i]
  BY <1>1, AppendProperties
<1> DEFINE t == Append(s, k)
           m == Len(s)
<1>3. m \in Nat
  BY LenProperties
<1>4. t \in Seq(Signs) /\ Len(t) = m + 1 /\ \A i \in 1..m : t[i] = s[i]
  BY <1>2
<1>5. \A i \in 1..m : s[i] \in Signs
  BY ElementOfSeq
<1> HIDE DEF t
<1>6. /\ SubSeq(t, 1, m) \in Seq(Signs) /\ Len(SubSeq(t, 1, m)) = m
      /\ \A i \in 1..m : SubSeq(t, 1, m)[i] = t[i]
  <2>1. \A i \in 1..m : t[i] \in Signs
    BY <1>4, <1>5
  <2> HIDE DEF m
  <2>2. m \in Int /\ 1 \in Int
    BY <1>3
  <2>3. /\ SubSeq(t, 1, m) \in Seq(Signs)
        /\ Len(SubSeq(t, 1, m)) = IF 1 <= m THEN m - 1 + 1 ELSE 0
        /\ \A i \in 1..(m - 1 + 1) : SubSeq(t, 1, m)[i] = t[1 + i - 1]
    BY <2>1, <2>2, SubSeqProperties
  <2>4. /\ (IF 1 <= m THEN m - 1 + 1 ELSE 0) = m
        /\ \A i \in 1..m : i \in 1..(m - 1 + 1) /\ 1 + i - 1 = i
    BY <1>3
  <2> QED
    BY <2>3, <2>4
<1>7. SubSeq(t, 1, m) = s
  BY <1>4, <1>6, SeqEqual
<1>8. Front(t) = s
  <2>1. Len(t) - 1 = m
    BY <1>3, <1>4
  <2> QED
    BY <1>7, <2>1 DEF Front
<1>9. Numbered(s, k) = t /\ Stem(t) = Front(t) /\ Size(t) = Len(t) /\ Size(s) = m
  BY DEF Numbered, Stem, Size, t
<1> QED
  BY <1>4, <1>8, <1>9

\* Every name a diagram can get is a name, and without its number one of Names.
LEMMA NamesFit ==
    ASSUME KeysFit
    PROVE  /\ \A n \in AllNames : n \in Seq(Signs) /\ Size(n) \in Nat \ {0}
           /\ \A n \in AllNames : Size(n) > 1 => Stem(n) \in Names
           /\ \A n \in Names, k \in Numbers : Numbered(n, k) \in AllNames
           /\ Names \subseteq AllNames
<1>1. \A n \in Names, k \in Numbers : Numbered(n, k) \in AllNames
  BY DEF Numbered, AllNames
<1>2. \A n \in Names : n \in Seq(Signs) /\ Size(n) \in Nat \ {0}
  BY NamesAreSequences DEF Size
<1>3. \A n \in Names : Size(n) > 1 => Stem(n) \in Names
  BY DEF KeysFit, Size, Stem
<1>4. \A n \in AllNames :
        n \in Names \/ \E m \in Names, k \in Numbers : n = Numbered(m, k)
  BY DEF AllNames, Numbered
<1>5. \A m \in Names, k \in Numbers :
        /\ Numbered(m, k) \in Seq(Signs) /\ Size(Numbered(m, k)) \in Nat \ {0}
        /\ Stem(Numbered(m, k)) \in Names
  BY <1>2, NumberedFacts
<1>6. Names \subseteq AllNames
  BY DEF AllNames
<1> QED
  BY <1>1, <1>2, <1>3, <1>4, <1>5, <1>6

\* Different numbers make different names.
LEMMA NumberTells ==
    ASSUME NEW s \in Seq(Signs), NEW j \in Numbers, NEW k \in Numbers,
           Numbered(s, j) = Numbered(s, k)
    PROVE  j = k
<1>1. j \in Signs /\ k \in Signs
  BY DEF Signs
<1>2. Append(s, j) = Append(s, k)
  BY DEF Numbered
<1> QED
  BY <1>1, <1>2, AppendInjective

-----------------------------------------------------------------------------
(* Unique names.  generateUniqueKey looks at the names that are in the way:  *)
(* it takes the first number that none of them has.  There are fewer of them *)
(* than numbers.                                                             *)

\* The first name with this stem that is not in B.
Choice(stem, B) ==
    IF stem \notin B THEN stem
    ELSE Numbered(stem, CHOOSE k \in Numbers :
             /\ Numbered(stem, k) \notin B
             /\ \A j \in 2..(k - 1) : Numbered(stem, j) \in B)

\* A name that is in the way loses its number.
StemIn(n, B) == IF n \in B /\ Size(n) > 1 THEN Stem(n) ELSE n

\* generateUniqueKey takes the first name with the stem that nothing in its way has.
LEMMA UniqueIs ==
    ASSUME NEW names, NEW n, NEW where, NEW ignored, NEW included
    PROVE  UniqueAmong(names, n, where, ignored, included) =
             Choice(StemIn(n, Taken(names, where, ignored)),
                    included \cup Taken(names, where, ignored))
  BY DEF UniqueAmong, Choice, StemIn, Stem, Size, Numbered

\* A function has no more values than arguments.
LEMMA ImageSmall ==
    ASSUME NEW S, IsFiniteSet(S), NEW f
    PROVE  /\ IsFiniteSet({f[x] : x \in S})
           /\ Cardinality({f[x] : x \in S}) <= Cardinality(S)
<1> DEFINE T == {f[x] : x \in S}
           g == [x \in S |-> f[x]]
<1>1. g \in Surjection(S, T)
  <2>1. g \in [S -> T]
    OBVIOUS
  <2>2. \A y \in T : \E x \in S : g[x] = y
    OBVIOUS
  <2> HIDE DEF T, g
  <2> QED
    BY <2>1, <2>2 DEF Surjection
<1> HIDE DEF T, g
<1>2. IsFiniteSet(T) /\ Cardinality(T) <= Cardinality(S)
  BY <1>1, FS_Surjection
<1> QED
  BY <1>2 DEF T

\* Names that are or were those of other objects.
Crowd(B, c, f, g) ==
    B \subseteq {f[o] : o \in Objects \ {c}} \cup {g[o] : o \in Objects \ {c}}

\* Names of other objects, before and after, are fewer than the numbers.
LEMMA CrowdSmall ==
    ASSUME KeysFit, NEW c \in Objects, NEW f, NEW g, NEW B, Crowd(B, c, f, g)
    PROVE  IsFiniteSet(B) /\ Cardinality(B) < 2 * NObjects - 1
<1> DEFINE S == Objects \ {c}
           F == {f[o] : o \in S}
           G == {g[o] : o \in S}
<1>1. NObjects \in Nat /\ NObjects >= 1
  BY DEF KeysFit, Objects
<1>2. IsFiniteSet(S) /\ Cardinality(S) = NObjects - 1
  <2>1. IsFiniteSet(Objects) /\ Cardinality(Objects) = NObjects
    BY <1>1, FS_Interval DEF Objects
  <2> QED
    BY <2>1, FS_RemoveElement
<1>3. /\ IsFiniteSet(F) /\ Cardinality(F) <= NObjects - 1
      /\ IsFiniteSet(G) /\ Cardinality(G) <= NObjects - 1
  <2> HIDE DEF S
  <2> QED
    BY <1>2, ImageSmall
<1>4. B \in SUBSET (F \cup G)
  BY DEF Crowd
<1> HIDE DEF F, G
<1>5. /\ IsFiniteSet(F \cup G)
      /\ Cardinality(F \cup G) = Cardinality(F) + Cardinality(G) - Cardinality(F \cap G)
  BY <1>3, FS_Union
<1>6. Cardinality(F) \in Nat /\ Cardinality(G) \in Nat /\ Cardinality(F \cap G) \in Nat
  <2>1. IsFiniteSet(F \cap G)
    BY <1>3, FS_Intersection
  <2> QED
    BY <1>3, <2>1, FS_CardinalityType
<1>7. IsFiniteSet(B) /\ Cardinality(B) <= Cardinality(F \cup G)
  BY <1>4, <1>5, FS_Subset
<1>8. Cardinality(B) \in Nat
  BY <1>7, FS_CardinalityType
<1> QED
  BY <1>1, <1>3, <1>5, <1>6, <1>7, <1>8

\* So the search of generateUniqueKey for a number ends, at a name that is free.
LEMMA ChoiceIs ==
    ASSUME KeysFit, NEW stem \in Seq(Signs), NEW B,
           stem \in B => IsFiniteSet(B) /\ Cardinality(B) < 2 * NObjects - 1
    PROVE  /\ Choice(stem, B) \notin B
           /\ Choice(stem, B) = stem \/ \E k \in Numbers : Choice(stem, B) = Numbered(stem, k)
           /\ stem \notin B => Choice(stem, B) = stem
<1>1. CASE stem \notin B
  BY <1>1 DEF Choice
<1>2. CASE stem \in B
  <2> DEFINE Good(k) == Numbered(stem, k) \notin B
             K == {k \in Numbers : Good(k)}
  <2>0. NObjects \in Nat
    BY DEF KeysFit
  <2>1. K # {}
    <3> SUFFICES ASSUME K = {} PROVE FALSE
      OBVIOUS
    <3> DEFINE f == [k \in Numbers |-> Numbered(stem, k)]
    <3>1. f \in [Numbers -> B]
      OBVIOUS
    <3>2. IsFiniteSet(Numbers) /\ Cardinality(Numbers) >= 2 * NObjects - 1
      <4>1. 2 \in Int /\ 2 * NObjects \in Int
        BY <2>0
      <4>2. /\ IsFiniteSet(2..(2 * NObjects))
            /\ Cardinality(2..(2 * NObjects)) =
                 IF 2 > 2 * NObjects THEN 0 ELSE 2 * NObjects - 2 + 1
        BY <4>1, FS_Interval
      <4> QED
        BY <2>0, <4>2 DEF Numbers
    <3>3. IsFiniteSet(B) /\ Cardinality(B) \in Nat /\ Cardinality(B) < 2 * NObjects - 1
      BY <1>2, FS_CardinalityType
    <3>4. Cardinality(B) < Cardinality(Numbers)
      BY <2>0, <3>2, <3>3, FS_CardinalityType
    <3> HIDE DEF f
    <3>5. PICK j \in Numbers, k \in Numbers : j # k /\ f[j] = f[k]
      BY <3>1, <3>2, <3>3, <3>4, FS_PigeonHole
    <3>6. Numbered(stem, j) = Numbered(stem, k)
      BY <3>5 DEF f
    <3> QED
      BY <3>5, <3>6, NumberTells
  <2>2. K \subseteq Nat /\ \A k \in K : k \in Numbers
    BY <2>0 DEF Numbers
  <2>3. PICK k \in K : \A j \in K : k <= j
    <3> HIDE DEF K
    <3> QED
      BY <2>1, <2>2, LeastNatural
  <2>4. \A j \in 2..(k - 1) : ~Good(j)
    <3> SUFFICES ASSUME NEW j \in 2..(k - 1), Good(j) PROVE FALSE
      OBVIOUS
    <3>1. k \in 2..(2 * NObjects)
      BY <2>2 DEF Numbers
    <3>2. j \in Numbers /\ j < k /\ j \in Int /\ k \in Int
      BY <2>0, <3>1 DEF Numbers
    <3>3. j \in K
      BY <3>2
    <3> HIDE DEF K
    <3> QED
      BY <2>3, <3>2, <3>3
  <2>5. \E m \in Numbers : /\ Numbered(stem, m) \notin B
                           /\ \A j \in 2..(m - 1) : Numbered(stem, j) \in B
    BY <2>2, <2>4
  <2> DEFINE c == CHOOSE m \in Numbers : /\ Numbered(stem, m) \notin B
                                         /\ \A j \in 2..(m - 1) : Numbered(stem, j) \in B
  <2>6. c \in Numbers /\ Numbered(stem, c) \notin B
    BY <2>5
  <2>7. Choice(stem, B) = Numbered(stem, c)
    BY <1>2 DEF Choice
  <2> HIDE DEF c
  <2> QED
    BY <1>2, <2>6, <2>7
<1> QED
  BY <1>1, <1>2

-----------------------------------------------------------------------------
(* Children in the order in which they are written                         *)

Sorted(q, S) ==
    /\ q \in [1..Cardinality(S) -> S]
    /\ \A i, j \in 1..Cardinality(S) : i < j => q[i] < q[j]

\* A set of numbers can be listed in order.
LEMMA Sortable ==
    ASSUME NEW n \in Nat, NEW S \in SUBSET (1..n)
    PROVE  \E q : Sorted(q, S)
<1> DEFINE N == {m \in Nat : \A s \in SUBSET (1..m) : \E q : Sorted(q, s)}
<1>1. 0 \in N
  <2> SUFFICES ASSUME NEW s \in SUBSET (1..0) PROVE \E q : Sorted(q, s)
    OBVIOUS
  <2>1. s = {}
    OBVIOUS
  <2>a. Cardinality(s) = 0
    BY <2>1, FS_EmptySet
  <2>2. 1..0 = {}
    OBVIOUS
  <2> DEFINE q == [i \in 1..0 |-> i]
  <2>3. q \in [1..0 -> s]
    BY <2>2
  <2>4. \A i, j \in 1..0 : i < j => q[i] < q[j]
    OBVIOUS
  <2> HIDE DEF q
  <2>5. Sorted(q, s)
    BY <2>a, <2>3, <2>4 DEF Sorted
  <2> QED
    BY <2>5
<1>2. ASSUME NEW m \in Nat, m \in N PROVE m + 1 \in N
  <2> SUFFICES ASSUME NEW s \in SUBSET (1..(m + 1)) PROVE \E q : Sorted(q, s)
    OBVIOUS
  <2>1. CASE m + 1 \notin s
    <3>1. s \in SUBSET (1..m)
      BY <2>1
    <3> QED
      BY <1>2, <3>1
  <2>2. CASE m + 1 \in s
    <3> DEFINE r == s \ {m + 1}
               k == Cardinality(r)
    <3>1. r \in SUBSET (1..m)
      OBVIOUS
    <3>2. k \in Nat /\ Cardinality(s) = k + 1
      <4>1. IsFiniteSet(s)
        <5>1. m + 1 \in Nat
          OBVIOUS
        <5> QED
          BY <5>1, UpToFinite
      <4>2. IsFiniteSet(r) /\ Cardinality(r) = Cardinality(s) - 1
        BY <2>2, <4>1, FS_RemoveElement
      <4> HIDE DEF r
      <4>3. Cardinality(r) \in Nat /\ Cardinality(s) \in Nat
        BY <4>1, <4>2, FS_CardinalityType
      <4> QED
        BY <4>2, <4>3
    <3>3. PICK q : Sorted(q, r)
      <4> HIDE DEF r
      <4> QED
        BY <1>2, <3>1
    <3>4. q \in [1..k -> r] /\ \A i, j \in 1..k : i < j => q[i] < q[j]
      BY <3>3 DEF Sorted
    <3> DEFINE p == [i \in 1..(k + 1) |-> IF i <= k THEN q[i] ELSE m + 1]
    <3> HIDE DEF k
    <3>5. p \in [1..(k + 1) -> s]
      <4>1. \A i \in 1..(k + 1) : i <= k => q[i] \in s
        BY <3>2, <3>4
      <4> HIDE DEF r
      <4> QED
        BY <2>2, <3>2, <4>1
    <3>6. ASSUME NEW i \in 1..(k + 1), NEW j \in 1..(k + 1), i < j PROVE p[i] < p[j]
      <4>1. i <= k /\ i \in 1..k
        BY <3>2, <3>6
      <4>2. q[i] < m + 1
        <5>1. q[i] \in r
          BY <3>4, <4>1
        <5>2. q[i] \in 1..m
          BY <3>1, <5>1
        <5> QED
          BY <5>2
      <4>3. CASE j <= k
        <5>1. j \in 1..k
          BY <3>2, <4>3
        <5>2. q[i] < q[j]
          BY <3>4, <3>6, <4>1, <5>1
        <5> QED
          BY <4>1, <4>3, <5>2
      <4>4. CASE ~(j <= k)
        BY <4>1, <4>2, <4>4
      <4> QED
        BY <4>3, <4>4
    <3> HIDE DEF p, r
    <3>7. Sorted(p, s)
      BY <3>2, <3>5, <3>6 DEF Sorted
    <3> QED
      BY <3>7
  <2> QED
    BY <2>1, <2>2
<1>3. n \in N
  <2> HIDE DEF N
  <2> QED
    BY <1>1, <1>2, AllNaturals
<1> QED
  BY <1>3

\* q lists S, every element once.
Lists(q, S) ==
    /\ q \in [1..Cardinality(S) -> S] /\ Cardinality(S) \in Nat
    /\ \A i, j \in 1..Cardinality(S) : q[i] = q[j] => i = j
    /\ \A c \in S : \E i \in 1..Cardinality(S) : q[i] = c

\* SetToSeqs(S) is the lists of S.
LEMMA SeqsList ==
    ASSUME NEW S, IsFiniteSet(S), NEW q \in SetToSeqs(S)
    PROVE  Lists(q, S)
<1> DEFINE K == Cardinality(S)
<1>1. K \in Nat
  BY FS_CardinalityType
<1>2. q \in [1..K -> S] /\ \A i, j \in 1..K : i # j => q[i] # q[j]
  BY DEF SetToSeqs
<1>3. IsFiniteSet(1..K) /\ Cardinality(1..K) = K
  <2> HIDE DEF K
  <2>1. 1 \in Int /\ K \in Int
    BY <1>1
  <2>2. IsFiniteSet(1..K) /\ Cardinality(1..K) = IF 1 > K THEN 0 ELSE K - 1 + 1
    BY <2>1, FS_Interval
  <2> QED
    BY <1>1, <2>2
<1>4. q \in Injection(1..K, S)
  BY <1>2 DEF Injection, IsInjective
<1>5. q \in Surjection(1..K, S)
  BY <1>3, <1>4, FS_Injection
<1>6. \A c \in S : \E i \in 1..K : q[i] = c
  BY <1>5 DEF Surjection
<1> QED
  BY <1>1, <1>2, <1>6 DEF Lists

\* The children of an object can be listed as they are written.
LEMMA InOrderLists ==
    ASSUME KeysFit, NEW d
    PROVE  Lists(InOrder(d), In(d)) /\ IsFiniteSet(In(d))
<1>1. In(d) \in SUBSET (1..NObjects) /\ NObjects \in Nat
  BY DEF In, Objects, KeysFit
<1>2. IsFiniteSet(In(d))
  BY <1>1, UpToFinite
<1>3. PICK q : Sorted(q, In(d))
  BY <1>1, Sortable
<1> DEFINE K == Cardinality(In(d))
<1>4. q \in [1..K -> In(d)] /\ \A i, j \in 1..K : i < j => q[i] < q[j]
  BY <1>3 DEF Sorted
<1>5. K \in Nat
  BY <1>2, FS_CardinalityType
<1> HIDE DEF K
<1>6. ASSUME NEW i \in 1..K, NEW j \in 1..K, i # j PROVE q[i] # q[j]
  <2>1. q[i] \in Int /\ q[j] \in Int
    BY <1>1, <1>4
  <2>2. i < j \/ j < i
    BY <1>5, <1>6
  <2> QED
    BY <1>4, <2>1, <2>2
<1>7. q \in SetToSeqs(In(d)) /\ \A i, j \in DOMAIN q : i < j => q[i] < q[j]
  <2>1. DOMAIN q = 1..K
    BY <1>4
  <2> QED
    BY <1>4, <1>6, <2>1 DEF SetToSeqs, K
<1>8. InOrder(d) \in SetToSeqs(In(d))
  BY <1>7 DEF InOrder
<1> QED
  BY <1>2, <1>8, SeqsList

\* A unique name is a name that nothing else has, and the one asked for if it is free.
LEMMA UniqueFits ==
    ASSUME KeysFit, NEW n \in AllNames, NEW T, NEW inc, n \in Names \/ inc = {},
           n \in inc \cup T =>
             IsFiniteSet(inc \cup T) /\ Cardinality(inc \cup T) < 2 * NObjects - 1
    PROVE  /\ Choice(StemIn(n, T), inc \cup T) \in AllNames
           /\ Choice(StemIn(n, T), inc \cup T) \notin inc \cup T
           /\ n \notin inc \cup T => Choice(StemIn(n, T), inc \cup T) = n
<1> DEFINE B == inc \cup T
           stem == StemIn(n, T)
<1>1. /\ \A m \in AllNames : m \in Seq(Signs) /\ Size(m) \in Nat \ {0}
      /\ \A m \in AllNames : Size(m) > 1 => Stem(m) \in Names
      /\ \A m \in Names, k \in Numbers : Numbered(m, k) \in AllNames
      /\ Names \subseteq AllNames
  BY NamesFit
<1>2. n \notin T => stem = n
  BY DEF StemIn
<1>3. n \in T => stem \in Names
  <2>1. CASE n \in Names
    BY <1>1, <2>1 DEF StemIn
  <2>2. CASE n \notin Names
    <3>1. PICK m \in Names, k \in Numbers : n = Numbered(m, k)
      BY <2>2 DEF AllNames, Numbered
    <3>2. Size(n) = Size(m) + 1 /\ Size(m) \in Nat \ {0}
      BY <1>1, <3>1, NumberedFacts
    <3>3. Size(n) > 1
      BY <3>2
    <3> QED
      BY <1>1, <3>3 DEF StemIn
  <2> QED
    BY <2>1, <2>2
<1>4. n \in inc => n \in Names
  OBVIOUS
<1>5. stem \in Seq(Signs) /\ stem \in AllNames
  BY <1>1, <1>2, <1>3
<1>6. stem \in B => n \in B /\ stem \in Names
  BY <1>2, <1>3, <1>4
<1>7. n \in B => IsFiniteSet(B) /\ Cardinality(B) < 2 * NObjects - 1
  OBVIOUS
<1>8. n \notin B => stem = n
  BY <1>2
<1> HIDE DEF B, stem
<1>9. /\ Choice(stem, B) \notin B
      /\ Choice(stem, B) = stem \/ \E k \in Numbers : Choice(stem, B) = Numbered(stem, k)
      /\ stem \notin B => Choice(stem, B) = stem
  BY <1>5, <1>6, <1>7, ChoiceIs
<1>10. Choice(stem, B) \in AllNames
  BY <1>1, <1>5, <1>6, <1>9
<1>11. n \notin B => Choice(stem, B) = n
  BY <1>8, <1>9
<1> QED
  BY <1>9, <1>10, <1>11 DEF B, stem

-----------------------------------------------------------------------------
(* A diagram that has not been edited                                        *)

Unedited ==
    /\ container \in [Objects -> {Top} \cup Objects] /\ named \in [Objects -> Names]
    /\ deleted = {} /\ predicted = named
    /\ \A o \in Objects : container[o] < o
    /\ \A a, b \in Objects : a # b /\ container[a] = container[b] => named[a] # named[b]

\* Children and siblings of an object are others than it, with names of their own.
LEMMA Family ==
    ASSUME KeysFit, Unedited, NEW d \in Objects
    PROVE  /\ In(d) \subseteq Objects \ {d}
           /\ d \in In(container[d]) /\ In(container[d]) \subseteq Objects
           /\ In(d) \cap In(container[d]) = {}
           /\ \A a, b \in In(d) : a # b => named[a] # named[b]
           /\ \A a, b \in In(container[d]) : a # b => named[a] # named[b]
<1>1. \A o \in Objects : o \in Int /\ container[o] \in Int /\ container[o] < o
  BY DEF KeysFit, Unedited, Objects, Top
<1> QED
  BY <1>1 DEF Unedited, In

\* What is in the way where the children of d go, and who has it.
Outside(d) == Taken(named, container[d], Ignored(d))

\* What is in the way of a child that is hoisted are names of other objects; the
\* name of the object deleted is one of them if the child has it.
LEMMA OutsideIs ==
    ASSUME KeysFit, Unedited, NEW d \in Objects
    PROVE  /\ Outside(d) \subseteq {named[o] : o \in Objects \ In(d)}
           /\ \A c \in In(d) : named[c] = named[d] => named[d] \in Outside(d)
           /\ \A n : n # named[d] => (n \in Taken(named, container[d], {d}) <=> n \in Outside(d))
           /\ \A o \in In(container[d]) \ {d} : named[o] \in Outside(d)
<1>1. /\ d \in In(container[d]) /\ In(container[d]) \subseteq Objects
      /\ In(d) \cap In(container[d]) = {}
  BY Family
<1>2. Ignored(d) \subseteq {d} /\ \A c \in In(d) : named[c] = named[d] => Ignored(d) = {}
  BY DEF Ignored
<1>3. Outside(d) \subseteq {named[o] : o \in Objects \ In(d)}
  BY <1>1 DEF Outside, Taken
<1>4. \A c \in In(d) : named[c] = named[d] => named[d] \in Outside(d)
  BY <1>1, <1>2 DEF Outside, Taken
<1>5. ASSUME NEW n, n # named[d]
      PROVE  n \in Taken(named, container[d], {d}) <=> n \in Outside(d)
  BY <1>2, <1>5 DEF Outside, Taken
<1>6. \A o \in In(container[d]) \ {d} : named[o] \in Outside(d)
  BY <1>2 DEF Outside, Taken
<1> QED
  BY <1>3, <1>4, <1>5, <1>6

-----------------------------------------------------------------------------
(* One child after the other                                                 *)

NewName(d, c, included) ==
    Choice(StemIn(named[c], Outside(d)), included \cup Outside(d))

\* The names of other children that have not been looked at.
Rest(d, v, c) == {named[o] : o \in In(d) \ {c}} \ (v.seen \cup {named[c]})
Siblings(d, c) == {named[o] : o \in In(d) \ {c}} \ {named[d]}

RenameState ==
    [seen : SUBSET AllNames, new : SUBSET AllNames, names : [Objects -> AllNames]]
PredictState == [new : SUBSET AllNames, names : [Objects -> AllNames]]

\* renameConflictsToParent skips a child with a name it has seen,
LEMMA RenameSeen ==
    ASSUME NEW d, NEW c, NEW v, named[c] \in v.seen
    PROVE  RenameChild(d, v, c) = v
  BY DEF RenameChild

\* only notes the name of one with the name of its container,
LEMMA RenameOwn ==
    ASSUME NEW d, NEW c, NEW v, named[c] \notin v.seen, named[c] = named[d]
    PROVE  RenameChild(d, v, c) = [v EXCEPT !.seen = v.seen \cup {named[c]}]
  BY DEF RenameChild

\* and gives any other a name that is free, among those still to come as well.
LEMMA RenameOther ==
    ASSUME NEW d, NEW c, NEW v, named[c] \notin v.seen, named[c] # named[d]
    PROVE  LET x == NewName(d, c, v.new \cup Rest(d, v, c))
           IN  RenameChild(d, v, c) =
                 [seen |-> v.seen \cup {named[c]} \cup {x}, new |-> v.new \cup {x},
                  names |-> [v.names EXCEPT ![c] = x]]
<1>1. Unique(named[c], container[d], Ignored(d), v.new \cup Rest(d, v, c))
        = NewName(d, c, v.new \cup Rest(d, v, c))
  BY UniqueIs DEF Unique, NewName, Outside
<1> QED
  BY <1>1 DEF RenameChild, Rest

\* What DeleteIDDeltas does with a child.
LEMMA PredictIs ==
    ASSUME NEW d, NEW c, NEW v
    PROVE  /\ named[c] = named[d] => Predict(d, v, c) = v
           /\ named[c] # named[d] =>
                LET x == IF named[c] \in Taken(named, container[d], {d}) \/ named[c] \in v.new
                         THEN NewName(d, c, v.new \cup Siblings(d, c)) ELSE named[c]
                IN  Predict(d, v, c) =
                      [new |-> v.new \cup {x}, names |-> [v.names EXCEPT ![c] = x]]
<1>1. Unique(named[c], container[d], Ignored(d), v.new \cup Siblings(d, c))
        = NewName(d, c, v.new \cup Siblings(d, c))
  BY UniqueIs DEF Unique, NewName, Outside
<1> QED
  BY <1>1 DEF Predict, Siblings

\* A new name of c, given names of others that are in the way.
LEMMA NewNameFits ==
    ASSUME KeysFit, Unedited, NEW d \in Objects, NEW c \in In(d), NEW names, NEW inc,
           inc \subseteq {named[o] : o \in In(d) \ {c}} \cup {names[o] : o \in In(d) \ {c}}
    PROVE  /\ NewName(d, c, inc) \in AllNames
           /\ NewName(d, c, inc) \notin inc \cup Outside(d)
           /\ named[c] \notin inc \cup Outside(d) => NewName(d, c, inc) = named[c]
<1>1. In(d) \subseteq Objects \ {d}
  BY Family
<1>2. Outside(d) \subseteq {named[o] : o \in Objects \ In(d)}
  BY OutsideIs
<1>3. Crowd(inc \cup Outside(d), c, named, names)
  BY <1>1, <1>2 DEF Crowd
<1>4. /\ IsFiniteSet(inc \cup Outside(d))
      /\ Cardinality(inc \cup Outside(d)) < 2 * NObjects - 1
  BY <1>1, <1>3, CrowdSmall
<1>5. named[c] \in Names /\ named[c] \in AllNames
  BY <1>1, NamesFit DEF Unedited
<1> QED
  BY <1>4, <1>5, UniqueFits DEF NewName

\* The names that renameConflictsToParent gives are in reach and tell what is new.
LEMMA RenameStays ==
    ASSUME KeysFit, Unedited, NEW d \in Objects, NEW c \in In(d), NEW v \in RenameState,
           v.new \subseteq {v.names[o] : o \in In(d) \ {c}}
    PROVE  LET w == RenameChild(d, v, c)
           IN  /\ w \in RenameState /\ w.new \subseteq v.new \cup {w.names[c]}
               /\ \A o \in Objects \ {c} : w.names[o] = v.names[o]
<1> DEFINE x == NewName(d, c, v.new \cup Rest(d, v, c))
<1>1. v.new \cup Rest(d, v, c) \subseteq
        {named[o] : o \in In(d) \ {c}} \cup {v.names[o] : o \in In(d) \ {c}}
  BY DEF Rest
<1>2. x \in AllNames
  BY <1>1, NewNameFits
<1>3. /\ v.seen \subseteq AllNames /\ v.new \subseteq AllNames
      /\ v.names \in [Objects -> AllNames] /\ DOMAIN v.names = Objects
  BY DEF RenameState
<1>4. c \in Objects /\ named[c] \in AllNames
  BY Family, NamesFit DEF Unedited
<1> HIDE DEF x
<1>5. CASE named[c] \in v.seen
  <2>1. RenameChild(d, v, c) = v
    BY <1>5, RenameSeen
  <2> QED
    BY <2>1
<1>6. CASE named[c] \notin v.seen /\ named[c] = named[d]
  <2> DEFINE w == [v EXCEPT !.seen = v.seen \cup {named[c]}]
  <2>1. RenameChild(d, v, c) = w
    BY <1>6, RenameOwn
  <2>2. w \in RenameState /\ w.new = v.new /\ w.names = v.names
    BY <1>3, <1>4 DEF RenameState
  <2> HIDE DEF w
  <2> QED
    BY <2>1, <2>2
<1>7. CASE named[c] \notin v.seen /\ named[c] # named[d]
  <2> DEFINE w == [seen |-> v.seen \cup {named[c]} \cup {x}, new |-> v.new \cup {x},
                   names |-> [v.names EXCEPT ![c] = x]]
  <2>1. RenameChild(d, v, c) = w
    BY <1>7, RenameOther DEF x
  <2>2. w \in RenameState
    BY <1>2, <1>3, <1>4 DEF RenameState
  <2>3. w.new = v.new \cup {x} /\ w.names[c] = x
        /\ \A o \in Objects \ {c} : w.names[o] = v.names[o]
    BY <1>3, <1>4
  <2> HIDE DEF w
  <2> QED
    BY <2>1, <2>2, <2>3
<1> QED
  BY <1>5, <1>6, <1>7

\* So are those that DeleteIDDeltas gives.
LEMMA PredictStays ==
    ASSUME KeysFit, Unedited, NEW d \in Objects, NEW c \in In(d), NEW v \in PredictState,
           v.new \subseteq {v.names[o] : o \in In(d) \ {c}}
    PROVE  LET w == Predict(d, v, c)
           IN  /\ w \in PredictState /\ w.new \subseteq v.new \cup {w.names[c]}
               /\ \A o \in Objects \ {c} : w.names[o] = v.names[o]
<1> DEFINE x == IF named[c] \in Taken(named, container[d], {d}) \/ named[c] \in v.new
                THEN NewName(d, c, v.new \cup Siblings(d, c)) ELSE named[c]
<1>1. v.new \cup Siblings(d, c) \subseteq
        {named[o] : o \in In(d) \ {c}} \cup {v.names[o] : o \in In(d) \ {c}}
  BY DEF Siblings
<1>2. v.new \subseteq AllNames /\ v.names \in [Objects -> AllNames] /\ DOMAIN v.names = Objects
  BY DEF PredictState
<1>3. c \in Objects /\ named[c] \in AllNames
  BY Family, NamesFit DEF Unedited
<1>4. x \in AllNames
  BY <1>1, <1>3, NewNameFits
<1>5. CASE named[c] = named[d]
  <2>1. Predict(d, v, c) = v
    BY <1>5, PredictIs
  <2> QED
    BY <2>1
<1>6. CASE named[c] # named[d]
  <2> DEFINE w == [new |-> v.new \cup {x}, names |-> [v.names EXCEPT ![c] = x]]
  <2>1. Predict(d, v, c) = w
    BY <1>6, PredictIs
  <2> HIDE DEF x
  <2>2. w \in PredictState
    BY <1>2, <1>3, <1>4 DEF PredictState
  <2>3. w.new = v.new \cup {x} /\ w.names[c] = x
        /\ \A o \in Objects \ {c} : w.names[o] = v.names[o]
    BY <1>2, <1>3
  <2> HIDE DEF w
  <2> QED
    BY <2>1, <2>2, <2>3
<1> QED
  BY <1>5, <1>6

-----------------------------------------------------------------------------
(* The folds over the children: what they come to after each child           *)

Children(d) == Cardinality(In(d))

\* renameConflictsToParent is a chain of renames, one for each child.
LEMMA RenameChain ==
    ASSUME KeysFit, Unedited, NEW d \in Objects
    PROVE  \E f : /\ \A i \in 0..Children(d) : f[i] \in RenameState
                  /\ f[0] = [seen |-> {}, new |-> {}, names |-> named]
                  /\ \A i \in 1..Children(d) : f[i] = RenameChild(d, f[i - 1], InOrder(d)[i])
                  /\ Renamed(d) = f[Children(d)].names
<1> DEFINE q == InOrder(d)
           K == Children(d)
           S == 1..K
           base == [seen |-> {}, new |-> {}, names |-> named]
           J == [s \in SUBSET S |-> {v \in RenameState : v.new \subseteq {v.names[q[j]] : j \in s}}]
           Op(v, i) == RenameChild(d, v, q[i])
           h == [p \in S \X RenameState |-> IF Op(p[2], p[1]) \in RenameState THEN Op(p[2], p[1]) ELSE base]
           pick == [s \in SUBSET S |-> Greatest(s)]
           Folds(g) == g = [s \in SUBSET DOMAIN q |->
                              IF s = {} THEN base ELSE RenameChild(d, g[s \ {Max(s)}], q[Max(s)])]
<1>1. Renamed(d) = (CHOOSE g : Folds(g))[DOMAIN q].names
  BY DEF Renamed, FoldLeft, MapThenFoldSet
<1>2. /\ q \in [1..K -> In(d)] /\ DOMAIN q = S /\ K \in Nat
      /\ \A i, j \in 1..K : q[i] = q[j] => i = j
  BY InOrderLists DEF Lists, Children
<1>3. IsFiniteSet(S) /\ S \in SUBSET (1..K)
  BY <1>2, UpToFinite
<1>4. /\ \A s \in SUBSET S : s # {} => Max(s) \in s /\ pick[s] = Max(s)
      /\ \A i \in 1..K : Max(1..i) = i /\ (1..i) \ {i} = 1..(i - 1)
  <2>1. \A s : Max(s) = Greatest(s)
    BY DEF Max, Greatest
  <2>2. \A s \in SUBSET S : s # {} => Greatest(s) \in s
    BY <1>2, GreatestPicks
  <2>3. ASSUME NEW i \in 1..K
        PROVE  Greatest(1..i) = i /\ (1..i) \ {i} = 1..(i - 1)
    <3>1. i \in Nat /\ i > 0
      BY <1>2
    <3> QED
      BY <3>1, GreatestPicks
  <2> QED
    BY <2>1, <2>2, <2>3
<1>5. base \in RenameState /\ base.new = {}
  BY NamesFit DEF RenameState, Unedited
<1>6. h \in [S \X RenameState -> RenameState]
  <2> HIDE DEF Op, base, S
  <2> QED
    BY <1>5
<1>7. Picks(pick, S)
  BY <1>4 DEF Picks
<1>8. PICK g \in [SUBSET S -> RenameState] : Folded(g, S, base, h, pick)
  <2> HIDE DEF S, base, h, pick
  <2> QED
    BY <1>3, <1>5, <1>6, <1>7, FoldsExist
<1>9. ASSUME NEW s \in SUBSET S, s # {}, NEW v \in J[s \ {Max(s)}]
      PROVE  /\ Op(v, Max(s)) \in J[s] /\ h[<<Max(s), v>>] = Op(v, Max(s))
             /\ v \in RenameState /\ Max(s) \in S
  <2> DEFINE m == Max(s)
             c == q[m]
             w == RenameChild(d, v, c)
  <2>1. m \in s /\ m \in S /\ c \in In(d)
    BY <1>2, <1>4, <1>9
  <2>2. v \in RenameState /\ v.new \subseteq {v.names[q[j]] : j \in s \ {m}}
    BY <1>9
  <2>3. \A j \in s \ {m} : q[j] \in In(d) \ {c}
    BY <1>2, <2>1
  <2>4. /\ w \in RenameState /\ w.new \subseteq v.new \cup {w.names[c]}
        /\ \A o \in Objects \ {c} : w.names[o] = v.names[o]
    <3>1. v.new \subseteq {v.names[o] : o \in In(d) \ {c}}
      BY <2>2, <2>3
    <3> HIDE DEF c
    <3> QED
      BY <2>1, <2>2, <3>1, RenameStays
  <2>5. \A j \in s \ {m} : w.names[q[j]] = v.names[q[j]]
    BY <2>3, <2>4, Family
  <2>6. w.new \subseteq {w.names[q[j]] : j \in s}
    <3> HIDE DEF w
    <3> QED
      BY <2>1, <2>2, <2>4, <2>5
  <2>7. w \in J[s] /\ Op(v, m) = w
    BY <2>4, <2>6
  <2>8. h[<<m, v>>] = Op(v, m)
    <3> HIDE DEF w, m, S
    <3>1. <<m, v>> \in S \X RenameState /\ Op(v, m) \in RenameState
      BY <2>1, <2>2, <2>4, <2>7
    <3> HIDE DEF Op
    <3> QED
      BY <3>1
  <2> HIDE DEF w
  <2> QED
    BY <2>1, <2>2, <2>7, <2>8
<1>10. \A s \in SUBSET S : g[s] \in J[s]
  <2>1. base \in J[{}]
    <3> HIDE DEF base
    <3> QED
      BY <1>5
  <2>2. ASSUME NEW s \in SUBSET S, s # {}, NEW v \in J[s \ {pick[s]}]
        PROVE  h[<<pick[s], v>>] \in J[s]
    <3>1. pick[s] = Max(s)
      BY <1>4, <2>2
    <3> HIDE DEF J, h, Op, pick, S
    <3> QED
      BY <1>9, <2>2, <3>1
  <2> HIDE DEF S, base, h, pick, J
  <2>3. Keeps(h, S, pick, J)
    BY <2>2 DEF Keeps
  <2>4. IsFiniteSet(S) /\ Picks(pick, S) /\ Folded(g, S, base, h, pick)
    BY <1>3, <1>7, <1>8
  <2> QED
    BY <2>1, <2>3, <2>4, FoldsStay
<1>11. ASSUME NEW s \in SUBSET S, s # {}
       PROVE  g[s] = RenameChild(d, g[s \ {Max(s)}], q[Max(s)])
  <2>1. pick[s] = Max(s)
    BY <1>4, <1>11
  <2>2. g[s] = h[<<Max(s), g[s \ {Max(s)}]>>]
    <3> HIDE DEF h, pick, base, S
    <3> QED
      BY <1>8, <1>11, <2>1 DEF Folded
  <2>3. s \ {Max(s)} \in SUBSET S
    OBVIOUS
  <2> HIDE DEF h, pick, base, S, J
  <2>4. g[s \ {Max(s)}] \in J[s \ {Max(s)}]
    BY <1>10, <2>3
  <2>5. h[<<Max(s), g[s \ {Max(s)}]>>] = Op(g[s \ {Max(s)}], Max(s))
    <3> HIDE DEF Op
    <3> QED
      BY <1>9, <1>11, <2>4
  <2> QED
    BY <2>2, <2>5
<1>12. Folds(g)
  <2>1. g = [s \in SUBSET S |-> g[s]]
    OBVIOUS
  <2>2. g[{}] = base
    <3> HIDE DEF h, pick, base, S
    <3> QED
      BY <1>8 DEF Folded
  <2> HIDE DEF base, S
  <2>3. \A s \in SUBSET S :
          g[s] = IF s = {} THEN base ELSE RenameChild(d, g[s \ {Max(s)}], q[Max(s)])
    BY <1>11, <2>2
  <2> QED
    BY <1>2, <2>1, <2>3
<1>13. PICK k : Folds(k) /\ Renamed(d) = k[S].names
  <2> DEFINE k == CHOOSE k : Folds(k)
  <2> HIDE DEF Folds
  <2>1. Folds(k)
    BY <1>12
  <2>2. Renamed(d) = k[S].names
    BY <1>1, <1>2
  <2> QED
    BY <2>1, <2>2
<1> DEFINE f == [i \in 0..K |-> k[1..i]]
<1>14. k[{}] = base
       /\ \A s \in SUBSET S : s # {} => k[s] = RenameChild(d, k[s \ {Max(s)}], q[Max(s)])
  <2> HIDE DEF base, S
  <2> QED
    BY <1>2, <1>13
<1>15. f[0] = base
  <2>1. 1..0 = {} /\ 0 \in 0..K
    BY <1>2
  <2> QED
    BY <1>14, <2>1
<1>16. ASSUME NEW i \in 1..K PROVE f[i] = RenameChild(d, f[i - 1], q[i])
  <2>1. 1..i \in SUBSET S /\ 1..i # {} /\ i - 1 \in 0..K /\ i \in 0..K
    BY <1>2
  <2>2. Max(1..i) = i /\ (1..i) \ {i} = 1..(i - 1)
    BY <1>4
  <2>3. k[1..i] = RenameChild(d, k[1..(i - 1)], q[i])
    BY <1>14, <2>1, <2>2
  <2> QED
    BY <2>1, <2>3
<1>17. \A i \in 0..K : f[i] \in RenameState
  <2> DEFINE N == {i \in Nat : i <= K => f[i] \in J[1..i]}
  <2>1. 0 \in N
    <3>1. 1..0 = {} /\ {} \in SUBSET S
      OBVIOUS
    <3>2. base \in J[{}]
      <4> HIDE DEF base
      <4> QED
        BY <1>5
    <3> HIDE DEF f, J, base
    <3> QED
      BY <1>15, <3>1, <3>2
  <2>2. ASSUME NEW i \in Nat, i \in N PROVE i + 1 \in N
    <3> SUFFICES ASSUME i + 1 <= K PROVE f[i + 1] \in J[1..(i + 1)]
      OBVIOUS
    <3>1. i + 1 \in 1..K /\ 1..(i + 1) \in SUBSET S /\ 1..(i + 1) # {} /\ (i + 1) - 1 = i
      BY <1>2
    <3>2. Max(1..(i + 1)) = i + 1 /\ (1..(i + 1)) \ {i + 1} = 1..i
      BY <1>4, <3>1
    <3>3. f[i + 1] = Op(f[i], i + 1)
      <4> HIDE DEF f
      <4> QED
        BY <1>16, <3>1
    <3>4. f[i] \in J[1..i]
      BY <1>2, <2>2
    <3> HIDE DEF f, J, Op, S
    <3>5. f[i] \in J[(1..(i + 1)) \ {Max(1..(i + 1))}]
      BY <3>2, <3>4
    <3>6. Op(f[i], Max(1..(i + 1))) \in J[1..(i + 1)]
      BY <1>9, <3>1, <3>5
    <3> QED
      BY <3>2, <3>3, <3>6
  <2>3. Nat \subseteq N
    <3> HIDE DEF N
    <3> QED
      BY <2>1, <2>2, AllNaturals
  <2>4. ASSUME NEW i \in 0..K PROVE f[i] \in RenameState
    <3>1. i \in Nat /\ i <= K /\ 1..i \in SUBSET S
      BY <1>2
    <3>2. f[i] \in J[1..i]
      <4> HIDE DEF f, J
      <4> QED
        BY <2>3, <3>1
    <3> HIDE DEF f, S
    <3> QED
      BY <3>1, <3>2
  <2> HIDE DEF f
  <2> QED
    BY <2>4
<1>18. Renamed(d) = f[K].names
  <2>1. K \in 0..K
    BY <1>2
  <2> QED
    BY <1>13, <2>1
<1> HIDE DEF f
<1> QED
  BY <1>15, <1>16, <1>17, <1>18

\* DeleteIDDeltas is a chain of predictions, one for each child.
LEMMA PredictChain ==
    ASSUME KeysFit, Unedited, NEW d \in Objects
    PROVE  \E f : /\ \A i \in 0..Children(d) : f[i] \in PredictState
                  /\ f[0] = [new |-> {}, names |-> named]
                  /\ \A i \in 1..Children(d) : f[i] = Predict(d, f[i - 1], InOrder(d)[i])
                  /\ DeleteIDDeltas(d) = f[Children(d)].names
<1> DEFINE q == InOrder(d)
           K == Children(d)
           S == 1..K
           base == [new |-> {}, names |-> named]
           J == [s \in SUBSET S |-> {v \in PredictState : v.new \subseteq {v.names[q[j]] : j \in s}}]
           Op(v, i) == Predict(d, v, q[i])
           h == [p \in S \X PredictState |-> IF Op(p[2], p[1]) \in PredictState THEN Op(p[2], p[1]) ELSE base]
           pick == [s \in SUBSET S |-> Greatest(s)]
           Folds(g) == g = [s \in SUBSET DOMAIN q |->
                              IF s = {} THEN base ELSE Predict(d, g[s \ {Max(s)}], q[Max(s)])]
<1>1. DeleteIDDeltas(d) = (CHOOSE g : Folds(g))[DOMAIN q].names
  BY DEF DeleteIDDeltas, FoldLeft, MapThenFoldSet
<1>2. /\ q \in [1..K -> In(d)] /\ DOMAIN q = S /\ K \in Nat
      /\ \A i, j \in 1..K : q[i] = q[j] => i = j
  BY InOrderLists DEF Lists, Children
<1>3. IsFiniteSet(S) /\ S \in SUBSET (1..K)
  BY <1>2, UpToFinite
<1>4. /\ \A s \in SUBSET S : s # {} => Max(s) \in s /\ pick[s] = Max(s)
      /\ \A i \in 1..K : Max(1..i) = i /\ (1..i) \ {i} = 1..(i - 1)
  <2>1. \A s : Max(s) = Greatest(s)
    BY DEF Max, Greatest
  <2>2. \A s \in SUBSET S : s # {} => Greatest(s) \in s
    BY <1>2, GreatestPicks
  <2>3. ASSUME NEW i \in 1..K
        PROVE  Greatest(1..i) = i /\ (1..i) \ {i} = 1..(i - 1)
    <3>1. i \in Nat /\ i > 0
      BY <1>2
    <3> QED
      BY <3>1, GreatestPicks
  <2> QED
    BY <2>1, <2>2, <2>3
<1>5. base \in PredictState /\ base.new = {}
  BY NamesFit DEF PredictState, Unedited
<1>6. h \in [S \X PredictState -> PredictState]
  <2> HIDE DEF Op, base, S
  <2> QED
    BY <1>5
<1>7. Picks(pick, S)
  BY <1>4 DEF Picks
<1>8. PICK g \in [SUBSET S -> PredictState] : Folded(g, S, base, h, pick)
  <2> HIDE DEF S, base, h, pick
  <2> QED
    BY <1>3, <1>5, <1>6, <1>7, FoldsExist
<1>9. ASSUME NEW s \in SUBSET S, s # {}, NEW v \in J[s \ {Max(s)}]
      PROVE  /\ Op(v, Max(s)) \in J[s] /\ h[<<Max(s), v>>] = Op(v, Max(s))
             /\ v \in PredictState /\ Max(s) \in S
  <2> DEFINE m == Max(s)
             c == q[m]
             w == Predict(d, v, c)
  <2>1. m \in s /\ m \in S /\ c \in In(d)
    BY <1>2, <1>4, <1>9
  <2>2. v \in PredictState /\ v.new \subseteq {v.names[q[j]] : j \in s \ {m}}
    BY <1>9
  <2>3. \A j \in s \ {m} : q[j] \in In(d) \ {c}
    BY <1>2, <2>1
  <2>4. /\ w \in PredictState /\ w.new \subseteq v.new \cup {w.names[c]}
        /\ \A o \in Objects \ {c} : w.names[o] = v.names[o]
    <3>1. v.new \subseteq {v.names[o] : o \in In(d) \ {c}}
      BY <2>2, <2>3
    <3> HIDE DEF c
    <3> QED
      BY <2>1, <2>2, <3>1, PredictStays
  <2>5. \A j \in s \ {m} : w.names[q[j]] = v.names[q[j]]
    BY <2>3, <2>4, Family
  <2>6. w.new \subseteq {w.names[q[j]] : j \in s}
    <3> HIDE DEF w
    <3> QED
      BY <2>1, <2>2, <2>4, <2>5
  <2>7. w \in J[s] /\ Op(v, m) = w
    BY <2>4, <2>6
  <2>8. h[<<m, v>>] = Op(v, m)
    <3> HIDE DEF w, m, S
    <3>1. <<m, v>> \in S \X PredictState /\ Op(v, m) \in PredictState
      BY <2>1, <2>2, <2>4, <2>7
    <3> HIDE DEF Op
    <3> QED
      BY <3>1
  <2> HIDE DEF w
  <2> QED
    BY <2>1, <2>2, <2>7, <2>8
<1>10. \A s \in SUBSET S : g[s] \in J[s]
  <2>1. base \in J[{}]
    <3> HIDE DEF base
    <3> QED
      BY <1>5
  <2>2. ASSUME NEW s \in SUBSET S, s # {}, NEW v \in J[s \ {pick[s]}]
        PROVE  h[<<pick[s], v>>] \in J[s]
    <3>1. pick[s] = Max(s)
      BY <1>4, <2>2
    <3> HIDE DEF J, h, Op, pick, S
    <3> QED
      BY <1>9, <2>2, <3>1
  <2> HIDE DEF S, base, h, pick, J
  <2>3. Keeps(h, S, pick, J)
    BY <2>2 DEF Keeps
  <2>4. IsFiniteSet(S) /\ Picks(pick, S) /\ Folded(g, S, base, h, pick)
    BY <1>3, <1>7, <1>8
  <2> QED
    BY <2>1, <2>3, <2>4, FoldsStay
<1>11. ASSUME NEW s \in SUBSET S, s # {}
       PROVE  g[s] = Predict(d, g[s \ {Max(s)}], q[Max(s)])
  <2>1. pick[s] = Max(s)
    BY <1>4, <1>11
  <2>2. g[s] = h[<<Max(s), g[s \ {Max(s)}]>>]
    <3> HIDE DEF h, pick, base, S
    <3> QED
      BY <1>8, <1>11, <2>1 DEF Folded
  <2>3. s \ {Max(s)} \in SUBSET S
    OBVIOUS
  <2> HIDE DEF h, pick, base, S, J
  <2>4. g[s \ {Max(s)}] \in J[s \ {Max(s)}]
    BY <1>10, <2>3
  <2>5. h[<<Max(s), g[s \ {Max(s)}]>>] = Op(g[s \ {Max(s)}], Max(s))
    <3> HIDE DEF Op
    <3> QED
      BY <1>9, <1>11, <2>4
  <2> QED
    BY <2>2, <2>5
<1>12. Folds(g)
  <2>1. g = [s \in SUBSET S |-> g[s]]
    OBVIOUS
  <2>2. g[{}] = base
    <3> HIDE DEF h, pick, base, S
    <3> QED
      BY <1>8 DEF Folded
  <2> HIDE DEF base, S
  <2>3. \A s \in SUBSET S :
          g[s] = IF s = {} THEN base ELSE Predict(d, g[s \ {Max(s)}], q[Max(s)])
    BY <1>11, <2>2
  <2> QED
    BY <1>2, <2>1, <2>3
<1>13. PICK k : Folds(k) /\ DeleteIDDeltas(d) = k[S].names
  <2> DEFINE k == CHOOSE k : Folds(k)
  <2> HIDE DEF Folds
  <2>1. Folds(k)
    BY <1>12
  <2>2. DeleteIDDeltas(d) = k[S].names
    BY <1>1, <1>2
  <2> QED
    BY <2>1, <2>2
<1> DEFINE f == [i \in 0..K |-> k[1..i]]
<1>14. k[{}] = base
       /\ \A s \in SUBSET S : s # {} => k[s] = Predict(d, k[s \ {Max(s)}], q[Max(s)])
  <2> HIDE DEF base, S
  <2> QED
    BY <1>2, <1>13
<1>15. f[0] = base
  <2>1. 1..0 = {} /\ 0 \in 0..K
    BY <1>2
  <2> QED
    BY <1>14, <2>1
<1>16. ASSUME NEW i \in 1..K PROVE f[i] = Predict(d, f[i - 1], q[i])
  <2>1. 1..i \in SUBSET S /\ 1..i # {} /\ i - 1 \in 0..K /\ i \in 0..K
    BY <1>2
  <2>2. Max(1..i) = i /\ (1..i) \ {i} = 1..(i - 1)
    BY <1>4
  <2>3. k[1..i] = Predict(d, k[1..(i - 1)], q[i])
    BY <1>14, <2>1, <2>2
  <2> QED
    BY <2>1, <2>3
<1>17. \A i \in 0..K : f[i] \in PredictState
  <2> DEFINE N == {i \in Nat : i <= K => f[i] \in J[1..i]}
  <2>1. 0 \in N
    <3>1. 1..0 = {} /\ {} \in SUBSET S
      OBVIOUS
    <3>2. base \in J[{}]
      <4> HIDE DEF base
      <4> QED
        BY <1>5
    <3> HIDE DEF f, J, base
    <3> QED
      BY <1>15, <3>1, <3>2
  <2>2. ASSUME NEW i \in Nat, i \in N PROVE i + 1 \in N
    <3> SUFFICES ASSUME i + 1 <= K PROVE f[i + 1] \in J[1..(i + 1)]
      OBVIOUS
    <3>1. i + 1 \in 1..K /\ 1..(i + 1) \in SUBSET S /\ 1..(i + 1) # {} /\ (i + 1) - 1 = i
      BY <1>2
    <3>2. Max(1..(i + 1)) = i + 1 /\ (1..(i + 1)) \ {i + 1} = 1..i
      BY <1>4, <3>1
    <3>3. f[i + 1] = Op(f[i], i + 1)
      <4> HIDE DEF f
      <4> QED
        BY <1>16, <3>1
    <3>4. f[i] \in J[1..i]
      BY <1>2, <2>2
    <3> HIDE DEF f, J, Op, S
    <3>5. f[i] \in J[(1..(i + 1)) \ {Max(1..(i + 1))}]
      BY <3>2, <3>4
    <3>6. Op(f[i], Max(1..(i + 1))) \in J[1..(i + 1)]
      BY <1>9, <3>1, <3>5
    <3> QED
      BY <3>2, <3>3, <3>6
  <2>3. Nat \subseteq N
    <3> HIDE DEF N
    <3> QED
      BY <2>1, <2>2, AllNaturals
  <2>4. ASSUME NEW i \in 0..K PROVE f[i] \in PredictState
    <3>1. i \in Nat /\ i <= K /\ 1..i \in SUBSET S
      BY <1>2
    <3>2. f[i] \in J[1..i]
      <4> HIDE DEF f, J
      <4> QED
        BY <2>3, <3>1
    <3> HIDE DEF f, S
    <3> QED
      BY <3>1, <3>2
  <2> HIDE DEF f
  <2> QED
    BY <2>4
<1>18. DeleteIDDeltas(d) = f[K].names
  <2>1. K \in 0..K
    BY <1>2
  <2> QED
    BY <1>13, <2>1
<1> HIDE DEF f
<1> QED
  BY <1>15, <1>16, <1>17, <1>18

\* The moves, of the children in S in the order q.
LEMMA MoveStays ==
    ASSUME KeysFit, NEW d \in Objects, Unedited, NEW new \in [Objects -> AllNames],
           NEW v \in [Objects -> AllNames], NEW c \in In(d)
    PROVE  /\ Move(d, new, v, c) \in [Objects -> AllNames]
           /\ new[c] \notin {v[o] : o \in In(d)} => Move(d, new, v, c) = [v EXCEPT ![c] = new[c]]
<1> DEFINE T == Taken(v, d, {})
           x == Choice(StemIn(new[c], T), {} \cup T)
<1>1. In(d) \subseteq Objects \ {d}
  BY Family
<1>2. T = {v[o] : o \in In(d)}
  BY DEF Taken
<1>3. Crowd({} \cup T, d, v, v)
  BY <1>1, <1>2 DEF Crowd
<1>4. new[c] \in AllNames
  BY <1>1
<1> HIDE DEF T
<1>5. IsFiniteSet({} \cup T) /\ Cardinality({} \cup T) < 2 * NObjects - 1
  BY <1>3, CrowdSmall
<1>6. x \in AllNames /\ (new[c] \notin {} \cup T => x = new[c])
  BY <1>4, <1>5, UniqueFits
<1>7. UniqueAmong(v, new[c], d, {}, {}) = x
  BY UniqueIs DEF T
<1> HIDE DEF x
<1>8. Move(d, new, v, c) = [v EXCEPT ![c] = x]
  BY <1>7 DEF Move
<1> QED
  BY <1>1, <1>2, <1>6, <1>8

\* The moves are a chain too, one for each child that gets another name.
LEMMA MoveChain ==
    ASSUME KeysFit, Unedited, NEW d \in Objects, NEW new \in [Objects -> AllNames],
           NEW C \in SUBSET In(d), NEW q, Lists(q, C)
    PROVE  \E f : /\ \A i \in 0..Cardinality(C) : f[i] \in [Objects -> AllNames]
                  /\ f[0] = named
                  /\ \A i \in 1..Cardinality(C) : f[i] = Move(d, new, f[i - 1], q[i])
                  /\ Moved(d, new, q) = f[Cardinality(C)]
<1> DEFINE K == Cardinality(C)
           S == 1..K
           D == [Objects -> AllNames]
           h == [p \in S \X D |-> Move(d, new, p[2], q[p[1]])]
           pick == [s \in SUBSET S |-> Greatest(s)]
           Folds(g) == g = [s \in SUBSET DOMAIN q |->
                              IF s = {} THEN named
                              ELSE Move(d, new, g[s \ {Max(s)}], q[Max(s)])]
<1>1. Moved(d, new, q) = (CHOOSE g : Folds(g))[DOMAIN q]
  BY DEF Moved, FoldLeft, MapThenFoldSet
<1>2. q \in [1..K -> C] /\ DOMAIN q = S /\ K \in Nat
  BY DEF Lists
<1>3. IsFiniteSet(S) /\ S \in SUBSET (1..K)
  BY <1>2, UpToFinite
<1>4. /\ \A s \in SUBSET S : s # {} => Max(s) \in s /\ pick[s] = Max(s)
      /\ \A i \in 1..K : Max(1..i) = i /\ (1..i) \ {i} = 1..(i - 1)
  <2>1. \A s : Max(s) = Greatest(s)
    BY DEF Max, Greatest
  <2>2. \A s \in SUBSET S : s # {} => Greatest(s) \in s
    BY <1>2, GreatestPicks
  <2>3. ASSUME NEW i \in 1..K
        PROVE  Greatest(1..i) = i /\ (1..i) \ {i} = 1..(i - 1)
    <3>1. i \in Nat /\ i > 0
      BY <1>2
    <3> QED
      BY <3>1, GreatestPicks
  <2> QED
    BY <2>1, <2>2, <2>3
<1>5. named \in D
  BY NamesFit DEF Unedited
<1>6. ASSUME NEW v \in D, NEW i \in S PROVE Move(d, new, v, q[i]) \in D
  <2>1. q[i] \in In(d)
    BY <1>2
  <2> QED
    BY <2>1, MoveStays
<1>7. h \in [S \X D -> D]
  <2> HIDE DEF S, D
  <2> QED
    BY <1>6
<1>8. Picks(pick, S)
  BY <1>4 DEF Picks
<1>9. PICK g \in [SUBSET S -> D] : Folded(g, S, named, h, pick)
  <2> HIDE DEF S, h, pick, D
  <2> QED
    BY <1>3, <1>5, <1>7, <1>8, FoldsExist
<1>10. ASSUME NEW s \in SUBSET S, s # {}
       PROVE  g[s] = Move(d, new, g[s \ {Max(s)}], q[Max(s)])
  <2>1. pick[s] = Max(s) /\ Max(s) \in S
    BY <1>4, <1>10
  <2>2. g[s] = h[<<Max(s), g[s \ {Max(s)}]>>]
    <3> HIDE DEF h, pick, S, D
    <3> QED
      BY <1>9, <1>10, <2>1 DEF Folded
  <2>3. g[s \ {Max(s)}] \in D
    OBVIOUS
  <2> HIDE DEF S, D
  <2> QED
    BY <2>1, <2>2, <2>3
<1>11. Folds(g)
  <2>1. g = [s \in SUBSET S |-> g[s]]
    OBVIOUS
  <2>2. g[{}] = named
    <3> HIDE DEF h, pick, S, D
    <3> QED
      BY <1>9 DEF Folded
  <2> HIDE DEF S
  <2>3. \A s \in SUBSET S :
          g[s] = IF s = {} THEN named ELSE Move(d, new, g[s \ {Max(s)}], q[Max(s)])
    BY <1>10, <2>2
  <2> QED
    BY <1>2, <2>1, <2>3
<1>12. PICK k : Folds(k) /\ Moved(d, new, q) = k[S]
  <2> DEFINE k == CHOOSE k : Folds(k)
  <2> HIDE DEF Folds
  <2>1. Folds(k)
    BY <1>11
  <2>2. Moved(d, new, q) = k[S]
    BY <1>1, <1>2
  <2> QED
    BY <2>1, <2>2
<1> DEFINE f == [i \in 0..K |-> k[1..i]]
<1>13. k[{}] = named
       /\ \A s \in SUBSET S : s # {} => k[s] = Move(d, new, k[s \ {Max(s)}], q[Max(s)])
  <2> HIDE DEF S
  <2> QED
    BY <1>2, <1>12
<1>14. f[0] = named
  <2>1. 1..0 = {} /\ 0 \in 0..K
    BY <1>2
  <2> QED
    BY <1>13, <2>1
<1>15. ASSUME NEW i \in 1..K PROVE f[i] = Move(d, new, f[i - 1], q[i])
  <2>1. 1..i \in SUBSET S /\ 1..i # {} /\ i - 1 \in 0..K /\ i \in 0..K
    BY <1>2
  <2>2. Max(1..i) = i /\ (1..i) \ {i} = 1..(i - 1)
    BY <1>4
  <2>3. k[1..i] = Move(d, new, k[1..(i - 1)], q[i])
    BY <1>13, <2>1, <2>2
  <2> QED
    BY <2>1, <2>3
<1>16. \A i \in 0..K : f[i] \in D
  <2> DEFINE N == {i \in Nat : i <= K => f[i] \in D}
  <2>1. 0 \in N
    BY <1>5, <1>14
  <2>2. ASSUME NEW i \in Nat, i \in N PROVE i + 1 \in N
    <3> SUFFICES ASSUME i + 1 <= K PROVE f[i + 1] \in D
      OBVIOUS
    <3>1. i + 1 \in 1..K /\ (i + 1) - 1 = i /\ f[i] \in D
      BY <1>2, <2>2
    <3>2. f[i + 1] = Move(d, new, f[i], q[i + 1])
      <4> HIDE DEF f
      <4> QED
        BY <1>15, <3>1
    <3> HIDE DEF f, D
    <3> QED
      BY <1>6, <3>1, <3>2
  <2>3. Nat \subseteq N
    <3> HIDE DEF N
    <3> QED
      BY <2>1, <2>2, AllNaturals
  <2> HIDE DEF f
  <2> QED
    BY <1>2, <2>3
<1>17. Moved(d, new, q) = f[K]
  <2>1. K \in 0..K
    BY <1>2
  <2> QED
    BY <1>12, <2>1
<1> HIDE DEF f
<1> QED
  BY <1>14, <1>15, <1>16, <1>17

-----------------------------------------------------------------------------
(* Renaming and foretelling, side by side                                    *)

\* The children that make way; one with the name of d takes the place of d.
Others(d, Q) == {c \in Q : named[c] # named[d]}

\* What renaming (v) and foretelling (w) have come to after the children Q.  They look
\* at different sets of names, but an old name that is missing in one of them is either
\* that of d or was given up because somebody outside has it.
Settled(d, v, w, Q) ==
    /\ w.names = v.names /\ w.new = v.new
    /\ v.seen = {named[c] : c \in Q} \cup v.new
    /\ v.new = {v.names[c] : c \in Others(d, Q)}
    /\ \A o \in Objects \ Others(d, Q) : v.names[o] = named[o]
    /\ \A c \in Others(d, Q) : /\ v.names[c] \notin Outside(d)
                              /\ \A o \in In(d) \ {c} : v.names[c] # named[o]
    /\ \A b, c \in Others(d, Q) : b # c => v.names[b] # v.names[c]
    /\ \A c \in Q : named[c] \in v.new \cup Outside(d)

\* When both loops have come to c, the same names are in its way in both.
LEMMA SettledNames ==
    ASSUME KeysFit, Unedited, NEW d \in Objects, NEW Q \in SUBSET In(d),
           NEW v \in RenameState, NEW w \in PredictState, Settled(d, v, w, Q),
           NEW c \in In(d) \ Q
    PROVE  /\ named[c] \notin v.seen /\ named[c] \notin v.new
           /\ v.new \cup Rest(d, v, c) \cup Outside(d) =
                w.new \cup Siblings(d, c) \cup Outside(d)
           /\ named[c] \notin Rest(d, v, c)
           /\ \A o \in In(d) \ {c} : named[o] \in v.new \cup Rest(d, v, c) \cup Outside(d)
<1>1. /\ In(d) \subseteq Objects \ {d}
      /\ \A a, b \in In(d) : a # b => named[a] # named[b]
  BY Family
<1>2. \A b \in In(d) : named[b] = named[d] => named[d] \in Outside(d)
  BY OutsideIs
<1>3. named[c] \notin v.new
  <2>1. \A b \in Others(d, Q) : v.names[b] # named[c]
    BY DEF Settled, Others
  <2> QED
    BY <2>1 DEF Settled
<1>4. named[c] \notin v.seen
  <2>1. \A b \in Q : named[b] # named[c]
    BY <1>1
  <2> QED
    BY <1>3, <2>1 DEF Settled
<1>5. ASSUME NEW o \in In(d) \ {c}
      PROVE  named[o] \in v.new \cup Rest(d, v, c) \cup Outside(d)
  <2>1. CASE named[o] \in v.seen
    <3>1. named[o] \in v.new \/ \E b \in Q : named[o] = named[b]
      BY <2>1 DEF Settled
    <3> QED
      BY <3>1 DEF Settled
  <2>2. CASE named[o] \notin v.seen
    <3>1. named[o] # named[c]
      BY <1>1
    <3> QED
      BY <2>2, <3>1 DEF Rest
  <2> QED
    BY <2>1, <2>2
<1>6. Siblings(d, c) \subseteq v.new \cup Rest(d, v, c) \cup Outside(d)
  BY <1>5 DEF Siblings
<1>7. Rest(d, v, c) \subseteq Siblings(d, c) \cup Outside(d)
  BY <1>2 DEF Rest, Siblings
<1>8. named[c] \notin Rest(d, v, c)
  BY DEF Rest
<1>9. w.new = v.new
  BY DEF Settled
<1> QED
  BY <1>3, <1>4, <1>5, <1>6, <1>7, <1>8, <1>9

\* So both give c the same name, and both loops stay in step.
LEMMA SettledStep ==
    ASSUME KeysFit, Unedited, NEW d \in Objects, NEW Q \in SUBSET In(d),
           NEW v \in RenameState, NEW w \in PredictState, Settled(d, v, w, Q),
           NEW c \in In(d) \ Q
    PROVE  Settled(d, RenameChild(d, v, c), Predict(d, w, c), Q \cup {c})
<1> DEFINE R == Q \cup {c}
           B == v.new \cup Rest(d, v, c)
<1>1. /\ named[c] \notin v.seen /\ named[c] \notin v.new
      /\ B \cup Outside(d) = w.new \cup Siblings(d, c) \cup Outside(d)
      /\ named[c] \notin Rest(d, v, c)
      /\ \A o \in In(d) \ {c} : named[o] \in B \cup Outside(d)
  BY SettledNames
<1>2. In(d) \subseteq Objects \ {d}
  BY Family
<1>3. /\ v.names \in [Objects -> AllNames] /\ w.names = v.names /\ w.new = v.new
  BY DEF Settled, RenameState
<1>4. CASE named[c] = named[d]
  <2> DEFINE s == [v EXCEPT !.seen = v.seen \cup {named[c]}]
  <2>1. RenameChild(d, v, c) = s
    BY <1>1, <1>4, RenameOwn
  <2>2. Predict(d, w, c) = w
    BY <1>4, PredictIs
  <2>3. s.seen = v.seen \cup {named[c]} /\ s.new = v.new /\ s.names = v.names
    BY DEF RenameState
  <2>4. Others(d, R) = Others(d, Q)
    BY <1>4 DEF Others
  <2>5. s.seen = {named[b] : b \in R} \cup s.new
    BY <2>3 DEF Settled
  <2>6. named[c] \in Outside(d)
    BY <1>4, OutsideIs
  <2> HIDE DEF s
  <2>7. Settled(d, s, w, R)
    <3>1. /\ w.names = s.names /\ w.new = s.new
          /\ s.new = {s.names[b] : b \in Others(d, R)}
      BY <2>3, <2>4 DEF Settled
    <3>2. \A o \in Objects \ Others(d, R) : s.names[o] = named[o]
      BY <2>3, <2>4 DEF Settled
    <3>3. \A b \in Others(d, R) : /\ s.names[b] \notin Outside(d)
                                  /\ \A o \in In(d) \ {b} : s.names[b] # named[o]
      BY <2>3, <2>4 DEF Settled
    <3>4. \A a, b \in Others(d, R) : a # b => s.names[a] # s.names[b]
      BY <2>3, <2>4 DEF Settled
    <3>5. \A b \in R : named[b] \in s.new \cup Outside(d)
      BY <2>3, <2>6 DEF Settled
    <3> QED
      BY <2>5, <3>1, <3>2, <3>3, <3>4, <3>5 DEF Settled
  <2> QED
    BY <2>1, <2>2, <2>7
<1>5. CASE named[c] # named[d]
  <2> DEFINE x == NewName(d, c, B)
             y == IF named[c] \in Taken(named, container[d], {d}) \/ named[c] \in w.new
                  THEN NewName(d, c, w.new \cup Siblings(d, c)) ELSE named[c]
             s == [seen |-> v.seen \cup {named[c]} \cup {x}, new |-> v.new \cup {x},
                   names |-> [v.names EXCEPT ![c] = x]]
             u == [new |-> w.new \cup {y}, names |-> [w.names EXCEPT ![c] = y]]
  <2>1. RenameChild(d, v, c) = s
    BY <1>1, <1>5, RenameOther
  <2>2. Predict(d, w, c) = u
    BY <1>5, PredictIs
  <2>3. x \notin B \cup Outside(d) /\ (named[c] \notin B \cup Outside(d) => x = named[c])
    <3>1. B \subseteq {named[o] : o \in In(d) \ {c}} \cup {v.names[o] : o \in In(d) \ {c}}
      BY DEF Settled, Rest, Others
    <3> HIDE DEF B
    <3> QED
      BY <3>1, NewNameFits
  <2>4. NewName(d, c, w.new \cup Siblings(d, c)) = x
    <3> HIDE DEF B
    <3> QED
      BY <1>1 DEF NewName
  <2>5. named[c] \notin Outside(d) => x = named[c]
    BY <1>1, <2>3
  <2>6. y = x
    <3>1. named[c] \in Taken(named, container[d], {d}) <=> named[c] \in Outside(d)
      BY <1>5, OutsideIs
    <3> HIDE DEF x
    <3> QED
      BY <1>1, <1>3, <2>4, <2>5, <3>1
  <2> HIDE DEF x, y
  <2>7. /\ s.seen = v.seen \cup {named[c]} \cup {x} /\ s.new = v.new \cup {x}
        /\ s.names[c] = x /\ \A o \in Objects \ {c} : s.names[o] = v.names[o]
    BY <1>2, <1>3
  <2>8. u.names = s.names /\ u.new = s.new
    BY <1>3, <2>6
  <2>9. Others(d, R) = Others(d, Q) \cup {c} /\ Others(d, Q) \subseteq Q
        /\ Others(d, Q) \subseteq Objects \ {c}
    BY <1>2, <1>5 DEF Others
  <2>10. \A o \in In(d) \ {c} : x # named[o]
    BY <1>1, <2>3
  <2> HIDE DEF s, u
  <2>11. s.seen = {named[b] : b \in R} \cup s.new
    BY <2>7 DEF Settled
  <2>12. s.new = {s.names[b] : b \in Others(d, R)}
    <3>1. v.new = {v.names[b] : b \in Others(d, Q)}
      BY DEF Settled
    <3>2. \A b \in Others(d, Q) : s.names[b] = v.names[b]
      BY <2>7, <2>9
    <3> DEFINE O == Others(d, Q)
    <3>3. \A b \in O \cup {c} : s.names[b] \in s.new
      BY <2>7, <3>1, <3>2
    <3>4. \A n \in s.new : \E b \in O \cup {c} : n = s.names[b]
      BY <2>7, <3>1, <3>2
    <3> HIDE DEF O
    <3>5. s.new = {s.names[b] : b \in O \cup {c}}
      BY <3>3, <3>4
    <3> QED
      BY <2>9, <3>5 DEF O
  <2>13. \A o \in Objects \ Others(d, R) : s.names[o] = named[o]
    BY <2>7, <2>9 DEF Settled
  <2>14. \A b \in Others(d, R) : /\ s.names[b] \notin Outside(d)
                                 /\ \A o \in In(d) \ {b} : s.names[b] # named[o]
    BY <2>3, <2>7, <2>9, <2>10 DEF Settled
  <2>15. \A a, b \in Others(d, R) : a # b => s.names[a] # s.names[b]
    <3>1. \A b \in Others(d, Q) : v.names[b] # x
      BY <2>3 DEF Settled
    <3>2. \A a, b \in Others(d, Q) : a # b => v.names[a] # v.names[b]
      BY DEF Settled
    <3> QED
      BY <2>7, <2>9, <3>1, <3>2
  <2>16. \A b \in R : named[b] \in s.new \cup Outside(d)
    BY <2>5, <2>7 DEF Settled
  <2>17. Settled(d, s, u, R)
    BY <2>8, <2>11, <2>12, <2>13, <2>14, <2>15, <2>16 DEF Settled
  <2> QED
    BY <2>1, <2>2, <2>17
<1> QED
  BY <1>4, <1>5

-----------------------------------------------------------------------------
(* Delete                                                                    *)

\* The names of hoisted children are in nobody's way, on either side.
Hoists(d, new) ==
    /\ \A o \in Objects \ Others(d, In(d)) : new[o] = named[o]
    /\ \A c \in Others(d, In(d)) : /\ new[c] \notin Outside(d)
                                   /\ \A o \in In(d) \ {c} : new[c] # named[o]
    /\ \A b, c \in Others(d, In(d)) : b # c => new[b] # new[c]

\* The names foretold are those renameConflictsToParent finds, and no two are equal.
LEMMA DeletionForetold ==
    ASSUME KeysFit, Unedited, NEW d \in Objects
    PROVE  /\ Renamed(d) \in [Objects -> AllNames] /\ DeleteIDDeltas(d) = Renamed(d)
           /\ Hoists(d, Renamed(d))
<1> DEFINE q == InOrder(d)
           K == Children(d)
           Q(i) == {q[j] : j \in 1..i}
<1>1. /\ q \in [1..K -> In(d)] /\ K \in Nat
      /\ \A i, j \in 1..K : q[i] = q[j] => i = j
      /\ \A c \in In(d) : \E i \in 1..K : q[i] = c
  BY InOrderLists DEF Lists, Children
<1>2. PICK f : /\ \A i \in 0..K : f[i] \in RenameState
               /\ f[0] = [seen |-> {}, new |-> {}, names |-> named]
               /\ \A i \in 1..K : f[i] = RenameChild(d, f[i - 1], q[i])
               /\ Renamed(d) = f[K].names
  BY RenameChain
<1>3. PICK g : /\ \A i \in 0..K : g[i] \in PredictState
               /\ g[0] = [new |-> {}, names |-> named]
               /\ \A i \in 1..K : g[i] = Predict(d, g[i - 1], q[i])
               /\ DeleteIDDeltas(d) = g[K].names
  BY PredictChain
<1> DEFINE N == {i \in Nat : i <= K => Settled(d, f[i], g[i], Q(i))}
<1>4. 0 \in N
  <2>1. Q(0) = {} /\ Others(d, {}) = {}
    BY DEF Others
  <2>2. /\ f[0].seen = {} /\ f[0].new = {} /\ f[0].names = named
        /\ g[0].new = {} /\ g[0].names = named
    BY <1>2, <1>3
  <2>3. Settled(d, f[0], g[0], {})
    BY <2>1, <2>2 DEF Settled
  <2> QED
    BY <2>1, <2>3
<1>5. ASSUME NEW i \in Nat, i \in N PROVE i + 1 \in N
  <2> SUFFICES ASSUME i + 1 <= K PROVE Settled(d, f[i + 1], g[i + 1], Q(i + 1))
    OBVIOUS
  <2>1. /\ i \in 0..K /\ i + 1 \in 1..K /\ (i + 1) - 1 = i /\ i <= K
        /\ 1..(i + 1) = (1..i) \cup {i + 1} /\ 1..i \subseteq 1..K /\ i + 1 \notin 1..i
    BY <1>1
  <2>2. Q(i) \in SUBSET In(d) /\ q[i + 1] \in In(d) \ Q(i) /\ Q(i + 1) = Q(i) \cup {q[i + 1]}
    BY <1>1, <2>1
  <2>3. f[i + 1] = RenameChild(d, f[i], q[i + 1]) /\ f[i] \in RenameState
    BY <1>2, <2>1
  <2>4. g[i + 1] = Predict(d, g[i], q[i + 1]) /\ g[i] \in PredictState
    BY <1>3, <2>1
  <2>5. Settled(d, f[i], g[i], Q(i))
    BY <1>5, <2>1
  <2> HIDE DEF Q, q
  <2>6. Settled(d, RenameChild(d, f[i], q[i + 1]), Predict(d, g[i], q[i + 1]),
                Q(i) \cup {q[i + 1]})
    BY <2>2, <2>3, <2>4, <2>5, SettledStep
  <2> QED
    BY <2>2, <2>3, <2>4, <2>6
<1>6. Settled(d, f[K], g[K], Q(K))
  <2> HIDE DEF N
  <2>1. K \in N
    BY <1>1, <1>4, <1>5, AllNaturals
  <2> QED
    BY <1>1, <2>1 DEF N
<1>7. Q(K) = In(d)
  BY <1>1
<1>8. f[K] \in RenameState
  BY <1>1, <1>2
<1> HIDE DEF q, Q, K
<1>9. Settled(d, f[K], g[K], In(d))
  BY <1>6, <1>7
<1>10. f[K].names \in [Objects -> AllNames] /\ g[K].names = f[K].names
  BY <1>8, <1>9 DEF RenameState, Settled
<1>11. Hoists(d, f[K].names)
  BY <1>9 DEF Settled, Hoists
<1> QED
  BY <1>2, <1>3, <1>10, <1>11

\* The moves inside the object find every new name free, in whatever order they come.
LEMMA MovesRename ==
    ASSUME KeysFit, Unedited, NEW d \in Objects, NEW new \in [Objects -> AllNames],
           Hoists(d, new), NEW order \in MoveOrders(d, new)
    PROVE  Moved(d, new, order) = new
<1> DEFINE C == {c \in In(d) : new[c] # named[c]}
           K == Cardinality(C)
           Q(i) == {order[j] : j \in 1..i}
           At(i) == [o \in Objects |-> IF o \in Q(i) THEN new[o] ELSE named[o]]
<1>1. In(d) \subseteq Objects \ {d} /\ IsFiniteSet(In(d))
  BY Family, InOrderLists
<1>2. Lists(order, C)
  <2>1. order \in SetToSeqs(C)
    BY DEF MoveOrders
  <2>2. IsFiniteSet(C)
    BY <1>1, FS_Subset
  <2> HIDE DEF C
  <2> QED
    BY <2>1, <2>2, SeqsList
<1>3. /\ order \in [1..K -> C] /\ K \in Nat
      /\ \A i, j \in 1..K : order[i] = order[j] => i = j
      /\ \A c \in C : \E i \in 1..K : order[i] = c
  BY <1>2 DEF Lists
<1>4. C \subseteq Others(d, In(d)) /\ Others(d, In(d)) \subseteq In(d)
  BY <1>1 DEF Hoists, Others
<1>5. PICK f : /\ \A i \in 0..K : f[i] \in [Objects -> AllNames]
               /\ f[0] = named
               /\ \A i \in 1..K : f[i] = Move(d, new, f[i - 1], order[i])
               /\ Moved(d, new, order) = f[K]
  <2>1. C \in SUBSET In(d)
    OBVIOUS
  <2> HIDE DEF C
  <2> QED
    BY <1>2, <2>1, MoveChain
<1> DEFINE N == {i \in Nat : i <= K => f[i] = At(i)}
<1>6. 0 \in N
  <2>1. Q(0) = {}
    OBVIOUS
  <2>2. At(0) = named
    BY <2>1 DEF Unedited
  <2> QED
    BY <1>5, <2>2
<1>7. ASSUME NEW i \in Nat, i \in N PROVE i + 1 \in N
  <2> SUFFICES ASSUME i + 1 <= K PROVE f[i + 1] = At(i + 1)
    OBVIOUS
  <2> DEFINE c == order[i + 1]
  <2>1. /\ i \in 0..K /\ i + 1 \in 1..K /\ (i + 1) - 1 = i /\ i <= K
        /\ 1..(i + 1) = (1..i) \cup {i + 1} /\ 1..i \subseteq 1..K /\ i + 1 \notin 1..i
    BY <1>3
  <2>2. Q(i) \subseteq C /\ c \in C \ Q(i) /\ Q(i + 1) = Q(i) \cup {c}
    BY <1>3, <2>1
  <2>3. f[i + 1] = Move(d, new, f[i], c) /\ f[i] \in [Objects -> AllNames]
    BY <1>5, <2>1
  <2>4. f[i] = At(i)
    BY <1>7, <2>1
  <2>5. c \in In(d) /\ c \in Others(d, In(d)) /\ new[c] # named[c]
    BY <1>4, <2>2
  <2>6. ASSUME NEW o \in In(d) PROVE f[i][o] # new[c]
    <3>1. o \in Objects
      BY <1>1
    <3>2. CASE o = c
      BY <2>2, <2>4, <2>5, <3>1, <3>2
    <3>3. CASE o # c /\ o \in Q(i)
      <4>1. o \in Others(d, In(d)) /\ f[i][o] = new[o]
        BY <1>4, <2>2, <2>4, <3>1, <3>3
      <4> QED
        BY <2>5, <3>3, <4>1 DEF Hoists
    <3>4. CASE o # c /\ o \notin Q(i)
      <4>1. f[i][o] = named[o]
        BY <2>4, <3>1, <3>4
      <4> QED
        BY <2>5, <3>4, <4>1 DEF Hoists
    <3> QED
      BY <3>2, <3>3, <3>4
  <2> HIDE DEF c, Q, C
  <2>7. f[i + 1] = [f[i] EXCEPT ![c] = new[c]]
    <3> DEFINE v == f[i]
    <3>1. new[c] \notin {v[o] : o \in In(d)} /\ v \in [Objects -> AllNames]
      BY <2>3, <2>6
    <3> HIDE DEF v
    <3>2. Move(d, new, v, c) = [v EXCEPT ![c] = new[c]]
      BY <2>5, <3>1, MoveStays
    <3> QED
      BY <2>3, <3>2 DEF v
  <2>8. \A o \in Objects : f[i + 1][o] = At(i + 1)[o]
    BY <2>2, <2>3, <2>4, <2>7
  <2>9. f[i + 1] \in [Objects -> AllNames]
    BY <1>5, <2>1
  <2> QED
    BY <2>8, <2>9
<1>8. f[K] = At(K)
  <2> HIDE DEF N
  <2>1. K \in N
    BY <1>3, <1>6, <1>7, AllNaturals
  <2> QED
    BY <1>3, <2>1 DEF N
<1>9. Q(K) = C
  BY <1>3
<1>10. \A o \in Objects : At(K)[o] = new[o]
  <2>1. \A o \in Objects \ C : new[o] = named[o]
    BY <1>4 DEF Hoists
  <2> HIDE DEF Q, K, C
  <2> QED
    BY <1>9, <2>1
<1>11. At(K) = new
  <2> DEFINE a == At(K)
  <2>1. a = [o \in Objects |-> a[o]]
    OBVIOUS
  <2> HIDE DEF At
  <2> QED
    BY <1>10, <2>1
<1> QED
  BY <1>5, <1>8, <1>11

\* Delete gives the names that DeleteIDDeltas foretold.
LEMMA DeleteStep ==
    ASSUME KeysFit, Unedited, NEW d \in Objects, Delete(d)
    PROVE  TypeOK' /\ AsPredicted' /\ target' # Nobody
<1> DEFINE new == Renamed(d)
<1>1. /\ new \in [Objects -> AllNames] /\ DeleteIDDeltas(d) = new /\ Hoists(d, new)
  BY DeletionForetold
<1>2. /\ named' = new /\ predicted' = new /\ deleted' = {d} /\ target' = d
      /\ container' = [o \in Objects |-> IF o \in In(d) THEN container[d] ELSE container[o]]
  <2>1. PICK order \in MoveOrders(d, new) : named' = Moved(d, new, order)
    BY DEF Delete
  <2> HIDE DEF new
  <2>2. named' = new
    BY <1>1, <2>1, MovesRename
  <2> QED
    BY <1>1, <2>2 DEF Delete
<1> HIDE DEF new
<1>3. d # Nobody
  BY DEF Objects, Nobody, KeysFit
<1>4. \A o \in Objects : /\ o \in In(d) => container'[o] = container[d]
                         /\ o \notin In(d) => container'[o] = container[o]
  BY <1>2
<1>5. ASSUME NEW a \in Objects \ {d}, NEW b \in Objects \ {d}, a # b,
             container'[a] = container'[b], a \in In(d)
      PROVE  new[a] # new[b]
  <2>1. CASE b \in In(d)
    <3>1. CASE a \in Others(d, In(d)) /\ b \in Others(d, In(d))
      BY <1>1, <1>5, <3>1 DEF Hoists
    <3>2. CASE a \in Others(d, In(d)) /\ b \notin Others(d, In(d))
      BY <1>1, <1>5, <2>1, <3>2 DEF Hoists
    <3>3. CASE a \notin Others(d, In(d)) /\ b \in Others(d, In(d))
      BY <1>1, <1>5, <2>1, <3>3 DEF Hoists
    <3>4. CASE a \notin Others(d, In(d)) /\ b \notin Others(d, In(d))
      <4>1. new[a] = named[a] /\ new[b] = named[b]
        BY <1>1, <3>4 DEF Hoists
      <4> QED
        BY <1>5, <2>1, <4>1, Family
    <3> QED
      BY <3>1, <3>2, <3>3, <3>4
  <2>2. CASE b \notin In(d)
    <3>1. container[b] = container[d]
      BY <1>4, <1>5, <2>2
    <3>2. b \in In(container[d]) \ {d} /\ named[b] # named[d]
      BY <3>1 DEF In, Unedited
    <3>3. named[b] \in Outside(d)
      BY <3>2, OutsideIs
    <3>4. new[b] = named[b]
      BY <1>1, <2>2 DEF Hoists, Others
    <3>5. CASE a \in Others(d, In(d))
      BY <1>1, <3>3, <3>4, <3>5 DEF Hoists
    <3>6. CASE a \notin Others(d, In(d))
      <4>1. new[a] = named[a] /\ named[a] = named[d]
        BY <1>1, <1>5, <3>6 DEF Hoists, Others
      <4> QED
        BY <3>2, <3>4, <4>1
    <3> QED
      BY <3>5, <3>6
  <2> QED
    BY <2>1, <2>2
<1>6. ASSUME NEW a \in Objects \ {d}, NEW b \in Objects \ {d}, a # b,
             container'[a] = container'[b]
      PROVE  new[a] # new[b]
  <2>1. CASE a \in In(d) \/ b \in In(d)
    BY <1>5, <1>6, <2>1
  <2>2. CASE a \notin In(d) /\ b \notin In(d)
    <3>1. container[a] = container[b]
      BY <1>4, <1>6, <2>2
    <3>2. new[a] = named[a] /\ new[b] = named[b]
      BY <1>1, <2>2 DEF Hoists, Others
    <3> QED
      BY <1>6, <3>1, <3>2 DEF Unedited
  <2> QED
    BY <2>1, <2>2
<1>7. container' \in [Objects -> {Top} \cup Objects]
  BY <1>2 DEF Unedited
<1>8. TypeOK'
  <2>1. \A a, b \in Objects \ deleted' :
          a # b /\ container'[a] = container'[b] => named'[a] # named'[b]
    BY <1>2, <1>6
  <2> QED
    BY <1>1, <1>2, <1>7, <2>1 DEF TypeOK
<1>9. AsPredicted'
  BY <1>2 DEF AsPredicted
<1> QED
  BY <1>2, <1>3, <1>8, <1>9

-----------------------------------------------------------------------------
(* Rename                                                                    *)

\* A name made unique elsewhere is free there, and kept if it was.
LEMMA RenameFits ==
    ASSUME KeysFit, Unedited, NEW o \in Objects, NEW n \in AllNames, NEW where
    PROVE  LET T == {named[x] : x \in In(where) \ {o}}
           IN  /\ Unique(n, where, {o}, {}) \in AllNames
               /\ Unique(n, where, {o}, {}) \notin T
               /\ n \notin T => Unique(n, where, {o}, {}) = n
<1> DEFINE T == Taken(named, where, {o})
           x == Choice(StemIn(n, T), {} \cup T)
<1>1. T = {named[y] : y \in In(where) \ {o}}
  BY DEF Taken
<1>2. In(where) \subseteq Objects
  BY DEF In
<1>3. Crowd({} \cup T, o, named, named)
  BY <1>1, <1>2 DEF Crowd
<1> HIDE DEF T
<1>4. IsFiniteSet({} \cup T) /\ Cardinality({} \cup T) < 2 * NObjects - 1
  BY <1>3, CrowdSmall
<1>5. x \in AllNames /\ x \notin {} \cup T /\ (n \notin {} \cup T => x = n)
  BY <1>4, UniqueFits
<1>6. Unique(n, where, {o}, {}) = x
  BY UniqueIs DEF Unique, T
<1> HIDE DEF x
<1> QED
  BY <1>1, <1>5, <1>6

\* The name it moves to, among all that are in the same container.
LEMMA OwnFits ==
    ASSUME KeysFit, Unedited, NEW o \in Objects, NEW n \in AllNames, n # named[o]
    PROVE  LET T == {named[x] : x \in In(container[o])}
           IN  /\ Unique(n, container[o], {}, {}) \in AllNames
               /\ Unique(n, container[o], {}, {}) \notin T
               /\ n \notin T => Unique(n, container[o], {}, {}) = n
<1> DEFINE T == Taken(named, container[o], {})
           x == Choice(StemIn(n, T), {} \cup T)
<1>1. T = {named[y] : y \in In(container[o])}
  BY DEF Taken
<1>2. In(container[o]) \in SUBSET Objects
  BY DEF In
<1>3. IsFiniteSet(T) /\ Cardinality(T) <= NObjects /\ NObjects \in Nat
      /\ Cardinality(T) \in Nat
  <2>1. NObjects \in Nat
    BY DEF KeysFit
  <2>2. IsFiniteSet(Objects) /\ Cardinality(Objects) = NObjects
    BY <2>1, FS_Interval DEF Objects
  <2>3. IsFiniteSet(In(container[o])) /\ Cardinality(In(container[o])) <= NObjects
    BY <1>2, <2>2, FS_Subset
  <2> DEFINE S == In(container[o])
  <2> HIDE DEF S
  <2>4. IsFiniteSet({named[y] : y \in S}) /\ Cardinality({named[y] : y \in S}) <= Cardinality(S)
    BY <2>3, ImageSmall DEF S
  <2>5. Cardinality(S) \in Nat /\ Cardinality({named[y] : y \in S}) \in Nat
    BY <2>3, <2>4, FS_CardinalityType DEF S
  <2> QED
    BY <1>1, <2>1, <2>3, <2>4, <2>5 DEF S
<1>4. n \in T => NObjects >= 2
  <2> SUFFICES ASSUME n \in T PROVE NObjects >= 2
    OBVIOUS
  <2>1. PICK y \in Objects : n = named[y]
    BY <1>1, <1>2
  <2>2. y # o
    BY <2>1
  <2> QED
    BY <2>2, <1>3 DEF Objects
<1> HIDE DEF T
<1>5. n \in {} \cup T =>
        IsFiniteSet({} \cup T) /\ Cardinality({} \cup T) < 2 * NObjects - 1
  <2>1. {} \cup T = T
    OBVIOUS
  <2>2. n \in T => Cardinality(T) < 2 * NObjects - 1
    BY <1>3, <1>4
  <2> QED
    BY <1>3, <2>1, <2>2
<1>6. x \in AllNames /\ x \notin {} \cup T /\ (n \notin {} \cup T => x = n)
  BY <1>5, UniqueFits
<1>7. Unique(n, container[o], {}, {}) = x
  BY UniqueIs DEF Unique, T
<1> HIDE DEF x
<1> QED
  BY <1>1, <1>6, <1>7

\* Rename of an object at the top gives the name RenameIDDeltas foretold.
LEMMA RenameStep ==
    ASSUME KeysFit, Unedited, NEW o \in Objects, NEW n \in Names, Rename(o, n)
    PROVE  TypeOK' /\ AsPredicted' /\ target' # Nobody
<1> DEFINE top == Unique(n, Top, {o}, {})
           own == Unique(top, container[o], {}, {})
           delta == IF named[o] = n THEN n ELSE Unique(n, container[o], {o}, {})
           x == IF top = named[o] THEN top ELSE own
           T == {named[y] : y \in In(container[o])}
<1>1. /\ named' = [named EXCEPT ![o] = x] /\ predicted' = [predicted EXCEPT ![o] = delta]
      /\ target' = o /\ container' = container /\ deleted' = {}
  BY DEF Rename, Unedited
<1>2. n \in AllNames /\ named \in [Objects -> AllNames]
  BY NamesFit DEF Unedited
<1>3. /\ top \in AllNames /\ top \notin {named[y] : y \in In(Top) \ {o}}
      /\ n \notin {named[y] : y \in In(Top) \ {o}} => top = n
  BY <1>2, RenameFits
<1>4. delta \in AllNames
  BY <1>2, RenameFits
<1> HIDE DEF top
<1>5. top # named[o] => own \in AllNames /\ own \notin T /\ (top \notin T => own = top)
  BY <1>3, OwnFits
<1> HIDE DEF own
<1>6. x \in AllNames
  BY <1>3, <1>5
<1>7. \A y \in In(container[o]) \ {o} : x # named[y]
  <2>1. CASE top = named[o]
    <3>1. \A y \in In(container[o]) \ {o} : named[y] # named[o]
      BY DEF In, Unedited
    <3> QED
      BY <2>1, <3>1
  <2>2. CASE top # named[o]
    BY <1>5, <2>2
  <2> QED
    BY <2>1, <2>2
<1>8. container[o] = Top => x = delta
  <2> SUFFICES ASSUME container[o] = Top PROVE x = delta
    OBVIOUS
  <2>1. CASE named[o] = n
    <3>1. n \notin {named[y] : y \in In(Top) \ {o}}
      BY <2>1 DEF In, Unedited
    <3> QED
      BY <1>3, <2>1, <3>1
  <2>2. CASE named[o] # n
    <3>1. delta = top
      BY <2>2 DEF top
    <3>2. top # named[o] => top \notin T
      BY <1>3
    <3> QED
      BY <1>5, <3>1, <3>2
  <2> QED
    BY <2>1, <2>2
<1> HIDE DEF x, delta
<1>9. \A a \in Objects : /\ a = o => named'[a] = x /\ predicted'[a] = delta
                         /\ a # o => named'[a] = named[a] /\ predicted'[a] = predicted[a]
  BY <1>1, <1>2 DEF Unedited
<1>10. o # Nobody
  BY DEF Objects, Nobody, KeysFit
<1>11. TypeOK'
  <2>1. named' \in [Objects -> AllNames] /\ predicted' \in [Objects -> AllNames]
    BY <1>1, <1>2, <1>4, <1>6 DEF Unedited
  <2>2. ASSUME NEW a \in Objects, NEW b \in Objects, a # b, container[a] = container[b]
        PROVE  named'[a] # named'[b]
    <3>1. a \in In(container[b]) /\ b \in In(container[a]) /\ named[a] # named[b]
      BY <2>2 DEF In, Unedited
    <3> QED
      BY <1>7, <1>9, <2>2, <3>1
  <2> QED
    BY <1>1, <2>1, <2>2 DEF TypeOK, Unedited
<1>12. AsPredicted'
  <2>1. \A a \in Objects : a # o => named'[a] = predicted'[a]
    BY <1>9 DEF Unedited
  <2>2. container'[target'] = Top => named'[o] = predicted'[o]
    BY <1>1, <1>8, <1>9
  <2> QED
    BY <1>1, <2>1, <2>2 DEF AsPredicted
<1> QED
  BY <1>1, <1>10, <1>11, <1>12

-----------------------------------------------------------------------------
(* One edit after the other: there is only one                               *)

\* The invariant: an edit is the only one of its diagram, so before it nothing has been
\* renamed (Unedited), and after it the names are those foretold.
KeysInv == TypeOK /\ AsPredicted /\ (target = Nobody => Unedited)

\* Every diagram that can be drawn satisfies the invariant of the editor, for any number
\* of objects and any names (the diagrams that Delete and Rename are called on).
THEOREM KeysBegin == KeysFit /\ Init => KeysInv
<1> SUFFICES ASSUME KeysFit, Init PROVE KeysInv
  OBVIOUS
<1>1. PICK c \in [Objects -> 0..(NObjects - 1)], n \in [Objects -> Names] :
        /\ \A o \in Objects : c[o] < o
        /\ \A a, b \in Objects : a < b /\ c[a] = c[b] => n[a] # n[b]
        /\ Drawn(c, n)
  BY DEF Init
<1>2. 0..(NObjects - 1) \subseteq {Top} \cup Objects /\ Objects \subseteq Int
  BY DEF KeysFit, Top, Objects
<1>3. \A a, b \in Objects : a # b /\ c[a] = c[b] => n[a] # n[b]
  <2>1. \A a, b \in Objects : a # b => a < b \/ b < a
    BY <1>2
  <2> QED
    BY <1>1, <2>1
<1>4. /\ container = c /\ named = n /\ predicted = n /\ deleted = {} /\ target = Nobody
  BY <1>1 DEF Drawn
<1>5. Unedited
  BY <1>1, <1>2, <1>3, <1>4 DEF Unedited
<1>6. TypeOK
  <2>1. named \in [Objects -> AllNames]
    BY <1>4, NamesFit
  <2> QED
    BY <1>2, <1>3, <1>4, <2>1 DEF TypeOK
<1>7. AsPredicted
  BY <1>4 DEF AsPredicted
<1> QED
  BY <1>5, <1>6, <1>7 DEF KeysInv

\* Delete and Rename (edit.go) keep the invariant: siblings have different names, and the
\* names foretold before the edit are those given, for every tree of objects.
THEOREM KeysStep == KeysFit /\ KeysInv /\ Next => KeysInv'
<1> SUFFICES ASSUME KeysFit, KeysInv, Next PROVE KeysInv'
  OBVIOUS
<1>1. PICK o \in Objects : Delete(o) \/ \E n \in Names : Rename(o, n)
  BY DEF Next
<1>2. Unedited
  <2>1. target = Nobody
    BY <1>1 DEF Delete, Rename
  <2> QED
    BY <2>1 DEF KeysInv
<1>3. TypeOK' /\ AsPredicted' /\ target' # Nobody
  BY <1>1, <1>2, DeleteStep, RenameStep
<1>4. target # Nobody => target' # Nobody
  BY <1>3
<1> QED
  BY <1>3 DEF KeysInv

-----------------------------------------------------------------------------
(* Imports: whatever the files are, however deep, and in whatever order they *)
(* are imported, keeping what was compiled changes nothing.                  *)

\* The operators of finite sets and functions are the same everywhere.
LEMMA ImportOperators ==
    /\ \A f : Imp!Range(f) = Range(f)
    /\ \A S : Imp!Cardinality(S) = Cardinality(S)
    /\ \A S : Imp!IsFiniteSet(S) <=> IsFiniteSet(S)
<1>1. \A f : Imp!Range(f) = Range(f)
  BY DEF Imp!Range, Range
<1>2. \A S : Imp!Cardinality(S) = Cardinality(S)
  BY DEF Imp!Cardinality, Cardinality
<1>3. \A S : Imp!IsFiniteSet(S) <=> IsFiniteSet(S)
  BY DEF Imp!IsFiniteSet, IsFiniteSet
<1> QED
  BY <1>1, <1>2, <1>3

-----------------------------------------------------------------------------
(* What a file is compiled to                                                *)

\* The step of Walk from one statement to the next.
Read(c, below, w, s) ==
    IF s.how = "glob" THEN [globs |-> TRUE, parts |-> w.parts]
    ELSE [globs |-> w.globs,
          parts |-> Append(w.parts, below[[file |-> s.to, globs |-> w.globs,
                                          nested |-> c.nested \/ s.how = "nested"]])]

FilesGiven == Imp!ImportsFit /\ program \in Sources /\ fault \in Flaws

Length(f) == Len(program[f])

\* The statements of a file are a sequence.
LEMMA StatementsFit ==
    ASSUME FilesGiven, NEW f \in ImportFiles
    PROVE  /\ program[f] \in Seq(Imp!Statements) /\ Length(f) \in Nat
           /\ \A i \in 1..Length(f) : program[f][i] \in Imp!Statements
<1>1. program[f] \in Seq(Imp!Statements)
  BY DEF FilesGiven, Imp!ImportsFit
<1>2. Len(program[f]) \in Nat /\ \A i \in 1..Len(program[f]) : program[f][i] \in Imp!Statements
  BY <1>1, LenProperties, ElementOfSeq
<1> QED
  BY <1>1, <1>2 DEF Length

IsWalk(c, below, n, w) ==
    w = [i \in 0..n |-> IF i = 0 THEN [globs |-> c.globs, parts |-> <<>>]
                        ELSE Read(c, below, w[i - 1], program[c.file][i])]

\* Walk reads one statement after the other.
LEMMA WalkIs ==
    ASSUME FilesGiven, NEW c \in Imp!Contexts, NEW below
    PROVE  /\ Imp!Walk(c, below)[0] = [globs |-> c.globs, parts |-> <<>>]
           /\ \A i \in 1..Length(c.file) :
                Imp!Walk(c, below)[i] = Read(c, below, Imp!Walk(c, below)[i - 1], program[c.file][i])
<1> DEFINE N == {n \in Nat : \E w : IsWalk(c, below, n, w)}
           k == Length(c.file)
<1>1. 0 \in N
  <2> DEFINE w == [i \in 0..0 |-> [globs |-> c.globs, parts |-> <<>>]]
  <2>1. IsWalk(c, below, 0, w)
    BY DEF IsWalk
  <2> QED
    BY <2>1
<1>2. ASSUME NEW n \in Nat, n \in N PROVE n + 1 \in N
  <2>1. PICK w : IsWalk(c, below, n, w)
    BY <1>2
  <2> DEFINE x == [i \in 0..(n + 1) |-> IF i = n + 1 THEN Read(c, below, w[n], program[c.file][n + 1])
                                        ELSE w[i]]
  <2>2. ASSUME NEW i \in 0..(n + 1)
        PROVE  x[i] = IF i = 0 THEN [globs |-> c.globs, parts |-> <<>>]
                      ELSE Read(c, below, x[i - 1], program[c.file][i])
    <3>1. CASE i = n + 1
      <4>1. x[i] = Read(c, below, w[n], program[c.file][n + 1])
        BY <3>1
      <4>2. i - 1 = n /\ x[n] = w[n] /\ i # 0
        BY <3>1
      <4> QED
        BY <3>1, <4>1, <4>2
    <3>2. CASE i # n + 1
      <4>1. i \in 0..n /\ x[i] = w[i]
        BY <3>2
      <4>2. w[i] = IF i = 0 THEN [globs |-> c.globs, parts |-> <<>>]
                   ELSE Read(c, below, w[i - 1], program[c.file][i])
        BY <2>1, <4>1 DEF IsWalk
      <4>3. i # 0 => x[i - 1] = w[i - 1]
        BY <4>1
      <4> QED
        BY <4>1, <4>2, <4>3
    <3> QED
      BY <3>1, <3>2
  <2>3. DOMAIN x = 0..(n + 1) /\ x = [i \in 0..(n + 1) |-> x[i]]
    OBVIOUS
  <2> HIDE DEF x
  <2>4. IsWalk(c, below, n + 1, x)
    BY <2>2, <2>3 DEF IsWalk
  <2> QED
    BY <2>4
<1>3. k \in Nat
  BY StatementsFit DEF Imp!Contexts
<1>4. \E w : IsWalk(c, below, k, w)
  <2>1. Nat \subseteq N
    <3> HIDE DEF N
    <3> QED
      BY <1>1, <1>2, AllNaturals
  <2> QED
    BY <1>3, <2>1
<1>5. Imp!Walk(c, below) = CHOOSE w : IsWalk(c, below, k, w)
  BY DEF Imp!Walk, IsWalk, Read, Length
<1>6. IsWalk(c, below, k, Imp!Walk(c, below))
  BY <1>4, <1>5
<1> HIDE DEF k
<1>7. /\ Imp!Walk(c, below)[0] = [globs |-> c.globs, parts |-> <<>>]
      /\ \A i \in 1..k :
           Imp!Walk(c, below)[i] = Read(c, below, Imp!Walk(c, below)[i - 1], program[c.file][i])
  BY <1>3, <1>6 DEF IsWalk
<1> QED
  BY <1>7 DEF k

Depths == Cardinality(ImportFiles)

LEMMA FilesFinite == FilesGiven => Depths \in Nat /\ IsFiniteSet(ImportFiles)
  BY FS_CardinalityType, ImportOperators DEF FilesGiven, Imp!ImportsFit, Depths

\* What all files are compiled to if their imports are compiled to what below says.
Layer(below) == [c \in Imp!Contexts |-> Imp!AllOf(c, below)]
Bottom == [x \in Imp!Contexts |-> Imp!NoTree]

IsAnew(n, a) ==
    a = [d \in 0..n |-> IF d = 0 THEN Layer(Bottom) ELSE Layer(a[d - 1])]

\* Anew is compiled from the bottom up.
LEMMA AnewIs ==
    ASSUME FilesGiven
    PROVE  /\ Imp!Anew[0] = Layer(Bottom)
           /\ \A d \in 1..Depths : Imp!Anew[d] = Layer(Imp!Anew[d - 1])
<1> DEFINE N == {n \in Nat : \E a : IsAnew(n, a)}
<1>1. 0 \in N
  <2> DEFINE a == [d \in 0..0 |-> Layer(Bottom)]
  <2>1. IsAnew(0, a)
    BY DEF IsAnew
  <2> QED
    BY <2>1
<1>2. ASSUME NEW n \in Nat, n \in N PROVE n + 1 \in N
  <2>1. PICK a : IsAnew(n, a)
    BY <1>2
  <2> DEFINE x == [d \in 0..(n + 1) |-> IF d = n + 1 THEN Layer(a[n]) ELSE a[d]]
  <2>2. ASSUME NEW d \in 0..(n + 1)
        PROVE  x[d] = IF d = 0 THEN Layer(Bottom) ELSE Layer(x[d - 1])
    <3>1. CASE d = n + 1
      <4>1. x[d] = Layer(a[n])
        BY <3>1
      <4>2. d - 1 = n /\ x[n] = a[n] /\ d # 0
        BY <3>1
      <4> QED
        BY <3>1, <4>1, <4>2
    <3>2. CASE d # n + 1
      <4>1. d \in 0..n /\ x[d] = a[d]
        BY <3>2
      <4>2. a[d] = IF d = 0 THEN Layer(Bottom) ELSE Layer(a[d - 1])
        BY <2>1, <4>1 DEF IsAnew
      <4>3. d # 0 => x[d - 1] = a[d - 1]
        BY <4>1
      <4> QED
        BY <4>1, <4>2, <4>3
    <3> QED
      BY <3>1, <3>2
  <2>3. x = [d \in 0..(n + 1) |-> x[d]]
    OBVIOUS
  <2> HIDE DEF x
  <2>4. IsAnew(n + 1, x)
    BY <2>2, <2>3 DEF IsAnew
  <2> QED
    BY <2>4
<1>3. Depths \in Nat
  BY FilesFinite
<1>4. \E a : IsAnew(Depths, a)
  <2>1. Nat \subseteq N
    <3> HIDE DEF N
    <3> QED
      BY <1>1, <1>2, AllNaturals
  <2> QED
    BY <1>3, <2>1
<1>5. Imp!Anew = CHOOSE a : IsAnew(Depths, a)
  BY ImportOperators DEF Imp!Anew, IsAnew, Depths, Layer, Bottom
<1>6. IsAnew(Depths, Imp!Anew)
  BY <1>4, <1>5
<1> QED
  BY <1>3, <1>6 DEF IsAnew

\* What the imports of a file are compiled to is all that matters to it.
SameImports(c, below, other) ==
    \A x \in Imp!Contexts : x.file \in Imp!Targets(c.file) => below[x] = other[x]

\* Values of below.
Values(below) == {below[x] : x \in Imp!Contexts}

LEMMA WalkSame ==
    ASSUME FilesGiven, NEW c \in Imp!Contexts, NEW below, NEW other, SameImports(c, below, other)
    PROVE  \A i \in 0..Length(c.file) :
              /\ Imp!Walk(c, below)[i] \in [globs : BOOLEAN, parts : Seq(Values(below))]
              /\ Imp!Walk(c, below)[i] = Imp!Walk(c, other)[i]
<1> DEFINE k == Length(c.file)
           W == Imp!Walk(c, below)
           V == Imp!Walk(c, other)
           R == [globs : BOOLEAN, parts : Seq(Values(below))]
           N == {n \in Nat : n <= k => W[n] \in R /\ W[n] = V[n]}
<1>1. /\ W[0] = [globs |-> c.globs, parts |-> <<>>]
      /\ V[0] = [globs |-> c.globs, parts |-> <<>>]
      /\ \A i \in 1..k : /\ W[i] = Read(c, below, W[i - 1], program[c.file][i])
                         /\ V[i] = Read(c, other, V[i - 1], program[c.file][i])
  BY WalkIs
<1>2. k \in Nat /\ \A i \in 1..k : program[c.file][i] \in Imp!Statements
  BY StatementsFit DEF Imp!Contexts
<1>3. \A i \in 1..k : program[c.file][i].how # "glob" => program[c.file][i].to \in Imp!Targets(c.file)
  <2> SUFFICES ASSUME NEW i \in 1..k, program[c.file][i].how # "glob"
               PROVE  program[c.file][i].to \in Imp!Targets(c.file)
    OBVIOUS
  <2>1. program[c.file] \in Seq(Imp!Statements) /\ k = Len(program[c.file])
    BY StatementsFit DEF Imp!Contexts, Length
  <2>2. DOMAIN program[c.file] = 1..k
    BY <2>1, LenProperties
  <2>3. program[c.file][i] \in Imp!Range(program[c.file])
    BY <2>2 DEF Imp!Range
  <2> QED
    BY <2>3 DEF Imp!Targets
<1> HIDE DEF W, V, k
<1>4. 0 \in N
  <2>1. <<>> \in Seq(Values(below))
    BY EmptySeq
  <2>2. c.globs \in BOOLEAN
    BY DEF Imp!Contexts
  <2>3. [globs |-> c.globs, parts |-> <<>>] \in R
    BY <2>1, <2>2
  <2> HIDE DEF R
  <2> QED
    BY <1>1, <2>3
<1>5. ASSUME NEW n \in Nat, n \in N PROVE n + 1 \in N
  <2> SUFFICES ASSUME n + 1 <= k PROVE W[n + 1] \in R /\ W[n + 1] = V[n + 1]
    OBVIOUS
  <2> DEFINE s == program[c.file][n + 1]
             x == [file |-> s.to, globs |-> W[n].globs,
                   nested |-> c.nested \/ s.how = "nested"]
  <2>1. W[n] \in R /\ W[n] = V[n] /\ n + 1 \in 1..k /\ (n + 1) - 1 = n
    BY <1>2, <1>5
  <2>2. W[n + 1] = Read(c, below, W[n], s) /\ V[n + 1] = Read(c, other, W[n], s)
    BY <1>1, <2>1
  <2>3. s \in Imp!Statements
    BY <1>2, <2>1
  <2>4. CASE s.how = "glob"
    <3>1. W[n + 1] = [globs |-> TRUE, parts |-> W[n].parts] /\ V[n + 1] = W[n + 1]
      BY <2>2, <2>4 DEF Read
    <3> QED
      BY <2>1, <3>1
  <2>5. CASE s.how # "glob"
    <3>1. x \in Imp!Contexts /\ x.file = s.to
      BY <2>1, <2>3 DEF Imp!Contexts, Imp!Statements
    <3>2. below[x] = other[x] /\ below[x] \in Values(below)
      BY <1>3, <2>1, <2>5, <3>1 DEF SameImports, Values
    <3>3. /\ W[n + 1] = [globs |-> W[n].globs, parts |-> Append(W[n].parts, below[x])]
          /\ V[n + 1] = [globs |-> W[n].globs, parts |-> Append(W[n].parts, other[x])]
      BY <2>2, <2>5 DEF Read
    <3>4. W[n].globs \in BOOLEAN /\ W[n].parts \in Seq(Values(below))
      BY <2>1
    <3> HIDE DEF x
    <3>5. Append(W[n].parts, below[x]) \in Seq(Values(below))
      BY <3>2, <3>4, AppendProperties
    <3> QED
      BY <3>2, <3>3, <3>4, <3>5
  <2> QED
    BY <2>4, <2>5
<1>6. Nat \subseteq N
  <2> HIDE DEF N
  <2> QED
    BY <1>4, <1>5, AllNaturals
<1>7. \A i \in 0..k : W[i] \in R /\ W[i] = V[i]
  BY <1>2, <1>6
<1> QED
  BY <1>7 DEF W, V, k

\* So the whole file is the same.
LEMMA AllSame ==
    ASSUME FilesGiven, NEW c \in Imp!Contexts, NEW below, NEW other, SameImports(c, below, other)
    PROVE  Imp!AllOf(c, below) = Imp!AllOf(c, other)
<1>1. Length(c.file) \in 0..Length(c.file) /\ Len(program[c.file]) = Length(c.file)
  BY StatementsFit DEF Imp!Contexts, Length
<1>2. Imp!Walk(c, below)[Length(c.file)] = Imp!Walk(c, other)[Length(c.file)]
  BY <1>1, WalkSame
<1> QED
  BY <1>1, <1>2 DEF Imp!AllOf

-----------------------------------------------------------------------------
(* Files that are done: those they import are done and of a lower rank, so   *)
(* that nothing in them is cyclic, and how deep one compiles them anew does  *)
(* not matter.                                                               *)

Whole == Imp!Anew[Depths]

Sane(f) == fault[f] = "none" /\ \A s \in Imp!Range(program[f]) : s.how # "absent"

\* Files in S, ranked.
Ranked(S, rank) ==
    /\ rank \in [S -> Nat]
    /\ \A f \in S : rank[f] < Cardinality(S) /\ Sane(f)
    /\ \A f \in S : \A g \in Imp!Targets(f) : g \in S /\ rank[g] < rank[f]

\* f comes out the same at every depth from r on.
Steady(f, r) ==
    \A d \in r..Depths, x \in Imp!Contexts : x.file = f => Imp!Anew[d][x] = Whole[x]

Finished(S, rank) == Ranked(S, rank) /\ \A f \in S : Steady(f, rank[f])

\* What a file is compiled to at a depth below which its imports are steady.
LEMMA SteadyNext ==
    ASSUME FilesGiven, NEW S \in SUBSET (ImportFiles \ {Main}), NEW rank, Finished(S, rank),
           NEW c \in Imp!Contexts, Imp!Targets(c.file) \subseteq S,
           NEW d \in 0..Depths, \A g \in Imp!Targets(c.file) : rank[g] < d
    PROVE  Imp!Anew[d][c] = Imp!AllOf(c, Whole)
<1>1. Depths \in Nat
  BY FilesFinite
<1>2. CASE d = 0
  <2>1. Imp!Targets(c.file) = {}
    <3>1. \A g \in Imp!Targets(c.file) : rank[g] \in Nat
      BY DEF Finished, Ranked
    <3> QED
      BY <1>2, <3>1
  <2>2. SameImports(c, Bottom, Whole)
    BY <2>1 DEF SameImports
  <2>3. Imp!Anew[0][c] = Imp!AllOf(c, Bottom)
    BY AnewIs DEF Layer
  <2> QED
    BY <1>2, <2>2, <2>3, AllSame
<1>3. CASE d # 0
  <2>1. d \in 1..Depths /\ d - 1 \in 0..Depths
    BY <1>1, <1>3
  <2>2. Imp!Anew[d][c] = Imp!AllOf(c, Imp!Anew[d - 1])
    BY <2>1, AnewIs DEF Layer
  <2>3. SameImports(c, Imp!Anew[d - 1], Whole)
    <3> SUFFICES ASSUME NEW x \in Imp!Contexts, x.file \in Imp!Targets(c.file)
                 PROVE  Imp!Anew[d - 1][x] = Whole[x]
      BY DEF SameImports
    <3>1. x.file \in S /\ rank[x.file] \in Nat /\ rank[x.file] < d
      BY DEF Finished, Ranked
    <3>2. d - 1 \in rank[x.file]..Depths
      BY <1>1, <2>1, <3>1
    <3>3. Steady(x.file, rank[x.file])
      BY <3>1 DEF Finished
    <3> QED
      BY <3>2, <3>3 DEF Steady
  <2> QED
    BY <2>2, <2>3, AllSame
<1> QED
  BY <1>2, <1>3

\* A set of files without the main one has no more than there are depths.
LEMMA FewFiles ==
    ASSUME FilesGiven, NEW S \in SUBSET (ImportFiles \ {Main})
    PROVE  IsFiniteSet(S) /\ Cardinality(S) \in Nat /\ Cardinality(S) < Depths
<1>1. IsFiniteSet(ImportFiles) /\ Main \in ImportFiles
  BY ImportOperators DEF FilesGiven, Imp!ImportsFit
<1>2. /\ IsFiniteSet(ImportFiles \ {Main})
      /\ Cardinality(ImportFiles \ {Main}) = Cardinality(ImportFiles) - 1
  BY <1>1, FS_RemoveElement
<1>3. IsFiniteSet(S) /\ Cardinality(S) <= Cardinality(ImportFiles \ {Main})
  BY <1>2, FS_Subset
<1>4. Cardinality(S) \in Nat
  BY <1>3, FS_CardinalityType
<1>5. Depths \in Nat
  BY FilesFinite
<1> QED
  BY <1>2, <1>3, <1>4, <1>5 DEF Depths

\* What a file comes to whose imports are all done, the main one included.
LEMMA DoneIs ==
    ASSUME FilesGiven, NEW S \in SUBSET (ImportFiles \ {Main}), NEW rank, Finished(S, rank),
           NEW c \in Imp!Contexts, Imp!Targets(c.file) \subseteq S
    PROVE  Whole[c] = Imp!AllOf(c, Whole)
<1>1. Cardinality(S) \in Nat /\ Cardinality(S) < Depths /\ Depths \in Nat
  BY FewFiles, FilesFinite
<1>2. \A g \in Imp!Targets(c.file) : rank[g] \in Nat /\ rank[g] < Cardinality(S)
  BY DEF Finished, Ranked
<1>3. Depths \in 0..Depths /\ \A g \in Imp!Targets(c.file) : rank[g] < Depths
  BY <1>1, <1>2
<1>4. Imp!Anew[Depths][c] = Imp!AllOf(c, Whole)
  BY <1>3, SteadyNext
<1> QED
  BY <1>4 DEF Whole

\* It is done itself then.
LEMMA OneMore ==
    ASSUME FilesGiven, NEW S \in SUBSET (ImportFiles \ {Main}), NEW rank, Finished(S, rank),
           NEW f \in ImportFiles \ {Main}, Sane(f), Imp!Targets(f) \subseteq S
    PROVE  \E r : Finished(S \cup {f}, r)
<1>1. CASE f \in S
  <2>1. S \cup {f} = S
    BY <1>1
  <2> QED
    BY <2>1
<1>2. CASE f \notin S
  <2> DEFINE k == Cardinality(S)
             T == S \cup {f}
             r == [g \in T |-> IF g = f THEN k ELSE rank[g]]
  <2>1. k \in Nat /\ k < Depths /\ Depths \in Nat /\ Cardinality(T) = k + 1
    <3>1. IsFiniteSet(S)
      BY FewFiles
    <3>2. Cardinality(S \cup {f}) = Cardinality(S) + 1
      BY <1>2, <3>1, FS_AddElement
    <3> QED
      BY <3>2, FewFiles, FilesFinite
  <2>2. \A g \in S : rank[g] \in Nat /\ rank[g] < k /\ Sane(g) /\ g # f
    BY <1>2 DEF Finished, Ranked
  <2>3. r[f] = k /\ \A g \in S : r[g] = rank[g]
    BY <2>2
  <2> HIDE DEF k
  <2>4. r \in [T -> Nat]
    BY <2>1, <2>2
  <2>5. \A g \in S : \A h \in Imp!Targets(g) : h \in S /\ rank[h] < rank[g]
    BY DEF Finished, Ranked
  <2> HIDE DEF r
  <2>6. \A g \in T : r[g] < Cardinality(T) /\ Sane(g)
    <3> SUFFICES ASSUME NEW g \in T PROVE r[g] < k + 1 /\ Sane(g)
      BY <2>1
    <3>1. CASE g = f
      BY <2>1, <2>3, <3>1
    <3>2. CASE g # f
      BY <2>1, <2>2, <2>3, <3>2
    <3> QED
      BY <3>1, <3>2
  <2>7. \A g \in T : \A h \in Imp!Targets(g) : h \in T /\ r[h] < r[g]
    <3> SUFFICES ASSUME NEW g \in T, NEW h \in Imp!Targets(g) PROVE h \in T /\ r[h] < r[g]
      OBVIOUS
    <3>1. CASE g = f
      BY <2>2, <2>3, <3>1
    <3>2. CASE g # f
      BY <2>3, <2>5, <3>2
    <3> QED
      BY <3>1, <3>2
  <2>8. Steady(f, k)
    <3> SUFFICES ASSUME NEW d \in k..Depths, NEW x \in Imp!Contexts, x.file = f
                 PROVE  Imp!Anew[d][x] = Whole[x]
      BY DEF Steady
    <3>1. d \in 0..Depths /\ \A g \in Imp!Targets(x.file) : rank[g] < d
      BY <2>1, <2>2
    <3>2. Imp!Anew[d][x] = Imp!AllOf(x, Whole)
      BY <3>1, SteadyNext
    <3> QED
      BY <3>2, DoneIs
  <2>9. \A g \in T : Steady(g, r[g])
    BY <2>3, <2>8 DEF Finished
  <2>10. Finished(T, r)
    BY <2>4, <2>6, <2>7, <2>9 DEF Finished, Ranked
  <2> QED
    BY <2>10
<1> QED
  BY <1>1, <1>2

\* What is done is not cyclic, nor is a file that imports only what is done.
LEMMA NoCycle ==
    ASSUME FilesGiven, NEW S \in SUBSET (ImportFiles \ {Main}), NEW rank, Finished(S, rank),
           Imp!Targets(Main) \subseteq S, Sane(Main)
    PROVE  ~Imp!Cyclic /\ ~Imp!Broken
<1>1. \A g \in S : Imp!Targets(g) \subseteq S
  BY DEF Finished, Ranked
<1>2. Imp!Reached(Main) \subseteq S
  BY <1>1 DEF Imp!Reached
<1>3. \A f \in S : f \notin Imp!Reached(f)
  <2> SUFFICES ASSUME NEW f \in S, f \in Imp!Reached(f) PROVE FALSE
    OBVIOUS
  <2> DEFINE R == {g \in S : rank[g] < rank[f]}
  <2>1. Imp!Targets(f) \subseteq R
    BY DEF Finished, Ranked
  <2>2. \A h \in R : Imp!Targets(h) \subseteq R
    <3> SUFFICES ASSUME NEW h \in R, NEW g \in Imp!Targets(h) PROVE g \in R
      OBVIOUS
    <3>1. g \in S /\ rank[g] < rank[h] /\ rank[h] < rank[f]
      BY DEF Finished, Ranked
    <3>2. rank[g] \in Nat /\ rank[h] \in Nat /\ rank[f] \in Nat
      BY <3>1 DEF Finished, Ranked
    <3> QED
      BY <3>1, <3>2
  <2>3. R \in SUBSET ImportFiles
    OBVIOUS
  <2>4. f \in R
    <3> HIDE DEF R
    <3> QED
      BY <2>1, <2>2, <2>3 DEF Imp!Reached
  <2>5. rank[f] \in Nat /\ rank[f] < rank[f]
    BY <2>4 DEF Finished, Ranked
  <2> QED
    BY <2>5
<1>4. \A f \in {Main} \cup Imp!Reached(Main) : f \notin Imp!Reached(f) /\ Sane(f)
  BY <1>2, <1>3 DEF Finished, Ranked
<1> QED
  BY <1>4 DEF Imp!Cyclic, Imp!Broken, Sane

-----------------------------------------------------------------------------
(* The stack                                                                 *)

\* The operators on sequences, by names the provers do not expand; q behind its first
\* k elements.
Behind(q, k) == SubSeq(q, k + 1, Len(q))
Foremost(q) == Head(q)
Remaining(q) == Tail(q)
Height(q) == Len(q)
Proper(s) == Height(s) \in Nat /\ s = [i \in 1..Height(s) |-> s[i]]
Push(s, x) == Append(s, x)
Put(s, x) == [s EXCEPT ![Height(s)] = x]
Pop(s) == Imp!Front(s)
Highest(s) == s[Height(s)]

\* How many statements of a frame have been dealt with, and the one that is next.
Passed(fr) == Length(fr.file) - Height(fr.rest)
Upcoming(fr) == program[fr.file][Passed(fr) + 1]

FrameFit(fr) ==
    /\ fr \in [file : ImportFiles, rest : {fr.rest}, parts : {fr.parts}, globs : BOOLEAN,
              under : BOOLEAN, nested : BOOLEAN, keep : BOOLEAN, before : {fr.before}]
    /\ Passed(fr) \in 0..Length(fr.file)
    /\ fr.rest = Behind(program[fr.file], Passed(fr))

\* What is above a frame is compiled for its next statement.
Calls(fr, next) ==
    /\ Passed(fr) < Length(fr.file)
    /\ Upcoming(fr).how # "glob" /\ Upcoming(fr).to = next.file
    /\ next.under = fr.globs /\ next.nested = (fr.nested \/ Upcoming(fr).how = "nested")
    /\ next.keep => ~next.under /\ ~next.nested

StackFit(st) ==
    /\ Proper(st) /\ Height(st) \in 1..(MaxImportDepth + 1)
    /\ \A i \in 1..Height(st) : FrameFit(st[i])
    /\ \A i \in 1..(Height(st) - 1) : Calls(st[i], st[i + 1])
    /\ \A i, j \in 1..Height(st) : st[i].file = st[j].file => i = j
    /\ st[1].file = Main /\ ~st[1].under /\ ~st[1].nested

\* What is left of a sequence behind its first k elements.
LEMMA SuffixIs ==
    ASSUME NEW S, NEW q \in Seq(S), NEW k \in 0..Height(q)
    PROVE  /\ Height(Behind(q, k)) = Height(q) - k /\ Behind(q, k) \in Seq(S)
           /\ Behind(q, k) = <<>> <=> k = Height(q)
           /\ k < Height(q) =>
                /\ Foremost(Behind(q, k)) = q[k + 1]
                /\ Remaining(Behind(q, k)) = Behind(q, k + 1)
                /\ Height(Remaining(Behind(q, k))) = Height(q) - k - 1
<1> DEFINE n == Len(q)
           r == SubSeq(q, k + 1, n)
<1>1. n \in Nat /\ \A i \in 1..n : q[i] \in S
  BY LenProperties, ElementOfSeq
<1>2. \A i \in (k + 1)..n : q[i] \in S
  BY <1>1
<1>3. k \in Int /\ k + 1 \in Int /\ k <= n /\ 0 <= k
  BY <1>1 DEF Height
<1> HIDE DEF n, r
<1>4. /\ r \in Seq(S) /\ Len(r) = IF k + 1 <= n THEN n - (k + 1) + 1 ELSE 0
      /\ \A i \in 1..(n - (k + 1) + 1) : r[i] = q[k + 1 + i - 1]
  <2>1. r = SubSeq(q, k + 1, n)
    BY DEF r
  <2> QED
    BY <1>1, <1>2, <1>3, <2>1, SubSeqProperties
<1>5. Len(r) = n - k
  BY <1>1, <1>3, <1>4
<1>6. r = <<>> <=> k = n
  <2>1. r = <<>> <=> Len(r) = 0
    BY <1>4, EmptySeq
  <2> QED
    BY <1>1, <1>3, <1>5, <2>1
<1>7. ASSUME k < n PROVE Head(r) = q[k + 1] /\ Tail(r) = SubSeq(q, k + 2, n)
  <2>1. r # <<>> /\ 1 \in 1..(n - (k + 1) + 1) /\ k + 1 + 1 - 1 = k + 1
    BY <1>1, <1>3, <1>6, <1>7
  <2>2. r[1] = q[k + 1]
    BY <1>4, <2>1
  <2>3. Head(r) = r[1] /\ Tail(r) \in Seq(S) /\ Len(Tail(r)) = Len(r) - 1
        /\ \A i \in 1..Len(Tail(r)) : Tail(r)[i] = r[i + 1]
    BY <1>4, <2>1, HeadTailProperties
  <2> DEFINE t == SubSeq(q, k + 2, n)
  <2>4. k + 2 \in Int /\ \A i \in (k + 2)..n : q[i] \in S
    BY <1>2, <1>3
  <2>5. /\ t \in Seq(S) /\ Len(t) = IF k + 2 <= n THEN n - (k + 2) + 1 ELSE 0
        /\ \A i \in 1..(n - (k + 2) + 1) : t[i] = q[k + 2 + i - 1]
    BY <1>1, <2>4, SubSeqProperties
  <2> HIDE DEF t
  <2>6. Len(t) = n - k - 1 /\ Len(Tail(r)) = n - k - 1
    BY <1>1, <1>3, <1>5, <1>7, <2>3, <2>5
  <2>7. ASSUME NEW i \in 1..(n - k - 1) PROVE Tail(r)[i] = t[i]
    <3>1. i + 1 \in 1..(n - (k + 1) + 1) /\ k + 1 + (i + 1) - 1 = k + 2 + i - 1
      BY <1>1, <1>3
    <3>2. Tail(r)[i] = r[i + 1] /\ r[i + 1] = q[k + 1 + (i + 1) - 1]
      BY <1>4, <2>3, <2>6, <3>1
    <3>3. t[i] = q[k + 2 + i - 1]
      BY <1>1, <1>3, <2>5
    <3> QED
      BY <3>1, <3>2, <3>3
  <2>8. Tail(r) = t
    BY <2>3, <2>5, <2>6, <2>7, SeqEqual
  <2> QED
    BY <2>2, <2>3, <2>8 DEF t
<1>8. k < n => Len(Tail(r)) = n - k - 1
  <2> SUFFICES ASSUME k < n PROVE Len(Tail(r)) = n - k - 1
    OBVIOUS
  <2>1. r # <<>>
    BY <1>1, <1>3, <1>6
  <2>2. Len(Tail(r)) = Len(r) - 1
    BY <1>4, <2>1, HeadTailProperties
  <2> QED
    BY <1>1, <1>3, <1>5, <2>2
<1>9. /\ Behind(q, k) = r /\ Foremost(r) = Head(r) /\ Remaining(r) = Tail(r)
      /\ Height(Remaining(r)) = Len(Tail(r)) /\ Height(r) = Len(r) /\ Height(q) = n
  BY DEF Behind, Foremost, Remaining, Height, n, r
<1>10. k + 2 = (k + 1) + 1
  BY <1>3
<1>11. Behind(q, k + 1) = SubSeq(q, k + 2, n)
  BY <1>10 DEF Behind, n
<1> QED
  BY <1>4, <1>5, <1>6, <1>7, <1>8, <1>9, <1>11

\* The next statement of a frame is the one after those passed.
LEMMA FrameIs ==
    ASSUME FilesGiven, NEW fr, FrameFit(fr)
    PROVE  /\ fr.rest = <<>> <=> Passed(fr) = Length(fr.file)
           /\ Passed(fr) < Length(fr.file) =>
                /\ Foremost(fr.rest) = Upcoming(fr) /\ Upcoming(fr) \in Imp!Statements
                /\ Upcoming(fr).how # "glob" => Upcoming(fr).to \in Imp!Targets(fr.file)
                /\ Upcoming(fr) \in Imp!Range(program[fr.file])
                /\ Length(fr.file) - Height(Remaining(fr.rest)) = Passed(fr) + 1
                /\ Remaining(fr.rest) = Behind(program[fr.file], Passed(fr) + 1)
<1> DEFINE q == program[fr.file]
           k == Passed(fr)
<1>1. q \in Seq(Imp!Statements) /\ Length(fr.file) = Height(q) /\ Height(q) \in Nat
  BY StatementsFit DEF FrameFit, Length, Height
<1>2. k \in 0..Height(q) /\ fr.rest = Behind(q, k)
  BY <1>1 DEF FrameFit
<1> HIDE DEF q, k
<1>3. /\ Height(fr.rest) = Height(q) - k /\ fr.rest \in Seq(Imp!Statements)
      /\ fr.rest = <<>> <=> k = Height(q)
      /\ k < Height(q) =>
           /\ Foremost(fr.rest) = q[k + 1]
           /\ Remaining(fr.rest) = Behind(q, k + 1)
           /\ Height(Remaining(fr.rest)) = Height(q) - k - 1
  BY <1>1, <1>2, SuffixIs
<1>4. ASSUME k < Height(q) PROVE q[k + 1] \in Imp!Statements /\ q[k + 1] \in Imp!Range(q)
  <2>1. k + 1 \in 1..Len(q)
    BY <1>1, <1>2, <1>4 DEF Height
  <2>2. DOMAIN q = 1..Len(q) /\ \A i \in 1..Len(q) : q[i] \in Imp!Statements
    BY <1>1, LenProperties, ElementOfSeq
  <2> QED
    BY <2>1, <2>2 DEF Imp!Range
<1>5. ASSUME k < Height(q) PROVE Height(q) - Height(Remaining(fr.rest)) = k + 1
  <2>1. Height(Remaining(fr.rest)) = Height(q) - k - 1 /\ Height(q) \in Nat /\ k \in Nat
    BY <1>1, <1>2, <1>3, <1>5
  <2> QED
    BY <2>1
<1>6. ASSUME k < Height(q), q[k + 1].how # "glob" PROVE q[k + 1].to \in Imp!Targets(fr.file)
  BY <1>4, <1>6 DEF Imp!Targets, q
<1> QED
  BY <1>1, <1>3, <1>4, <1>5, <1>6 DEF Upcoming, q, k

\* A function on 1..n is a sequence of length n.
LEMMA ProperIs ==
    ASSUME NEW n \in Nat, NEW s, s = [i \in 1..n |-> s[i]]
    PROVE  Proper(s) /\ Height(s) = n /\ s \in Seq({s[i] : i \in 1..n})
<1> DEFINE S == {s[i] : i \in 1..n}
<1>1. s \in [1..n -> S]
  <2>1. \A i \in 1..n : s[i] \in S
    OBVIOUS
  <2> HIDE DEF S
  <2> QED
    BY <2>1
<1> HIDE DEF S
<1>2. s \in Seq(S)
  BY <1>1, SeqDef
<1>3. Len(s) \in Nat /\ DOMAIN s = 1..Len(s) /\ DOMAIN s = 1..n
  BY <1>1, <1>2, LenProperties
<1>4. Len(s) = n
  <2> DEFINE k == Len(s)
  <2>1. k \in Nat /\ 1..k = 1..n
    BY <1>3
  <2> HIDE DEF k
  <2>2. k = n
    <3>1. k < n => n \in 1..n /\ n \notin 1..k
      BY <2>1
    <3>2. n < k => k \in 1..k /\ k \notin 1..n
      BY <2>1
    <3> QED
      BY <2>1, <3>1, <3>2
  <2> QED
    BY <2>2 DEF k
<1>5. Height(s) = n
  BY <1>4 DEF Height
<1> QED
  BY <1>2, <1>5 DEF Proper, S

\* What appending does to a sequence,
LEMMA PushIs ==
    ASSUME NEW s, Proper(s), NEW x
    PROVE  /\ Proper(Push(s, x)) /\ Height(Push(s, x)) = Height(s) + 1
           /\ \A i \in 1..Height(s) : Push(s, x)[i] = s[i]
           /\ Push(s, x)[Height(s) + 1] = x
<1> DEFINE n == Height(s)
           S == {s[i] : i \in 1..n} \cup {x}
           t == Append(s, x)
<1>1. n \in Nat /\ s \in Seq({s[i] : i \in 1..n}) /\ n = Len(s)
  BY ProperIs DEF Proper, Height
<1>2. s \in Seq(S)
  <2>1. \A i \in 1..n : s[i] \in S
    OBVIOUS
  <2>2. s \in [1..n -> S]
    <3> HIDE DEF S
    <3> QED
      BY <2>1 DEF Proper
  <2> HIDE DEF S, n
  <2> QED
    BY <1>1, <2>2, SeqDef
<1>3. x \in S
  OBVIOUS
<1> HIDE DEF S
<1>4. /\ t \in Seq(S) /\ Len(t) = Len(s) + 1 /\ \A i \in 1..Len(s) : t[i] = s[i]
      /\ t[Len(s) + 1] = x
  BY <1>2, <1>3, AppendProperties
<1>5. DOMAIN t = 1..Len(t) /\ t = [i \in 1..Len(t) |-> t[i]]
  BY <1>4, LenProperties
<1>6. Push(s, x) = t /\ Height(t) = Len(t)
  BY DEF Push, Height
<1> HIDE DEF t, n
<1> QED
  BY <1>1, <1>4, <1>5, <1>6 DEF Proper, n

\* replacing its last element,
LEMMA PutIs ==
    ASSUME NEW s, Proper(s), Height(s) # 0, NEW x
    PROVE  /\ Proper(Put(s, x)) /\ Height(Put(s, x)) = Height(s)
           /\ \A i \in 1..Height(s) : i # Height(s) => Put(s, x)[i] = s[i]
           /\ Highest(Put(s, x)) = x
<1> DEFINE n == Height(s)
           t == [s EXCEPT ![n] = x]
<1>1. n \in Nat /\ n # 0 /\ s = [i \in 1..n |-> s[i]]
  BY DEF Proper
<1> HIDE DEF n
<1>2. t = [i \in 1..n |-> t[i]] /\ \A i \in 1..n : t[i] = IF i = n THEN x ELSE s[i]
  BY <1>1
<1> HIDE DEF t
<1>3. Proper(t) /\ Height(t) = n /\ t[n] = x
  <2>1. n \in 1..n
    BY <1>1
  <2>2. Proper(t) /\ Height(t) = n
    BY <1>1, <1>2, ProperIs
  <2> QED
    BY <1>2, <2>1, <2>2
<1>4. Put(s, x) = t
  BY DEF Put, t, n
<1> QED
  BY <1>2, <1>3, <1>4 DEF Highest, n

\* and taking that away.
LEMMA PopIs ==
    ASSUME NEW s, Proper(s), Height(s) # 0
    PROVE  /\ Proper(Pop(s)) /\ Height(Pop(s)) = Height(s) - 1
           /\ \A i \in 1..(Height(s) - 1) : Pop(s)[i] = s[i]
<1> DEFINE n == Height(s)
           S == {s[i] : i \in 1..n}
           m == n - 1
           t == SubSeq(s, 1, m)
<1>1. n \in Nat /\ s \in Seq(S) /\ n = Len(s) /\ n # 0
  BY ProperIs DEF Proper, Height
<1>2. m \in Nat /\ 1 \in Int /\ m \in Int /\ \A i \in 1..m : i \in 1..n
  BY <1>1
<1>3. \A i \in 1..m : s[i] \in S
  BY <1>2
<1> HIDE DEF n, m, S
<1>4. /\ t \in Seq(S) /\ Len(t) = IF 1 <= m THEN m - 1 + 1 ELSE 0
      /\ \A i \in 1..(m - 1 + 1) : t[i] = s[1 + i - 1]
  BY <1>2, <1>3, SubSeqProperties
<1>5. Len(t) = m /\ \A i \in 1..m : t[i] = s[i]
  <2>1. (IF 1 <= m THEN m - 1 + 1 ELSE 0) = m /\ m - 1 + 1 = m
        /\ \A i \in 1..m : 1 + i - 1 = i
    BY <1>2
  <2> QED
    BY <1>4, <2>1
<1>6. t = [i \in 1..m |-> t[i]]
  BY <1>4, <1>5, LenProperties
<1>7. Pop(s) = t
  BY <1>1 DEF Pop, Imp!Front, m
<1> HIDE DEF t
<1>8. Proper(t) /\ Height(t) = m
  BY <1>2, <1>6, ProperIs
<1> QED
  BY <1>5, <1>7, <1>8 DEF m, n

-----------------------------------------------------------------------------
(* What the operations do to the stack                                       *)

\* A frame gets past its next statement.
Continued(fr, next) ==
    /\ FrameFit(next) /\ Passed(next) = Passed(fr) + 1
    /\ next.file = fr.file /\ next.under = fr.under /\ next.nested = fr.nested
    /\ next.keep = fr.keep

LEMMA ContinuedFit ==
    ASSUME FilesGiven, NEW fr, FrameFit(fr), fr.rest # <<>>, NEW next,
           next \in [file : {fr.file}, rest : {Remaining(fr.rest)}, parts : {next.parts},
                     globs : BOOLEAN, under : {fr.under}, nested : {fr.nested},
                     keep : {fr.keep}, before : {next.before}]
    PROVE  Continued(fr, next)
<1>1. Length(fr.file) \in Nat /\ Passed(fr) \in 0..Length(fr.file)
  BY StatementsFit DEF FrameFit
<1>2. Passed(fr) < Length(fr.file)
  BY <1>1, FrameIs
<1>3. /\ Length(fr.file) - Height(Remaining(fr.rest)) = Passed(fr) + 1
      /\ Remaining(fr.rest) = Behind(program[fr.file], Passed(fr) + 1)
  BY <1>2, FrameIs
<1> DEFINE rest == Remaining(fr.rest)
<1> HIDE DEF rest
<1>4. /\ fr.file \in ImportFiles /\ fr.under \in BOOLEAN /\ fr.nested \in BOOLEAN
      /\ fr.keep \in BOOLEAN
  BY DEF FrameFit
<1>5. next \in [file : {fr.file}, rest : {rest}, parts : {next.parts},
                globs : BOOLEAN, under : {fr.under}, nested : {fr.nested},
                keep : {fr.keep}, before : {next.before}]
  BY DEF rest
<1>6. /\ next.file = fr.file /\ next.rest = rest
      /\ next.under = fr.under /\ next.nested = fr.nested /\ next.keep = fr.keep
      /\ next \in [file : ImportFiles, rest : {next.rest}, parts : {next.parts},
                   globs : BOOLEAN, under : BOOLEAN, nested : BOOLEAN, keep : BOOLEAN,
                   before : {next.before}]
  BY <1>4, <1>5
<1>7. Passed(next) = Passed(fr) + 1
  BY <1>3, <1>6 DEF Passed, rest
<1>8. Passed(next) \in 0..Length(next.file)
  BY <1>1, <1>2, <1>6, <1>7
<1>9. next.rest = Behind(program[next.file], Passed(next))
  BY <1>3, <1>6, <1>7 DEF rest
<1>10. FrameFit(next)
  BY <1>6, <1>8, <1>9 DEF FrameFit
<1> QED
  BY <1>6, <1>7, <1>10 DEF Continued

\* Past is such a step, whatever the parts are,
LEMMA PastIs ==
    ASSUME FilesGiven, NEW fr, FrameFit(fr), fr.rest # <<>>, NEW ps
    PROVE  /\ Continued(fr, Imp!Past(fr, ps))
           /\ Imp!Past(fr, ps).globs = fr.globs /\ Imp!Past(fr, ps).parts = fr.parts \o ps
<1> DEFINE parts == fr.parts \o ps
           rest == Remaining(fr.rest)
           next == [fr EXCEPT !.rest = rest, !.parts = parts]
<1>1. Imp!Past(fr, ps) = next
  BY DEF Imp!Past, Remaining
<1> HIDE DEF parts, rest
<1>2. /\ next.globs = fr.globs /\ next.parts = parts
      /\ next \in [file : {fr.file}, rest : {rest}, parts : {next.parts},
                   globs : BOOLEAN, under : {fr.under}, nested : {fr.nested},
                   keep : {fr.keep}, before : {next.before}]
  BY DEF FrameFit
<1> HIDE DEF next
<1>3. Continued(fr, next)
  BY <1>2, ContinuedFit DEF rest
<1> QED
  BY <1>1, <1>2, <1>3 DEF parts

\* and so is what a glob does.
GlobPast(fr) == [fr EXCEPT !.rest = Remaining(fr.rest), !.globs = TRUE]

LEMMA GlobPastIs ==
    ASSUME FilesGiven, NEW fr, FrameFit(fr), fr.rest # <<>>
    PROVE  /\ Continued(fr, GlobPast(fr))
           /\ GlobPast(fr).globs = TRUE /\ GlobPast(fr).parts = fr.parts
<1> DEFINE rest == Remaining(fr.rest)
           next == [fr EXCEPT !.rest = rest, !.globs = TRUE]
<1>1. GlobPast(fr) = next
  BY DEF GlobPast
<1> HIDE DEF rest
<1>2. /\ next.globs = TRUE /\ next.parts = fr.parts
      /\ next \in [file : {fr.file}, rest : {rest}, parts : {next.parts},
                   globs : BOOLEAN, under : {fr.under}, nested : {fr.nested},
                   keep : {fr.keep}, before : {next.before}]
  BY DEF FrameFit
<1> HIDE DEF next
<1>3. Continued(fr, next)
  BY <1>2, ContinuedFit DEF rest
<1> QED
  BY <1>1, <1>2, <1>3

LEMMA PutFit ==
    ASSUME FilesGiven, NEW st, StackFit(st), NEW fr, Continued(Highest(st), fr)
    PROVE  StackFit(Put(st, fr))
<1> DEFINE n == Height(st)
           t == Put(st, fr)
<1>1. n \in 1..(MaxImportDepth + 1) /\ Proper(st) /\ n \in Nat /\ n # 0 /\ MaxImportDepth \in Nat
  BY DEF StackFit, Proper, FilesGiven, Imp!ImportsFit
<1>2. Proper(t) /\ Height(t) = n /\ (\A i \in 1..n : i # n => t[i] = st[i]) /\ t[n] = fr
  BY <1>1, PutIs DEF Highest
<1> HIDE DEF t, n
<1>3. \A i \in 1..n : t[i].file = st[i].file
  BY <1>2 DEF Continued, Highest, n
<1>4. \A i \in 1..n : FrameFit(t[i])
  BY <1>2 DEF Continued, StackFit, n
<1>5. ASSUME NEW i \in 1..(n - 1) PROVE Calls(t[i], t[i + 1])
  <2>1. i \in 1..n /\ i # n /\ i + 1 \in 1..n
    BY <1>1
  <2>2. t[i] = st[i] /\ Calls(st[i], st[i + 1])
    BY <1>2, <2>1 DEF StackFit, n
  <2>3. CASE i + 1 # n
    BY <1>2, <2>1, <2>2, <2>3
  <2>4. CASE i + 1 = n
    <3>1. st[i + 1] = Highest(st) /\ t[i + 1] = fr
      BY <1>2, <2>4 DEF Highest, n
    <3> QED
      BY <2>2, <3>1 DEF Calls, Continued
  <2> QED
    BY <2>3, <2>4
<1>6. t[1].file = Main /\ ~t[1].under /\ ~t[1].nested
  <2>1. 1 \in 1..n
    BY <1>1
  <2>2. st[1].file = Main /\ ~st[1].under /\ ~st[1].nested
    BY DEF StackFit
  <2>3. CASE n = 1
    <3>1. Highest(st) = st[1] /\ t[1] = fr
      BY <1>2, <2>3 DEF Highest, n
    <3> QED
      BY <2>2, <3>1 DEF Continued
  <2>4. CASE n # 1
    BY <1>2, <2>1, <2>2, <2>4
  <2> QED
    BY <2>3, <2>4
<1>7. \A i, j \in 1..n : t[i].file = t[j].file => i = j
  BY <1>3 DEF StackFit, n
<1>8. StackFit(t)
  BY <1>1, <1>2, <1>4, <1>5, <1>6, <1>7 DEF StackFit
<1> QED
  BY <1>8 DEF t

LEMMA PushFit ==
    ASSUME FilesGiven, NEW st, StackFit(st), Height(st) <= MaxImportDepth,
           NEW fr, FrameFit(fr), Calls(Highest(st), fr),
           \A i \in 1..Height(st) : st[i].file # fr.file
    PROVE  StackFit(Push(st, fr))
<1> DEFINE n == Height(st)
           t == Push(st, fr)
<1>1. n \in 1..(MaxImportDepth + 1) /\ Proper(st) /\ n \in Nat /\ n # 0 /\ MaxImportDepth \in Nat
      /\ n <= MaxImportDepth
  BY DEF StackFit, Proper, FilesGiven, Imp!ImportsFit
<1>2. Proper(t) /\ Height(t) = n + 1 /\ (\A i \in 1..n : t[i] = st[i]) /\ t[n + 1] = fr
  BY <1>1, PushIs
<1> HIDE DEF t, n
<1>3. \A i \in 1..(n + 1) : i \in 1..n \/ i = n + 1
  BY <1>1
<1>4. \A i \in 1..(n + 1) : FrameFit(t[i])
  BY <1>2, <1>3 DEF StackFit, n
<1>5. ASSUME NEW i \in 1..n PROVE Calls(t[i], t[i + 1])
  <2>1. t[i] = st[i]
    BY <1>2
  <2>2. CASE i # n
    <3>1. i + 1 \in 1..n /\ i \in 1..(n - 1)
      BY <1>1, <2>2
    <3> QED
      BY <1>2, <2>1, <3>1 DEF StackFit, n
  <2>3. CASE i = n
    BY <1>2, <2>1, <2>3 DEF Highest, n
  <2> QED
    BY <2>2, <2>3
<1>6. t[1] = st[1]
  BY <1>1, <1>2
<1>7. \A i, j \in 1..(n + 1) : t[i].file = t[j].file => i = j
  <2> SUFFICES ASSUME NEW i \in 1..(n + 1), NEW j \in 1..(n + 1), t[i].file = t[j].file
               PROVE  i = j
    OBVIOUS
  <2>1. CASE i \in 1..n /\ j \in 1..n
    BY <1>2, <2>1 DEF StackFit, n
  <2>2. CASE i \in 1..n /\ j \notin 1..n
    BY <1>2, <1>3, <2>2 DEF n
  <2>3. CASE i \notin 1..n /\ j \in 1..n
    BY <1>2, <1>3, <2>3 DEF n
  <2> QED
    BY <1>3, <2>1, <2>2, <2>3
<1>8. /\ n + 1 \in 1..(MaxImportDepth + 1) /\ (n + 1) - 1 = n
  BY <1>1
<1>9. StackFit(t)
  BY <1>2, <1>4, <1>5, <1>6, <1>7, <1>8 DEF StackFit
<1> QED
  BY <1>9 DEF t

LEMMA PopFit ==
    ASSUME FilesGiven, NEW st, StackFit(st), Height(st) # 1
    PROVE  StackFit(Pop(st)) /\ Highest(Pop(st)) = st[Height(st) - 1]
<1> DEFINE n == Height(st)
           t == Pop(st)
<1>1. n \in 1..(MaxImportDepth + 1) /\ Proper(st) /\ n \in Nat /\ n # 0 /\ MaxImportDepth \in Nat
      /\ n # 1
  BY DEF StackFit, Proper, FilesGiven, Imp!ImportsFit
<1>2. Proper(t) /\ Height(t) = n - 1 /\ \A i \in 1..(n - 1) : t[i] = st[i]
  BY <1>1, PopIs
<1> HIDE DEF t, n
<1>3. n - 1 \in 1..(MaxImportDepth + 1) /\ 1 \in 1..(n - 1) /\ n - 1 \in 1..(n - 1)
      /\ (\A i \in 1..(n - 1) : i \in 1..n)
      /\ \A i \in 1..((n - 1) - 1) : i \in 1..(n - 1) /\ i + 1 \in 1..(n - 1)
  BY <1>1
<1>4. \A i \in 1..(n - 1) : FrameFit(t[i])
  BY <1>2, <1>3 DEF StackFit, n
<1>5. \A i \in 1..((n - 1) - 1) : Calls(t[i], t[i + 1])
  BY <1>2, <1>3 DEF StackFit, n
<1>6. t[1] = st[1]
  BY <1>2, <1>3
<1>7. \A i, j \in 1..(n - 1) : t[i].file = t[j].file => i = j
  BY <1>2, <1>3 DEF StackFit, n
<1>8. StackFit(t)
  BY <1>2, <1>3, <1>4, <1>5, <1>6, <1>7 DEF StackFit
<1>9. Highest(t) = st[n - 1]
  BY <1>2, <1>3 DEF Highest
<1> QED
  BY <1>8, <1>9 DEF t, n

-----------------------------------------------------------------------------
(* Why a compilation fails                                                   *)

\* What files import is among the files.
LEMMA TargetsAre ==
    ASSUME FilesGiven, NEW f \in ImportFiles
    PROVE  Imp!Targets(f) \in SUBSET ImportFiles
<1> SUFFICES ASSUME NEW s \in Imp!Range(program[f]) PROVE s.to \in ImportFiles
  BY DEF Imp!Targets
<1>1. program[f] \in Seq(Imp!Statements)
  BY StatementsFit
<1>2. DOMAIN program[f] = 1..Len(program[f])
  BY <1>1, LenProperties
<1>3. PICK i \in 1..Len(program[f]) : s = program[f][i]
  BY <1>2 DEF Imp!Range
<1>4. s \in Imp!Statements
  BY <1>3, StatementsFit DEF Length
<1> QED
  BY <1>4 DEF Imp!Statements

\* What is imported is reached, and so is all it reaches.
LEMMA ReachedIs ==
    ASSUME FilesGiven, NEW f \in ImportFiles
    PROVE  /\ Imp!Targets(f) \subseteq Imp!Reached(f) /\ Imp!Reached(f) \in SUBSET ImportFiles
           /\ \A g \in Imp!Reached(f) : Imp!Targets(g) \subseteq Imp!Reached(f)
           /\ \A g \in Imp!Reached(f) : Imp!Reached(g) \subseteq Imp!Reached(f)
<1>1. Imp!Targets(f) \subseteq Imp!Reached(f) /\ Imp!Reached(f) \in SUBSET ImportFiles
  BY TargetsAre DEF Imp!Reached
<1>2. ASSUME NEW g \in Imp!Reached(f), NEW h \in Imp!Targets(g) PROVE h \in Imp!Reached(f)
  <2>1. h \in ImportFiles
    BY <1>1, TargetsAre
  <2> QED
    BY <2>1 DEF Imp!Reached
<1>3. ASSUME NEW g \in Imp!Reached(f) PROVE Imp!Reached(g) \subseteq Imp!Reached(f)
  <2> DEFINE S == Imp!Reached(f)
  <2>1. S \in SUBSET ImportFiles /\ Imp!Targets(g) \subseteq S /\ \A h \in S : Imp!Targets(h) \subseteq S
    BY <1>1, <1>2
  <2> HIDE DEF S
  <2>2. Imp!Reached(g) \subseteq S
    BY <2>1 DEF Imp!Reached
  <2> QED
    BY <2>2 DEF S
<1> QED
  BY <1>1, <1>2, <1>3

\* A frame imports the file of the one above it.
LEMMA CallsIs ==
    ASSUME FilesGiven, NEW st, StackFit(st), NEW i \in 1..(Height(st) - 1)
    PROVE  st[i + 1].file \in Imp!Targets(st[i].file)
<1>1. Height(st) \in Nat /\ i \in 1..Height(st) /\ i + 1 \in 1..Height(st)
  BY DEF StackFit, Proper
<1>2. FrameFit(st[i]) /\ Calls(st[i], st[i + 1])
  BY <1>1 DEF StackFit
<1> QED
  BY <1>2, FrameIs DEF Calls

\* A file on the stack reaches those above it.
LEMMA Upwards ==
    ASSUME FilesGiven, NEW st, StackFit(st), NEW i \in 1..Height(st), NEW j \in 1..Height(st), i < j
    PROVE  st[j].file \in Imp!Reached(st[i].file)
<1> DEFINE R == Imp!Reached(st[i].file)
           N == {n \in Nat : i + 1 + n <= Height(st) => st[i + 1 + n].file \in R}
<1>1. Height(st) \in Nat /\ i \in Nat /\ \A k \in 1..Height(st) : st[k].file \in ImportFiles
  BY DEF StackFit, Proper, FrameFit
<1>2. Imp!Targets(st[i].file) \subseteq R /\ \A g \in R : Imp!Targets(g) \subseteq R
  BY <1>1, ReachedIs
<1> HIDE DEF R
<1>3. 0 \in N
  <2> SUFFICES ASSUME i + 1 <= Height(st) PROVE st[i + 1].file \in R
    BY <1>1
  <2>1. i \in 1..(Height(st) - 1)
    BY <1>1
  <2> QED
    BY <1>2, <2>1, CallsIs
<1>4. ASSUME NEW n \in Nat, n \in N PROVE n + 1 \in N
  <2> DEFINE k == i + 1 + n
  <2>1. k \in Nat /\ k + 1 = i + 1 + (n + 1) /\ k >= 1
    BY <1>1
  <2>2. k <= Height(st) => st[k].file \in R
    BY <1>4
  <2> HIDE DEF k
  <2> SUFFICES ASSUME k + 1 <= Height(st) PROVE st[k + 1].file \in R
    BY <2>1
  <2>3. k \in 1..(Height(st) - 1) /\ k <= Height(st)
    BY <1>1, <2>1
  <2> QED
    BY <1>2, <2>2, <2>3, CallsIs
<1>5. Nat \subseteq N
  <2> HIDE DEF N
  <2> QED
    BY <1>3, <1>4, AllNaturals
<1>6. j - (i + 1) \in Nat /\ i + 1 + (j - (i + 1)) = j /\ j <= Height(st)
  BY <1>1
<1>7. st[j].file \in R
  BY <1>5, <1>6
<1> QED
  BY <1>7 DEF R

\* Every file on the stack is the main one or reached from it.
LEMMA FromMain ==
    ASSUME FilesGiven, NEW st, StackFit(st), NEW i \in 1..Height(st)
    PROVE  /\ st[i].file \in {Main} \cup Imp!Reached(Main) /\ st[i].file \in ImportFiles
           /\ Imp!Targets(st[i].file) \subseteq Imp!Reached(Main)
<1>1. 1 \in 1..Height(st) /\ i \in Nat /\ (i = 1 \/ 1 < i) /\ st[1].file = Main
  BY DEF StackFit, Proper
<1>2. st[i].file \in {Main} \cup Imp!Reached(Main)
  BY <1>1, Upwards
<1>3. Main \in ImportFiles
  BY DEF FilesGiven, Imp!ImportsFit
<1>4. Imp!Targets(st[i].file) \subseteq Imp!Reached(Main)
  BY <1>2, <1>3, ReachedIs
<1>5. st[i].file \in ImportFiles
  BY DEF StackFit, FrameFit
<1> QED
  BY <1>2, <1>4, <1>5

\* An import of a file on the stack is a cycle,
LEMMA CycleIs ==
    ASSUME FilesGiven, NEW st, StackFit(st), NEW i \in 1..Height(st),
           st[i].file \in Imp!Targets(Highest(st).file)
    PROVE  Imp!Cyclic
<1> DEFINE n == Height(st)
           f == st[i].file
<1>1. n \in 1..n /\ n \in Nat /\ i <= n /\ Highest(st) = st[n]
  BY DEF StackFit, Proper, Highest
<1>2. f \in {Main} \cup Imp!Reached(Main) /\ f \in ImportFiles /\ st[n].file \in ImportFiles
  BY <1>1, FromMain
<1>3. CASE i = n
  BY <1>1, <1>2, <1>3, ReachedIs DEF Imp!Cyclic
<1>4. CASE i # n
  <2>1. i < n
    BY <1>1, <1>4
  <2>2. st[n].file \in Imp!Reached(f)
    BY <1>1, <2>1, Upwards
  <2>3. f \in Imp!Reached(f)
    BY <1>1, <1>2, <2>2, ReachedIs
  <2> QED
    BY <1>2, <2>3 DEF Imp!Cyclic
<1> QED
  BY <1>3, <1>4

\* and one above a full stack is too deep.
LEMMA DepthIs ==
    ASSUME FilesGiven, NEW st, StackFit(st), Height(st) > MaxImportDepth,
           NEW f \in Imp!Targets(Highest(st).file)
    PROVE  Imp!TooDeep
<1> DEFINE m == MaxImportDepth
           q == [i \in 0..(m + 1) |-> IF i = m + 1 THEN f ELSE st[i + 1].file]
<1>1. m \in Nat /\ Height(st) = m + 1
  BY DEF FilesGiven, Imp!ImportsFit, StackFit
<1>2. \A i \in 1..(m + 1) : st[i].file \in ImportFiles
  BY <1>1, FromMain
<1>3. f \in ImportFiles
  <2>1. m + 1 \in 1..(m + 1)
    BY <1>1
  <2> QED
    BY <1>1, <1>2, <2>1, TargetsAre DEF Highest
<1>4. q \in [0..(m + 1) -> ImportFiles]
  <2> SUFFICES ASSUME NEW i \in 0..(m + 1), i # m + 1 PROVE st[i + 1].file \in ImportFiles
    BY <1>3
  <2>1. i + 1 \in 1..(m + 1)
    BY <1>1
  <2> QED
    BY <1>2, <2>1
<1>5. q[0] = Main
  <2>1. 0 \in 0..(m + 1) /\ 0 # m + 1 /\ 0 + 1 = 1
    BY <1>1
  <2>2. q[0] = st[1].file
    BY <2>1
  <2> QED
    BY <2>2 DEF StackFit
<1>6. ASSUME NEW i \in 0..m PROVE q[i + 1] \in Imp!Targets(q[i])
  <2>1. i \in 0..(m + 1) /\ i # m + 1 /\ i + 1 \in 0..(m + 1)
    BY <1>1
  <2>2. q[i] = st[i + 1].file
    BY <2>1
  <2>3. CASE i = m
    <3>1. q[i + 1] = f /\ Highest(st) = st[i + 1]
      BY <1>1, <2>1, <2>3 DEF Highest
    <3> QED
      BY <2>2, <3>1
  <2>4. CASE i # m
    <3>1. i + 1 # m + 1 /\ i + 1 \in 1..(Height(st) - 1)
      BY <1>1, <2>4
    <3>2. q[i + 1] = st[(i + 1) + 1].file
      BY <2>1, <3>1
    <3> QED
      BY <2>2, <3>1, <3>2, CallsIs
  <2> QED
    BY <2>3, <2>4
<1> HIDE DEF q
<1> QED
  BY <1>4, <1>5, <1>6 DEF Imp!TooDeep

-----------------------------------------------------------------------------
(* What a frame holds of a compilation without errors                        *)

Ctx(fr) == [file |-> fr.file, globs |-> fr.under, nested |-> fr.nested]
Come(fr) == Imp!Walk(Ctx(fr), Whole)[Passed(fr)]

\* What it has passed was found, and is what compiling it anew would have given.
FrameSound(fr, S) ==
    /\ fault[fr.file] = "none"
    /\ \A i \in 1..Passed(fr) :
          /\ program[fr.file][i].how # "absent"
          /\ program[fr.file][i].how # "glob" => program[fr.file][i].to \in S
    /\ fr.globs = Come(fr).globs /\ fr.parts = Come(fr).parts

LEMMA CtxIs == ASSUME NEW fr, FrameFit(fr) PROVE Ctx(fr) \in Imp!Contexts /\ Ctx(fr).file = fr.file
  BY DEF FrameFit, Ctx, Imp!Contexts

\* More files may be done.
LEMMA SoundGrows ==
    ASSUME NEW fr, NEW S, NEW T, S \subseteq T, FrameSound(fr, S)
    PROVE  FrameSound(fr, T)
  BY DEF FrameSound

\* A frame past its next statement is sound if that is found, done, and gives what it
\* would give anew.
LEMMA SoundNext ==
    ASSUME FilesGiven, NEW fr, FrameFit(fr), fr.rest # <<>>, NEW S, FrameSound(fr, S),
           NEW next, Continued(fr, next), Upcoming(fr).how # "absent",
           Upcoming(fr).how # "glob" => Upcoming(fr).to \in S,
           next.globs = Read(Ctx(fr), Whole, [globs |-> fr.globs, parts |-> fr.parts],
                             Upcoming(fr)).globs,
           next.parts = Read(Ctx(fr), Whole, [globs |-> fr.globs, parts |-> fr.parts],
                             Upcoming(fr)).parts
    PROVE  FrameSound(next, S)
<1> DEFINE k == Passed(fr)
           c == Ctx(fr)
           w == Imp!Walk(c, Whole)
<1>1. /\ k \in Nat /\ k < Length(fr.file) /\ Length(fr.file) \in Nat /\ k \in 0..Length(fr.file)
      /\ k + 1 \in 1..Length(fr.file) /\ (k + 1) - 1 = k
  <2>1. Length(fr.file) \in Nat /\ k \in 0..Length(fr.file)
    BY StatementsFit DEF FrameFit
  <2>2. k < Length(fr.file)
    BY <2>1, FrameIs
  <2> QED
    BY <2>1, <2>2
<1>2. /\ next.file = fr.file /\ Passed(next) = k + 1 /\ Ctx(next) = c
      /\ c \in Imp!Contexts /\ c.file = fr.file
  BY CtxIs DEF Continued, Ctx
<1> HIDE DEF c
<1>3. w[k + 1] = Read(c, Whole, w[k], program[fr.file][k + 1])
  <2>1. \A i \in 1..Length(c.file) :
           Imp!Walk(c, Whole)[i] = Read(c, Whole, Imp!Walk(c, Whole)[i - 1], program[c.file][i])
    <3> HIDE DEF w, k
    <3> QED
      BY <1>2, WalkIs
  <2>2. \A i \in 1..Length(fr.file) :
           w[i] = Read(c, Whole, w[i - 1], program[fr.file][i])
    <3>1. c.file = fr.file
      BY <1>2
    <3> QED
      BY <2>1, <3>1
  <2> HIDE DEF w, k
  <2> QED
    BY <1>1, <2>2
<1>4. w[k] = [globs |-> fr.globs, parts |-> fr.parts]
  <2>1. w[k] \in [globs : BOOLEAN, parts : Seq(Values(Whole))]
    <3>1. SameImports(c, Whole, Whole)
      BY DEF SameImports
    <3> QED
      BY <1>1, <1>2, <3>1, WalkSame
  <2>2. fr.globs = w[k].globs /\ fr.parts = w[k].parts
    BY DEF FrameSound, Come, c
  <2> HIDE DEF w
  <2> QED
    BY <2>1, <2>2
<1> HIDE DEF w
<1>5. w[k + 1] = Read(c, Whole, [globs |-> fr.globs, parts |-> fr.parts], Upcoming(fr))
  BY <1>3, <1>4 DEF Upcoming
<1>6. next.globs = Come(next).globs /\ next.parts = Come(next).parts
  <2>1. Come(next) = w[k + 1]
    BY <1>2 DEF Come, w
  <2> QED
    BY <1>5, <2>1 DEF c
<1> HIDE DEF k
<1>7. ASSUME NEW i \in 1..Passed(next)
      PROVE  /\ program[next.file][i].how # "absent"
             /\ program[next.file][i].how # "glob" => program[next.file][i].to \in S
  <2>1. i \in 1..k \/ i = k + 1
    BY <1>1, <1>2
  <2>2. CASE i \in 1..k
    BY <1>2, <2>2 DEF FrameSound, k
  <2>3. CASE i = k + 1
    BY <1>2, <2>3 DEF Upcoming, k
  <2> QED
    BY <2>1, <2>2, <2>3
<1> QED
  BY <1>2, <1>6, <1>7 DEF FrameSound

\* One tree more.
LEMMA PartMore ==
    ASSUME FilesGiven, NEW fr, FrameFit(fr), NEW S, FrameSound(fr, S), NEW x \in Imp!Contexts
    PROVE  fr.parts \o <<Whole[x]>> = Append(fr.parts, Whole[x])
<1> DEFINE t == Whole[x]
           V == Values(Whole)
<1>1. Come(fr) \in [globs : BOOLEAN, parts : Seq(V)]
  <2>1. SameImports(Ctx(fr), Whole, Whole)
    BY DEF SameImports
  <2>2. Passed(fr) \in 0..Length(Ctx(fr).file)
    BY CtxIs DEF FrameFit
  <2> QED
    BY <2>1, <2>2, CtxIs, WalkSame DEF Come
<1>2. fr.parts \in Seq(V) /\ t \in V
  BY <1>1 DEF FrameSound, Values
<1> HIDE DEF t, V
<1>3. Append(fr.parts, t) = fr.parts \o <<t>>
  BY <1>2, AppendIsConcat
<1> QED
  BY <1>3 DEF t

\* A frame past an import is sound, if the import has the tree it would have anew.
LEMMA SoundPast ==
    ASSUME FilesGiven, NEW fr, FrameFit(fr), fr.rest # <<>>, NEW S, FrameSound(fr, S),
           Upcoming(fr).how \notin {"absent", "glob"}, Upcoming(fr).to \in S,
           NEW x \in Imp!Contexts, x.file = Upcoming(fr).to, x.globs = fr.globs,
           x.nested = (fr.nested \/ Upcoming(fr).how = "nested")
    PROVE  FrameSound(Imp!Past(fr, <<Whole[x]>>), S) /\ Continued(fr, Imp!Past(fr, <<Whole[x]>>))
<1> DEFINE next == Imp!Past(fr, <<Whole[x]>>)
           s == Upcoming(fr)
           y == [file |-> s.to, globs |-> fr.globs, nested |-> fr.nested \/ s.how = "nested"]
<1>1. Continued(fr, next) /\ next.globs = fr.globs /\ next.parts = fr.parts \o <<Whole[x]>>
  BY PastIs
<1>2. x = y
  <2>1. s.to \in ImportFiles /\ fr.globs \in BOOLEAN /\ (fr.nested \/ s.how = "nested") \in BOOLEAN
    BY DEF Imp!Contexts
  <2> HIDE DEF s
  <2>2. y \in Imp!Contexts
    BY <2>1 DEF Imp!Contexts
  <2>3. y.file = x.file /\ y.globs = x.globs /\ y.nested = x.nested
    BY DEF s
  <2> HIDE DEF y
  <2> QED
    BY <2>2, <2>3 DEF Imp!Contexts
<1>3. next.parts = Append(fr.parts, Whole[x])
  BY <1>1, PartMore
<1>4. /\ Read(Ctx(fr), Whole, [globs |-> fr.globs, parts |-> fr.parts], s).globs = fr.globs
      /\ Read(Ctx(fr), Whole, [globs |-> fr.globs, parts |-> fr.parts], s).parts
           = Append(fr.parts, Whole[y])
  BY DEF Read, Ctx
<1> HIDE DEF next, y, s
<1>5. /\ next.globs = Read(Ctx(fr), Whole, [globs |-> fr.globs, parts |-> fr.parts], s).globs
      /\ next.parts = Read(Ctx(fr), Whole, [globs |-> fr.globs, parts |-> fr.parts], s).parts
  BY <1>1, <1>2, <1>3, <1>4
<1>6. FrameSound(next, S)
  BY <1>1, <1>5, SoundNext DEF s
<1> QED
  BY <1>1, <1>6 DEF next

\* A frame that is done has its file's tree.
LEMMA SoundDone ==
    ASSUME FilesGiven, NEW fr, FrameFit(fr), fr.rest = <<>>,
           NEW S \in SUBSET (ImportFiles \ {Main}), NEW rank, Finished(S, rank),
           FrameSound(fr, S)
    PROVE  /\ Imp!Targets(fr.file) \subseteq S /\ Sane(fr.file)
           /\ Imp!TreeOf(fr) = Whole[Ctx(fr)]
<1>1. Passed(fr) = Length(fr.file) /\ fr.file \in ImportFiles
  BY FrameIs DEF FrameFit
<1>2. \A s \in Imp!Range(program[fr.file]) :
         /\ s.how # "absent"
         /\ s.how # "glob" => s.to \in S
  <2>1. DOMAIN program[fr.file] = 1..Length(fr.file)
    BY <1>1, StatementsFit, LenProperties DEF Length
  <2> QED
    BY <1>1, <2>1 DEF FrameSound, Imp!Range
<1>3. Imp!Targets(fr.file) \subseteq S /\ Sane(fr.file)
  BY <1>2 DEF Imp!Targets, Sane, FrameSound
<1>4. Ctx(fr) \in Imp!Contexts /\ Ctx(fr).file = fr.file
  BY CtxIs
<1>5. Whole[Ctx(fr)] = Imp!AllOf(Ctx(fr), Whole)
  BY <1>3, <1>4, DoneIs
<1>6. Imp!AllOf(Ctx(fr), Whole) = Imp!Tree(fr.file, fr.under, fr.nested, Come(fr).parts)
  BY <1>1, <1>4 DEF Imp!AllOf, Come, Length, Ctx
<1>7. Imp!TreeOf(fr) = Imp!Tree(fr.file, fr.under, fr.nested, Come(fr).parts)
  BY DEF Imp!TreeOf, FrameSound
<1> QED
  BY <1>3, <1>5, <1>6, <1>7

-----------------------------------------------------------------------------
(* The invariant                                                             *)

\* Where what is kept was compiled.
Plain(f) == [file |-> f, globs |-> FALSE, nested |-> FALSE]

\* The files being imported.
OnTop(st) == {st[i].file : i \in 2..Height(st)}

\* A file is listed, or imported by one that is.
Covered(f, im) == \E g \in Imp!Range(im) : f = g \/ f \in Imp!Reached(g)

\* What is reported.
Messages == {"depth", "cycle", "key", "open", "syntax", "meaning"}

\* The shape of the state.
Shaped(st, pa, te, se, im) ==
    /\ FilesGiven /\ StackFit(st)
    /\ pa \subseteq ImportFiles /\ \A f \in pa : fault[f] \in {"none", "meaning"}
    /\ te = [f \in ImportFiles |-> te[f]]
    /\ se \in SUBSET (ImportFiles \ {Main})
    /\ im \in Seq(ImportFiles)

\* Without errors, what is done was ranked, found, compiled as anew, and listed.
Faithful(st, te, se, im) ==
    /\ \E rank : Finished(se, rank)
    /\ \A i \in 1..Height(st) : FrameSound(st[i], se)
    /\ \A f \in ImportFiles : te[f] # Imp!NoTree => f \in se /\ te[f] = Whole[Plain(f)]
    /\ Imp!IsInjective(im) /\ Imp!Range(im) \subseteq (se \cup OnTop(st)) \cap Imp!Targets(Main)
    /\ \A f \in se \cup OnTop(st) : Covered(f, im)

\* With errors, there is a reason.
Reason == Imp!Cyclic \/ Imp!Broken \/ Imp!TooDeep

Ending(st, er, co) ==
    /\ co \in {"not yet", "ok", "failed", "stopped"}
    /\ co = "ok" => er = <<>> /\ Height(st) = 1 /\ Highest(st).rest = <<>>
    /\ co = "failed" => er # <<>>

Holds(st, pa, te, se, im, er, co) ==
    /\ Shaped(st, pa, te, se, im) /\ er \in Seq(Messages)
    /\ er = <<>> => Faithful(st, te, se, im)
    /\ er # <<>> => Reason
    /\ Ending(st, er, co)

ImportInv == Holds(stack, parsed, templates, seen, imports, errors, compiled)

\* All this is about the files, which stay as they are.
LEMMA SourcesStay ==
    ASSUME UNCHANGED Imp!sourceVars
    PROVE  /\ \A st, pa, te, se, im :
                Shaped(st, pa, te, se, im)' <=> Shaped(st, pa, te, se, im)
           /\ \A st, te, se, im : Faithful(st, te, se, im)' <=> Faithful(st, te, se, im)
           /\ Reason' <=> Reason
<1> USE DEF Imp!sourceVars
<1>1. program' = program /\ fault' = fault /\ (FilesGiven' <=> FilesGiven)
  BY DEF FilesGiven
<1>2. /\ \A f : Length(f)' = Length(f)
      /\ \A f : Imp!Targets(f)' = Imp!Targets(f)
      /\ \A f : Sane(f)' <=> Sane(f)
  BY <1>1 DEF Length, Imp!Targets, Sane
<1>3. /\ \A f : Imp!Reached(f)' = Imp!Reached(f)
      /\ \A fr : Passed(fr)' = Passed(fr)
  BY <1>2 DEF Imp!Reached, Passed
<1>4. /\ \A fr : Upcoming(fr)' = Upcoming(fr)
      /\ \A fr : FrameFit(fr)' <=> FrameFit(fr)
  BY <1>1, <1>2, <1>3 DEF Upcoming, FrameFit
<1>5. \A fr, next : Calls(fr, next)' <=> Calls(fr, next)
  BY <1>2, <1>3, <1>4 DEF Calls
<1>6. \A st : StackFit(st)' <=> StackFit(st)
  BY <1>4, <1>5 DEF StackFit
<1>7. \A c, below : Imp!Walk(c, below)' = Imp!Walk(c, below)
  BY <1>1, SMTT(60) DEF Imp!Walk
<1>8. \A c, below : Imp!AllOf(c, below)' = Imp!AllOf(c, below)
  BY <1>1, <1>7 DEF Imp!AllOf
<1>9. Imp!Anew' = Imp!Anew /\ Whole' = Whole
  <2>1. Imp!Anew' = Imp!Anew
    BY <1>8 DEF Imp!Anew
  <2> QED
    BY <2>1 DEF Whole
<1>10. \A fr : Come(fr)' = Come(fr)
  BY <1>3, <1>7, <1>9 DEF Come
<1>11. \A fr, S : FrameSound(fr, S)' <=> FrameSound(fr, S)
  BY <1>1, <1>3, <1>10 DEF FrameSound
<1>12. \A S, rank : Finished(S, rank)' <=> Finished(S, rank)
  BY <1>2, <1>9 DEF Finished, Ranked, Steady
<1>13. \A f, im : Covered(f, im)' <=> Covered(f, im)
  BY <1>3 DEF Covered
<1>14. \A st, te, se, im : Faithful(st, te, se, im)' <=> Faithful(st, te, se, im)
  BY <1>2, <1>9, <1>11, <1>12, <1>13 DEF Faithful
<1>15. \A st, pa, te, se, im : Shaped(st, pa, te, se, im)' <=> Shaped(st, pa, te, se, im)
  BY <1>1, <1>6 DEF Shaped
<1>16. Reason' <=> Reason
  BY <1>1, <1>2, <1>3 DEF Reason, Imp!Cyclic, Imp!Broken, Imp!TooDeep
<1> QED
  BY <1>14, <1>15, <1>16

-----------------------------------------------------------------------------
(* The steps                                                                 *)

HoldsNext == Holds(stack', parsed', templates', seen', imports', errors', compiled')

\* One error.
LEMMA OneIs ==
    ASSUME NEW x \in Messages
    PROVE  <<x>> \in Seq(Messages) /\ <<x>> # <<>>
  OBVIOUS

\* The frame on top, and its next statement.
LEMMA AtTop ==
    ASSUME ImportInv
    PROVE  /\ Imp!Top = Highest(stack) /\ Imp!Top = stack[Height(stack)] /\ FrameFit(Imp!Top)
           /\ Height(stack) \in Nat /\ Height(stack) \in 1..Height(stack)
           /\ Imp!Top.file \in ImportFiles
           /\ Imp!Goes => /\ Imp!Top.rest # <<>> /\ compiled = "not yet"
                          /\ Imp!Statement = Upcoming(Imp!Top) /\ Imp!Statement \in Imp!Statements
                          /\ Imp!Statement.how # "glob" => Imp!Statement.to \in Imp!Targets(Imp!Top.file)
                          /\ Imp!Statement \in Imp!Range(program[Imp!Top.file])
<1>1. StackFit(stack) /\ FilesGiven
  BY DEF ImportInv, Holds, Shaped
<1>2. Height(stack) \in Nat /\ Height(stack) \in 1..Height(stack)
  BY <1>1 DEF StackFit, Proper
<1>3. Imp!Top = Highest(stack) /\ Imp!Top = stack[Height(stack)]
  BY DEF Imp!Top, Highest, Height
<1>4. FrameFit(Imp!Top)
  BY <1>1, <1>2, <1>3 DEF StackFit
<1>5. ASSUME Imp!Goes
      PROVE  /\ Imp!Top.rest # <<>> /\ compiled = "not yet"
             /\ Imp!Statement = Upcoming(Imp!Top) /\ Imp!Statement \in Imp!Statements
             /\ Imp!Statement.how # "glob" => Imp!Statement.to \in Imp!Targets(Imp!Top.file)
             /\ Imp!Statement \in Imp!Range(program[Imp!Top.file])
  <2>1. Imp!Top.rest # <<>> /\ compiled = "not yet"
    BY <1>5 DEF Imp!Goes
  <2>2. Length(Imp!Top.file) \in Nat /\ Passed(Imp!Top) \in 0..Length(Imp!Top.file)
    BY <1>1, <1>4, StatementsFit DEF FrameFit
  <2>3. Passed(Imp!Top) < Length(Imp!Top.file)
    <3>1. Imp!Top.rest = <<>> <=> Passed(Imp!Top) = Length(Imp!Top.file)
      BY <1>1, <1>4, FrameIs
    <3>2. Passed(Imp!Top) # Length(Imp!Top.file)
      BY <2>1, <3>1
    <3> DEFINE k == Passed(Imp!Top)
               n == Length(Imp!Top.file)
    <3>3. n \in Nat /\ k \in 0..n /\ k # n
      BY <2>2, <3>2
    <3> HIDE DEF k, n
    <3>4. k < n
      BY <3>3
    <3> QED
      BY <3>4 DEF k, n
  <2>4. Foremost(Imp!Top.rest) = Imp!Statement
    BY DEF Foremost, Imp!Statement
  <2> QED
    BY <1>1, <1>4, <2>1, <2>3, <2>4, FrameIs
<1> QED
  BY <1>2, <1>3, <1>4, <1>5 DEF FrameFit

\* Errors add up.
LEMMA ErrorsAdd ==
    ASSUME errors \in Seq(Messages), NEW e \in Seq(Messages)
    PROVE  /\ errors \o e \in Seq(Messages)
           /\ errors \o e = <<>> <=> errors = <<>> /\ e = <<>>
<1> DEFINE s == errors
           t == errors \o e
<1>1. t \in Seq(Messages) /\ Len(t) = Len(s) + Len(e)
  BY ConcatProperties
<1>2. Len(s) \in Nat /\ Len(e) \in Nat
  BY LenProperties
<1>3. (s = <<>> <=> Len(s) = 0) /\ (e = <<>> <=> Len(e) = 0)
  BY EmptySeq
<1> HIDE DEF t
<1>4. t = <<>> <=> Len(t) = 0
  BY <1>1, EmptySeq
<1> HIDE DEF s
<1>5. t = <<>> <=> s = <<>> /\ e = <<>>
  BY <1>1, <1>2, <1>3, <1>4
<1> QED
  BY <1>1, <1>5 DEF s, t

\* A frame on top that gets on is still of the same file.
LEMMA OnTopPut ==
    ASSUME FilesGiven, NEW st, StackFit(st), NEW fr, Continued(Highest(st), fr)
    PROVE  OnTop(Put(st, fr)) = OnTop(st)
<1> DEFINE t == Put(st, fr)
<1>1. Proper(st) /\ Height(st) # 0
  BY DEF StackFit
<1>2. Height(t) = Height(st) /\ \A i \in 1..Height(st) : i # Height(st) => t[i] = st[i]
  BY <1>1, PutIs
<1>3. t[Height(st)] = fr
  BY <1>1, <1>2, PutIs DEF Highest
<1> HIDE DEF t
<1>4. \A i \in 1..Height(st) : t[i].file = st[i].file
  BY <1>2, <1>3 DEF Continued, Highest
<1>5. \A i \in 2..Height(st) : i \in 1..Height(st)
  BY <1>1 DEF Proper
<1>6. OnTop(t) = OnTop(st)
  BY <1>2, <1>4, <1>5 DEF OnTop
<1> QED
  BY <1>6 DEF t

LEMMA PutFaithful ==
    ASSUME FilesGiven, NEW st, StackFit(st), NEW te, NEW se, NEW im, Faithful(st, te, se, im),
           NEW fr, Continued(Highest(st), fr), FrameSound(fr, se)
    PROVE  Faithful(Put(st, fr), te, se, im)
<1> DEFINE t == Put(st, fr)
<1>1. Proper(st) /\ Height(st) # 0
  BY DEF StackFit
<1>2. Height(t) = Height(st) /\ \A i \in 1..Height(st) : i # Height(st) => t[i] = st[i]
  BY <1>1, PutIs
<1>3. t[Height(st)] = fr
  BY <1>1, <1>2, PutIs DEF Highest
<1>4. OnTop(t) = OnTop(st)
  BY OnTopPut
<1> HIDE DEF t
<1>5. \A i \in 1..Height(t) : FrameSound(t[i], se)
  BY <1>2, <1>3 DEF Faithful
<1>6. Faithful(t, te, se, im)
  BY <1>4, <1>5 DEF Faithful
<1> QED
  BY <1>6 DEF t

\* Glob: what follows is in the context of a glob, as it would be anew.
LEMMA GlobHolds ==
    ASSUME ImportInv, Imp!Glob
    PROVE  HoldsNext
<1> DEFINE next == GlobPast(Imp!Top)
<1>1. Imp!Goes /\ Imp!Statement.how = "glob"
  BY DEF Imp!Glob
<1>2. /\ parsed' = parsed /\ templates' = templates /\ seen' = seen /\ imports' = imports
      /\ errors' = errors /\ compiled' = compiled
      /\ stack' = Put(stack, next)
  BY DEF Imp!Glob, Put, GlobPast, Height, Remaining, Imp!sourceVars
<1>3. FilesGiven /\ StackFit(stack)
  BY DEF ImportInv, Holds, Shaped
<1>4. Continued(Imp!Top, next) /\ next.globs = TRUE /\ next.parts = Imp!Top.parts
  BY <1>1, <1>3, AtTop, GlobPastIs
<1> HIDE DEF next
<1>5. StackFit(stack')
  BY <1>2, <1>3, <1>4, AtTop, PutFit
<1>6. ASSUME errors = <<>> PROVE Faithful(stack', templates, seen, imports)
  <2>1. Faithful(stack, templates, seen, imports)
    BY <1>6 DEF ImportInv, Holds
  <2>2. FrameSound(Imp!Top, seen)
    BY <2>1, AtTop DEF Faithful
  <2>3. /\ Read(Ctx(Imp!Top), Whole, [globs |-> Imp!Top.globs, parts |-> Imp!Top.parts],
                Upcoming(Imp!Top)).globs = TRUE
        /\ Read(Ctx(Imp!Top), Whole, [globs |-> Imp!Top.globs, parts |-> Imp!Top.parts],
                Upcoming(Imp!Top)).parts = Imp!Top.parts
    BY <1>1, AtTop DEF Read
  <2>4. FrameSound(next, seen)
    BY <1>1, <1>3, <1>4, <2>2, <2>3, AtTop, SoundNext
  <2> QED
    BY <1>2, <1>3, <1>4, <2>1, <2>4, AtTop, PutFaithful
<1>7. compiled = "not yet"
  BY <1>1, AtTop
<1> QED
  BY <1>2, <1>3, <1>5, <1>6, <1>7 DEF HoldsNext, ImportInv, Holds, Shaped, Ending

\* An error was reported, for a reason.
LEMMA RejectedHolds ==
    ASSUME ImportInv, Imp!Goes, NEW e \in Seq(Messages), Imp!Rejected(e), errors = <<>> => e # <<>>,
           errors = <<>> => Reason, parsed' = parsed, imports' \in Seq(ImportFiles)
    PROVE  HoldsNext
<1> DEFINE next == Imp!Past(Imp!Top, <<>>)
<1>1. /\ templates' = templates /\ seen' = seen /\ errors' = errors \o e
      /\ compiled' = compiled /\ stack' = Put(stack, next)
  BY DEF Imp!Rejected, Imp!Advanced, Put, Height
<1>2. FilesGiven /\ StackFit(stack)
  BY DEF ImportInv, Holds, Shaped
<1>3. Continued(Imp!Top, next)
  BY <1>2, AtTop, PastIs
<1> HIDE DEF next
<1>4. StackFit(stack')
  BY <1>1, <1>2, <1>3, AtTop, PutFit
<1>5. errors' \in Seq(Messages) /\ errors' # <<>> /\ Reason
  <2>1. errors \in Seq(Messages) /\ (errors # <<>> => Reason)
    BY DEF ImportInv, Holds
  <2> QED
    BY <1>1, <2>1, ErrorsAdd
<1>6. compiled = "not yet"
  BY AtTop
<1> QED
  BY <1>1, <1>2, <1>4, <1>5, <1>6 DEF HoldsNext, ImportInv, Holds, Shaped, Ending

\* Where a file is imported.
LEMMA Importing ==
    ASSUME ImportInv, NEW f \in ImportFiles, Imp!Imports(f)
    PROVE  /\ Imp!Goes /\ f \in Imp!Targets(Imp!Top.file) /\ f \in Imp!Reached(Main)
           /\ Upcoming(Imp!Top).how # "glob" /\ Upcoming(Imp!Top).to = f
           /\ Imp!Statement = Upcoming(Imp!Top) /\ Upcoming(Imp!Top) \in Imp!Range(program[Imp!Top.file])
<1>1. Imp!Goes /\ Imp!Statement.how # "glob" /\ Imp!Statement.to = f
  BY DEF Imp!Imports
<1>2. f \in Imp!Targets(Imp!Top.file) /\ Imp!Statement = Upcoming(Imp!Top) /\ Imp!Statement \in Imp!Range(program[Imp!Top.file])
  BY <1>1, AtTop
<1>3. FilesGiven /\ StackFit(stack)
  BY DEF ImportInv, Holds, Shaped
<1>4. Imp!Targets(Imp!Top.file) \subseteq Imp!Reached(Main)
  BY <1>3, AtTop, FromMain
<1> QED
  BY <1>1, <1>2, <1>4

\* A file that is not as it should be is a reason,
LEMMA FaultIs ==
    ASSUME ImportInv, NEW f \in ImportFiles, Imp!Imports(f), fault[f] # "none"
    PROVE  Reason
  BY Importing DEF Reason, Imp!Broken

\* and so is an import of something that is not there.
LEMMA AbsentIs ==
    ASSUME FilesGiven, NEW st, StackFit(st), NEW i \in 1..Height(st),
           NEW s \in Imp!Range(program[st[i].file]), s.how = "absent"
    PROVE  Reason
  BY FromMain DEF Reason, Imp!Broken

\* RejectPush: a cycle, or a chain of imports that is too long.
LEMMA RejectPushHolds ==
    ASSUME ImportInv, NEW f \in ImportFiles, Imp!RejectPush(f)
    PROVE  HoldsNext
<1>1. Imp!Imports(f) /\ parsed' = parsed /\ imports' = imports
  BY DEF Imp!RejectPush
<1>2. FilesGiven /\ StackFit(stack) /\ imports \in Seq(ImportFiles)
  BY DEF ImportInv, Holds, Shaped
<1>3. Imp!Goes /\ f \in Imp!Targets(Highest(stack).file)
  BY <1>1, Importing, AtTop
<1>4. CASE Len(stack) - 1 >= MaxImportDepth /\ Imp!Rejected(<<"depth">>)
  <2>1. Height(stack) > MaxImportDepth
    <3>1. Height(stack) \in Nat /\ MaxImportDepth \in Nat /\ Height(stack) - 1 >= MaxImportDepth
      BY <1>2, <1>4, AtTop DEF FilesGiven, Imp!ImportsFit, Height
    <3> QED
      BY <3>1
  <2>2. Reason
    BY <1>2, <1>3, <2>1, DepthIs DEF Reason
  <2>3. <<"depth">> \in Seq(Messages) /\ <<"depth">> # <<>>
    BY OneIs DEF Messages
  <2> DEFINE e == <<"depth">>
  <2>4. Imp!Rejected(e) /\ e \in Seq(Messages) /\ e # <<>>
    BY <1>4, <2>3
  <2> HIDE DEF e
  <2> QED
    BY <1>1, <1>2, <1>3, <2>2, <2>4, RejectedHolds
<1>5. CASE Imp!OnStack(f) /\ Imp!Rejected(<<"cycle">>)
  <2>1. PICK i \in 1..Height(stack) : stack[i].file = f
    BY <1>2, <1>5 DEF Imp!OnStack, StackFit, Proper
  <2>2. Reason
    BY <1>2, <1>3, <2>1, CycleIs DEF Reason
  <2>3. <<"cycle">> \in Seq(Messages) /\ <<"cycle">> # <<>>
    BY OneIs DEF Messages
  <2> DEFINE e == <<"cycle">>
  <2>4. Imp!Rejected(e) /\ e \in Seq(Messages) /\ e # <<>>
    BY <1>5, <2>3
  <2> HIDE DEF e
  <2> QED
    BY <1>1, <1>2, <1>3, <2>2, <2>4, RejectedHolds
<1> QED
  BY <1>4, <1>5 DEF Imp!RejectPush

\* What Listed does to the list.
LEMMA ListedIs ==
    ASSUME ImportInv, NEW f \in ImportFiles
    PROVE  /\ Imp!Listed(f) \in Seq(ImportFiles) /\ Imp!Range(imports) \subseteq Imp!Range(Imp!Listed(f))
           /\ (Height(stack) # 1 \/ f \in seen) => Imp!Listed(f) = imports
           /\ (Height(stack) = 1 /\ f \notin seen) =>
                /\ Imp!Range(Imp!Listed(f)) = Imp!Range(imports) \cup {f}
                /\ (Imp!IsInjective(imports) /\ f \notin Imp!Range(imports)) => Imp!IsInjective(Imp!Listed(f))
<1> DEFINE t == Append(imports, f)
           n == Len(imports)
<1>1. imports \in Seq(ImportFiles)
  BY DEF ImportInv, Holds, Shaped
<1>2. /\ t \in Seq(ImportFiles) /\ Len(t) = n + 1 /\ t[n + 1] = f
      /\ \A i \in 1..n : t[i] = imports[i]
  BY <1>1, AppendProperties
<1>3. n \in Nat /\ DOMAIN imports = 1..n /\ DOMAIN t = 1..(n + 1)
  BY <1>1, <1>2, LenProperties
<1> HIDE DEF t, n
<1>4. \A i \in 1..(n + 1) : i \in 1..n \/ i = n + 1
  BY <1>3
<1>5. n + 1 \in 1..(n + 1) /\ \A i \in 1..n : i \in 1..(n + 1)
  BY <1>3
<1>6. Imp!Range(t) = Imp!Range(imports) \cup {f}
  BY <1>2, <1>3, <1>4, <1>5 DEF Imp!Range
<1>7. ASSUME Imp!IsInjective(imports), f \notin Imp!Range(imports) PROVE Imp!IsInjective(t)
  <2>1. \A i \in 1..n : imports[i] # f
    BY <1>3, <1>7 DEF Imp!Range
  <2>2. \A i, j \in 1..n : imports[i] = imports[j] => i = j
    BY <1>3, <1>7 DEF Imp!IsInjective
  <2>3. \A i, j \in 1..(n + 1) : t[i] = t[j] => i = j
    BY <1>2, <1>4, <2>1, <2>2
  <2> QED
    BY <1>3, <2>3 DEF Imp!IsInjective
<1>8. Imp!Listed(f) = IF Height(stack) = 1 /\ f \notin seen THEN t ELSE imports
  BY DEF Imp!Listed, Height, t
<1> QED
  BY <1>1, <1>2, <1>6, <1>7, <1>8

\* RejectLoad: a file that cannot be opened or parsed, or that comes after an error.
LEMMA RejectLoadHolds ==
    ASSUME ImportInv, NEW f \in ImportFiles, Imp!RejectLoad(f)
    PROVE  HoldsNext
<1>1. Imp!Imports(f) /\ parsed' = parsed /\ imports' = Imp!Listed(f)
  BY DEF Imp!RejectLoad, Imp!Fresh, Imp!MayImport
<1>2. Imp!Goes /\ imports' \in Seq(ImportFiles)
  BY <1>1, Importing, ListedIs
<1>3. PICK e \in {<<"open">>, <<"syntax">>, <<>>} :
        Imp!Rejected(e) /\ (errors = <<>> => e # <<>>) /\ (errors = <<>> => fault[f] # "none")
  <2>1. CASE fault[f] = "missing" /\ Imp!Rejected(<<"open">>)
    BY <2>1
  <2>2. CASE fault[f] = "syntax" /\ Imp!Rejected(<<"syntax">>)
    BY <2>2
  <2>3. CASE errors # <<>> /\ Imp!Rejected(<<>>)
    BY <2>3
  <2> QED
    BY <2>1, <2>2, <2>3 DEF Imp!RejectLoad
<1>4. e \in Seq(Messages)
  <2>1. <<"open">> \in Seq(Messages) /\ <<"syntax">> \in Seq(Messages)
    BY OneIs DEF Messages
  <2>2. <<>> \in Seq(Messages)
    BY EmptySeq
  <2> QED
    BY <1>3, <2>1, <2>2
<1>5. errors = <<>> => Reason
  BY <1>1, <1>3, FaultIs
<1> QED
  BY <1>1, <1>2, <1>3, <1>4, <1>5, RejectedHolds

\* What is selected of an import, and what is wrong with it.
LEMMA SelectIs ==
    ASSUME NEW how
    PROVE  /\ Imp!SelectError(how) \in Seq(Messages)
           /\ Imp!SelectError(how) = <<>> <=> how # "absent"
           /\ how # "absent" => \A t : Imp!Selected(how, t) = <<t>>
<1>1. <<"key">> \in Seq(Messages) /\ <<"key">> # <<>>
  BY OneIs DEF Messages
<1>2. <<>> \in Seq(Messages)
  BY EmptySeq
<1> QED
  BY <1>1, <1>2 DEF Imp!SelectError, Imp!Selected

\* UseTemplate: what is kept is what compiling the file anew would give here.
LEMMA UseTemplateHolds ==
    ASSUME ImportInv, NEW f \in ImportFiles, Imp!UseTemplate(f)
    PROVE  HoldsNext
<1> DEFINE how == Upcoming(Imp!Top).how
           t == templates[f]
           next == Imp!Past(Imp!Top, Imp!Selected(how, t))
<1>1. Imp!Imports(f) /\ Imp!Cacheable /\ t # Imp!NoTree
  BY DEF Imp!UseTemplate, Imp!MayImport
<1>2. /\ Imp!Goes /\ Imp!Statement = Upcoming(Imp!Top) /\ Upcoming(Imp!Top).to = f /\ how # "glob"
      /\ Upcoming(Imp!Top) \in Imp!Range(program[Imp!Top.file])
  BY <1>1, Importing
<1>3. /\ parsed' = parsed /\ templates' = templates /\ seen' = seen \cup {f}
      /\ imports' = Imp!Listed(f) /\ errors' = errors \o Imp!SelectError(how) /\ compiled' = compiled
      /\ stack' = Put(stack, next)
  BY <1>2 DEF Imp!UseTemplate, Imp!Advanced, Put, Height
<1>4. /\ FilesGiven /\ StackFit(stack) /\ Shaped(stack, parsed, templates, seen, imports)
      /\ errors \in Seq(Messages)
  BY DEF ImportInv, Holds, Shaped
<1>5. Imp!Top.rest # <<>> /\ compiled = "not yet" /\ Imp!Top = Highest(stack) /\ FrameFit(Imp!Top)
  BY <1>2, AtTop
<1>6. Continued(Imp!Top, next)
  BY <1>4, <1>5, PastIs
<1>7. StackFit(stack')
  <2> HIDE DEF next
  <2> QED
    BY <1>3, <1>4, <1>5, <1>6, PutFit
<1>8. f # Main
  <2>1. ~Imp!OnStack(f)
    BY DEF Imp!UseTemplate, Imp!MayImport
  <2>2. 1 \in DOMAIN stack /\ stack[1].file = Main
    BY <1>4 DEF StackFit, Proper
  <2> QED
    BY <2>1, <2>2 DEF Imp!OnStack
<1>9. Shaped(stack', parsed', templates', seen', imports')
  BY <1>3, <1>4, <1>7, <1>8, ListedIs DEF Shaped
<1>10. /\ errors' \in Seq(Messages)
       /\ errors' = <<>> <=> errors = <<>> /\ how # "absent"
  <2>1. Imp!SelectError(how) \in Seq(Messages) /\ (Imp!SelectError(how) = <<>> <=> how # "absent")
    BY SelectIs
  <2> HIDE DEF how
  <2> QED
    BY <1>3, <1>4, <2>1, ErrorsAdd
<1>11. errors' # <<>> => Reason
  <2>1. CASE how = "absent"
    <3>1. Height(stack) \in 1..Height(stack) /\ Imp!Top = stack[Height(stack)]
      BY AtTop
    <3> QED
      BY <1>2, <1>4, <2>1, <3>1, AbsentIs
  <2>2. CASE how # "absent"
    BY <1>10, <2>2 DEF ImportInv, Holds
  <2> QED
    BY <2>1, <2>2
<1>12. ASSUME errors' = <<>> PROVE Faithful(stack', templates', seen', imports')
  <2>1. errors = <<>> /\ how # "absent"
    BY <1>10, <1>12
  <2>2. Faithful(stack, templates, seen, imports)
    BY <2>1 DEF ImportInv, Holds
  <2>3. f \in seen /\ t = Whole[Plain(f)]
    BY <1>1, <2>2 DEF Faithful
  <2>4. seen' = seen /\ imports' = imports
    BY <1>3, <2>3, ListedIs
  <2>5. FrameSound(Imp!Top, seen)
    BY <2>2, AtTop DEF Faithful
  <2>6. ~Imp!Top.globs /\ ~Imp!Top.nested /\ how # "nested"
    BY <1>1, <1>2 DEF Imp!Cacheable
  <2> DEFINE x == Plain(f)
  <2>7. x \in Imp!Contexts /\ x.file = f /\ x.globs = FALSE /\ x.nested = FALSE
    BY DEF Plain, Imp!Contexts
  <2> HIDE DEF x
  <2>8. x.globs = Imp!Top.globs /\ x.nested = (Imp!Top.nested \/ how = "nested")
    <3>1. Imp!Top.globs \in BOOLEAN /\ Imp!Top.nested \in BOOLEAN
      BY <1>5 DEF FrameFit
    <3> QED
      BY <2>6, <2>7, <3>1
  <2>9. next = Imp!Past(Imp!Top, <<Whole[x]>>)
    BY <2>1, <2>3, SelectIs DEF x
  <2>10. FrameSound(next, seen)
    <3> HIDE DEF next
    <3> QED
      BY <1>2, <1>4, <1>5, <2>1, <2>3, <2>5, <2>7, <2>8, <2>9, SoundPast
  <2> HIDE DEF next
  <2> QED
    BY <1>3, <1>4, <1>5, <1>6, <2>2, <2>4, <2>10, PutFaithful
<1>13. Ending(stack', errors', compiled')
  BY <1>3, <1>5 DEF Ending
<1> QED
  BY <1>9, <1>10, <1>11, <1>12, <1>13 DEF HoldsNext, Holds

\* Nothing is passed of a sequence yet.
LEMMA NoneBehind ==
    ASSUME NEW S, NEW q \in Seq(S)
    PROVE  Behind(q, 0) = q
<1> DEFINE n == Len(q)
           r == SubSeq(q, 1, n)
<1>1. n \in Nat /\ (\A i \in 1..n : q[i] \in S) /\ 1 \in Int /\ n \in Int
  BY LenProperties, ElementOfSeq
<1> HIDE DEF n, r
<1>2. /\ r \in Seq(S) /\ Len(r) = IF 1 <= n THEN n - 1 + 1 ELSE 0
      /\ \A i \in 1..(n - 1 + 1) : r[i] = q[1 + i - 1]
  BY <1>1, SubSeqProperties DEF r
<1>3. Len(r) = n /\ \A i \in 1..n : r[i] = q[i]
  <2>1. (IF 1 <= n THEN n - 1 + 1 ELSE 0) = n /\ n - 1 + 1 = n /\ \A i \in 1..n : 1 + i - 1 = i
    BY <1>1
  <2> QED
    BY <1>2, <2>1
<1>4. r = q
  <2>1. Len(q) = n
    BY DEF n
  <2> QED
    BY <1>2, <1>3, <2>1, SeqEqual
<1>5. 0 + 1 = 1
  OBVIOUS
<1> QED
  BY <1>4, <1>5 DEF Behind, r, n

\* The frame of a file that is imported.
LEMMA FrameNew ==
    ASSUME FilesGiven, NEW f \in ImportFiles, NEW globs \in BOOLEAN, NEW nested \in BOOLEAN,
           NEW keep \in BOOLEAN
    PROVE  LET fr == Imp!Frame(f, globs, nested, keep)
           IN  /\ FrameFit(fr) /\ Passed(fr) = 0 /\ fr.parts = <<>>
               /\ fr.file = f /\ fr.globs = globs /\ fr.under = globs /\ fr.nested = nested
               /\ fr.keep = keep
<1> DEFINE fr == Imp!Frame(f, globs, nested, keep)
           rest == program[f]
           before == Len(errors)
<1>1. fr = [file |-> f, rest |-> rest, parts |-> <<>>, globs |-> globs, under |-> globs,
            nested |-> nested, keep |-> keep, before |-> before]
  BY DEF Imp!Frame
<1> HIDE DEF rest, before
<1>2. /\ fr.file = f /\ fr.rest = rest /\ fr.parts = <<>> /\ fr.globs = globs
      /\ fr.under = globs /\ fr.nested = nested /\ fr.keep = keep
      /\ fr \in [file : ImportFiles, rest : {fr.rest}, parts : {fr.parts}, globs : BOOLEAN,
                 under : BOOLEAN, nested : BOOLEAN, keep : BOOLEAN, before : {fr.before}]
  BY <1>1
<1> HIDE DEF fr
<1>3. Length(f) \in Nat /\ rest \in Seq(Imp!Statements)
  BY StatementsFit DEF rest
<1>4. Passed(fr) = 0
  <2>1. Passed(fr) = Length(f) - Length(f)
    BY <1>2 DEF Passed, Height, Length, rest
  <2> QED
    BY <1>3, <2>1
<1>5. Passed(fr) \in 0..Length(fr.file) /\ fr.rest = Behind(program[fr.file], Passed(fr))
  BY <1>2, <1>3, <1>4, NoneBehind DEF rest
<1>6. FrameFit(fr)
  BY <1>2, <1>5 DEF FrameFit
<1> QED
  BY <1>2, <1>4, <1>6 DEF fr

\* Nothing has come of it yet.
LEMMA SoundNew ==
    ASSUME FilesGiven, NEW fr, FrameFit(fr), Passed(fr) = 0, fr.parts = <<>>, fr.globs = fr.under,
           fault[fr.file] = "none", NEW S
    PROVE  FrameSound(fr, S)
<1>1. Ctx(fr) \in Imp!Contexts
  BY CtxIs
<1>2. Imp!Walk(Ctx(fr), Whole)[0] = [globs |-> Ctx(fr).globs, parts |-> <<>>]
  BY <1>1, WalkIs
<1>3. Come(fr) = [globs |-> fr.under, parts |-> <<>>]
  BY <1>2 DEF Come, Ctx
<1> QED
  BY <1>3 DEF FrameSound

\* One more file is being imported.
LEMMA OnTopPush ==
    ASSUME FilesGiven, NEW st, StackFit(st), NEW fr
    PROVE  OnTop(Push(st, fr)) = OnTop(st) \cup {fr.file}
<1> DEFINE n == Height(st)
           t == Push(st, fr)
<1>1. n \in Nat /\ n >= 1 /\ Proper(st)
  BY DEF StackFit, Proper
<1>2. Height(t) = n + 1 /\ (\A i \in 1..n : t[i] = st[i]) /\ t[n + 1] = fr
  BY <1>1, PushIs
<1> HIDE DEF t, n
<1>3. \A i \in 2..(n + 1) : i \in 2..n \/ i = n + 1
  BY <1>1
<1>4. n + 1 \in 2..(n + 1) /\ \A i \in 2..n : i \in 1..n /\ i \in 2..(n + 1)
  BY <1>1
<1>5. {t[i].file : i \in 2..(n + 1)} = {st[i].file : i \in 2..n} \cup {fr.file}
  BY <1>2, <1>3, <1>4
<1> QED
  BY <1>2, <1>5 DEF OnTop, t, n

\* What is listed covers a file that is being imported.
LEMMA ListCovers ==
    ASSUME ImportInv, errors = <<>>, NEW f \in ImportFiles, Imp!Imports(f)
    PROVE  /\ \A g \in seen \cup OnTop(stack) \cup {f} : Covered(g, Imp!Listed(f))
           /\ Imp!Range(Imp!Listed(f)) \subseteq Imp!Targets(Main)
           /\ Imp!Range(Imp!Listed(f)) \subseteq seen \cup OnTop(stack) \cup {f}
           /\ (Height(stack) = 1 /\ f \notin seen) => f \notin Imp!Range(imports)
           /\ Height(stack) = 1 => OnTop(stack) = {}
<1>1. FilesGiven /\ StackFit(stack) /\ imports \in Seq(ImportFiles)
  BY DEF ImportInv, Holds, Shaped
<1>2. Faithful(stack, templates, seen, imports)
  BY DEF ImportInv, Holds
<1>3. /\ Imp!IsInjective(imports) /\ Imp!Range(imports) \subseteq (seen \cup OnTop(stack)) \cap Imp!Targets(Main)
      /\ \A g \in seen \cup OnTop(stack) : Covered(g, imports)
  BY <1>2 DEF Faithful
<1>4. /\ Imp!Range(imports) \subseteq Imp!Range(Imp!Listed(f))
      /\ Imp!Range(Imp!Listed(f)) \subseteq Imp!Range(imports) \cup {f}
      /\ Imp!Range(Imp!Listed(f)) # Imp!Range(imports) => Height(stack) = 1
      /\ (Height(stack) # 1 \/ f \in seen) => Imp!Listed(f) = imports
      /\ (Height(stack) = 1 /\ f \notin seen) => f \in Imp!Range(Imp!Listed(f))
  BY ListedIs
<1>5. f \in Imp!Targets(Imp!Top.file) /\ Imp!Top = stack[Height(stack)] /\ Height(stack) \in Nat
      /\ Height(stack) \in 1..Height(stack) /\ Imp!Top.file \in ImportFiles
  BY Importing, AtTop
<1>6. Height(stack) = 1 => OnTop(stack) = {} /\ Imp!Top.file = Main
  <2>1. Height(stack) = 1 => 2..Height(stack) = {}
    OBVIOUS
  <2> QED
    BY <1>1, <1>5, <2>1 DEF OnTop, StackFit
<1>7. \A g \in seen \cup OnTop(stack) : Covered(g, Imp!Listed(f))
  BY <1>3, <1>4 DEF Covered
<1>8. Covered(f, Imp!Listed(f))
  <2>1. CASE f \in seen
    BY <1>7, <2>1
  <2>2. CASE f \notin seen /\ Height(stack) = 1
    BY <1>4, <2>2 DEF Covered
  <2>3. CASE Height(stack) # 1
    <3>1. Imp!Top.file \in OnTop(stack)
      <4>1. Height(stack) \in 2..Height(stack)
        BY <1>5, <2>3
      <4> QED
        BY <1>5, <4>1 DEF OnTop
    <3>2. PICK g \in Imp!Range(imports) : Imp!Top.file = g \/ Imp!Top.file \in Imp!Reached(g)
      BY <1>3, <3>1 DEF Covered
    <3>3. g \in ImportFiles
      BY <1>1, <3>2, RangeOfSeq, ImportOperators
    <3>4. f \in Imp!Reached(g)
      BY <1>1, <1>5, <3>2, <3>3, ReachedIs
    <3> QED
      BY <1>4, <3>2, <3>4 DEF Covered
  <2> QED
    BY <2>1, <2>2, <2>3
<1>9. Imp!Range(Imp!Listed(f)) \subseteq Imp!Targets(Main)
  BY <1>3, <1>4, <1>5, <1>6
<1>10. Imp!Range(Imp!Listed(f)) \subseteq seen \cup OnTop(stack) \cup {f}
  BY <1>3, <1>4
<1>11. (Height(stack) = 1 /\ f \notin seen) => f \notin Imp!Range(imports)
  BY <1>3, <1>6
<1> QED
  BY <1>6, <1>7, <1>8, <1>9, <1>10, <1>11

\* Descend: a file is compiled in the context it is imported in.
LEMMA DescendHolds ==
    ASSUME ImportInv, NEW f \in ImportFiles, Imp!Descend(f)
    PROVE  HoldsNext
<1> DEFINE nested == Imp!Top.nested \/ Imp!Statement.how = "nested"
           keep == Imp!Cacheable
           fr == Imp!Frame(f, Imp!Top.globs, nested, keep)
<1>1. /\ Imp!Imports(f) /\ Len(stack) - 1 < MaxImportDepth /\ ~Imp!OnStack(f)
      /\ f \in parsed \/ (fault[f] \notin {"missing", "syntax"} /\ errors = <<>>)
  BY DEF Imp!Descend, Imp!Fresh, Imp!MayImport
<1>2. /\ imports' = Imp!Listed(f) /\ parsed' = parsed \cup {f} /\ seen' = seen
      /\ errors' = IF fault[f] = "meaning" THEN Append(errors, "meaning") ELSE errors
      /\ stack' = Push(stack, fr) /\ templates' = templates /\ compiled' = compiled
  BY DEF Imp!Descend, Push
<1>3. /\ FilesGiven /\ StackFit(stack) /\ Shaped(stack, parsed, templates, seen, imports)
      /\ errors \in Seq(Messages)
  BY DEF ImportInv, Holds, Shaped
<1>4. /\ Imp!Goes /\ Imp!Statement = Upcoming(Imp!Top) /\ Upcoming(Imp!Top).to = f
      /\ Upcoming(Imp!Top).how # "glob"
  BY <1>1, Importing
<1>5. Imp!Top.rest # <<>> /\ compiled = "not yet" /\ Imp!Top = Highest(stack) /\ FrameFit(Imp!Top)
  BY <1>4, AtTop
<1>6. Imp!Top.globs \in BOOLEAN /\ nested \in BOOLEAN /\ keep \in BOOLEAN
  BY <1>5 DEF FrameFit, Imp!Cacheable
<1>7. keep => ~Imp!Top.globs /\ ~nested
  BY DEF Imp!Cacheable
<1>8. nested = (Imp!Top.nested \/ Upcoming(Imp!Top).how = "nested")
  BY <1>4
<1> HIDE DEF nested, keep
<1>9. /\ FrameFit(fr) /\ Passed(fr) = 0 /\ fr.parts = <<>> /\ fr.file = f
      /\ fr.globs = Imp!Top.globs /\ fr.under = Imp!Top.globs /\ fr.nested = nested /\ fr.keep = keep
  BY <1>3, <1>6, FrameNew
<1> HIDE DEF fr
<1>10. Calls(Imp!Top, fr)
  <2>1. Passed(Imp!Top) < Length(Imp!Top.file)
    <3> DEFINE k == Passed(Imp!Top)
               n == Length(Imp!Top.file)
    <3>1. n \in Nat /\ k \in 0..n
      BY <1>3, <1>5, StatementsFit DEF FrameFit
    <3>2. k # n
      BY <1>3, <1>5, FrameIs
    <3> HIDE DEF k, n
    <3>3. k < n
      BY <3>1, <3>2
    <3> QED
      BY <3>3 DEF k, n
  <2> QED
    BY <1>4, <1>7, <1>8, <1>9, <2>1 DEF Calls
<1>11. StackFit(stack')
  <2>1. Height(stack) <= MaxImportDepth
    <3>1. Height(stack) \in Nat /\ MaxImportDepth \in Nat /\ Height(stack) - 1 < MaxImportDepth
      BY <1>1, <1>3, AtTop DEF FilesGiven, Imp!ImportsFit, Height
    <3> QED
      BY <3>1
  <2>2. \A i \in 1..Height(stack) : stack[i].file # fr.file
    BY <1>1, <1>3, <1>9 DEF Imp!OnStack, StackFit, Proper
  <2> QED
    BY <1>2, <1>3, <1>5, <1>9, <1>10, <2>1, <2>2, PushFit
<1>12. fault[f] \in {"none", "meaning"}
  <2>1. fault[f] \in {"none", "missing", "syntax", "meaning"}
    BY <1>3 DEF FilesGiven, Imp!ImportsFit
  <2>2. f \in parsed => fault[f] \in {"none", "meaning"}
    BY <1>3 DEF Shaped
  <2> QED
    BY <1>1, <2>1, <2>2
<1>13. Shaped(stack', parsed', templates', seen', imports')
  BY <1>2, <1>3, <1>11, <1>12, ListedIs DEF Shaped
<1>14. /\ errors' \in Seq(Messages)
       /\ errors' = <<>> <=> errors = <<>> /\ fault[f] = "none"
  <2>1. CASE fault[f] = "meaning"
    <3>1. "meaning" \in Messages
      BY DEF Messages
    <3>2. /\ Append(errors, "meaning") \in Seq(Messages)
          /\ Len(Append(errors, "meaning")) = Len(errors) + 1 /\ Len(errors) \in Nat
      BY <1>3, <3>1, AppendProperties, LenProperties
    <3>3. Append(errors, "meaning") # <<>>
      BY <3>2, EmptySeq
    <3> QED
      BY <1>2, <2>1, <3>2, <3>3
  <2>2. CASE fault[f] # "meaning"
    BY <1>2, <1>3, <1>12, <2>2
  <2> QED
    BY <2>1, <2>2
<1>15. errors' # <<>> => Reason
  BY <1>1, <1>14, FaultIs DEF ImportInv, Holds
<1>16. ASSUME errors' = <<>> PROVE Faithful(stack', templates', seen', imports')
  <2>1. errors = <<>> /\ fault[f] = "none"
    BY <1>14, <1>16
  <2>2. Faithful(stack, templates, seen, imports)
    BY <2>1 DEF ImportInv, Holds
  <2>3. FrameSound(fr, seen)
    BY <1>3, <1>9, <2>1, SoundNew
  <2>4. \A i \in 1..Height(stack') : FrameSound(stack'[i], seen)
    <3>1. /\ Height(stack') = Height(stack) + 1 /\ (\A i \in 1..Height(stack) : stack'[i] = stack[i])
          /\ stack'[Height(stack) + 1] = fr
      BY <1>2, <1>3, PushIs DEF StackFit
    <3> DEFINE n == Height(stack)
    <3>2. n \in Nat
      BY AtTop
    <3> HIDE DEF n
    <3>3. \A i \in 1..(n + 1) : i \in 1..n \/ i = n + 1
      BY <3>2
    <3> QED
      BY <2>2, <2>3, <3>1, <3>3 DEF Faithful, n
  <2>5. OnTop(stack') = OnTop(stack) \cup {f}
    BY <1>2, <1>3, <1>9, OnTopPush
  <2>6. /\ \A g \in seen \cup OnTop(stack) \cup {f} : Covered(g, Imp!Listed(f))
        /\ Imp!Range(Imp!Listed(f)) \subseteq Imp!Targets(Main)
        /\ Imp!Range(Imp!Listed(f)) \subseteq seen \cup OnTop(stack) \cup {f}
        /\ (Height(stack) = 1 /\ f \notin seen) => f \notin Imp!Range(imports)
    BY <1>1, <2>1, ListCovers
  <2>7. Imp!IsInjective(Imp!Listed(f))
    <3>1. Imp!IsInjective(imports)
      BY <2>2 DEF Faithful
    <3> QED
      BY <2>6, <3>1, ListedIs
  <2> QED
    BY <1>2, <2>2, <2>4, <2>5, <2>6, <2>7 DEF Faithful
<1>17. Ending(stack', errors', compiled')
  BY <1>2, <1>5 DEF Ending
<1> QED
  BY <1>13, <1>14, <1>15, <1>16, <1>17 DEF HoldsNext, Holds

\* One file less is.
LEMMA OnTopPop ==
    ASSUME FilesGiven, NEW st, StackFit(st), Height(st) # 1
    PROVE  /\ OnTop(st) = OnTop(Pop(st)) \cup {Highest(st).file}
           /\ Highest(st).file \in ImportFiles \ {Main}
<1> DEFINE n == Height(st)
           t == Pop(st)
<1>1. n \in Nat /\ n >= 2 /\ Proper(st) /\ n # 0
  BY DEF StackFit, Proper
<1>2. Height(t) = n - 1 /\ (\A i \in 1..(n - 1) : t[i] = st[i]) /\ Highest(st) = st[n]
  BY <1>1, PopIs DEF Highest
<1> HIDE DEF t
<1>3. 1 \in 1..n /\ n \in 1..n /\ 1 # n
  BY <1>1
<1>4. st[n].file # Main /\ st[n].file \in ImportFiles
  BY <1>3 DEF StackFit, FrameFit
<1> HIDE DEF n
<1>5. \A i \in 2..n : i \in 2..(n - 1) \/ i = n
  BY <1>1
<1>6. n \in 2..n /\ \A i \in 2..(n - 1) : i \in 1..(n - 1) /\ i \in 2..n
  BY <1>1
<1>7. {st[i].file : i \in 2..n} = {t[i].file : i \in 2..(n - 1)} \cup {st[n].file}
  BY <1>2, <1>5, <1>6
<1> QED
  BY <1>2, <1>4, <1>7 DEF OnTop, t, n

\* What is left on the stack when a file is done.
LEMMA FaithfulPop ==
    ASSUME FilesGiven, NEW st, StackFit(st), Height(st) # 1, NEW te, NEW im,
           NEW se \in SUBSET (ImportFiles \ {Main}), Faithful(st, te, se, im),
           Highest(st).rest = <<>>, NEW next,
           next = te \/ /\ te = [g \in ImportFiles |-> te[g]]
                        /\ next = [te EXCEPT ![Highest(st).file] = Imp!TreeOf(Highest(st))]
                        /\ ~Highest(st).under /\ ~Highest(st).nested
    PROVE  /\ Faithful(Pop(st), next, se \cup {Highest(st).file}, im)
           /\ Imp!TreeOf(Highest(st)) = Whole[Ctx(Highest(st))]
<1> DEFINE n == Height(st)
           fr == Highest(st)
           f == fr.file
           T == se \cup {f}
<1>1. n \in Nat /\ n # 0 /\ Proper(st) /\ n \in 1..n /\ fr = st[n]
  BY DEF StackFit, Proper, Highest
<1>2. FrameFit(fr) /\ FrameSound(fr, se) /\ f \in ImportFiles \ {Main}
  BY <1>1, OnTopPop DEF StackFit, Faithful
<1>3. PICK rank : Finished(se, rank)
  BY DEF Faithful
<1> HIDE DEF fr
<1>4. Imp!Targets(f) \subseteq se /\ Sane(f) /\ Imp!TreeOf(fr) = Whole[Ctx(fr)]
  <2>1. fr.rest = <<>>
    BY DEF fr
  <2> QED
    BY <1>2, <1>3, <2>1, SoundDone
<1>5. \E r : Finished(T, r)
  <2> HIDE DEF f
  <2> QED
    BY <1>2, <1>3, <1>4, OneMore
<1>6. \A i \in 1..Height(Pop(st)) : FrameSound(Pop(st)[i], T)
  <2>1. Height(Pop(st)) = n - 1 /\ \A i \in 1..(n - 1) : Pop(st)[i] = st[i]
    BY <1>1, PopIs
  <2>2. \A i \in 1..(n - 1) : i \in 1..n
    BY <1>1
  <2>3. \A i \in 1..(n - 1) : FrameSound(st[i], se)
    BY <2>2 DEF Faithful
  <2> QED
    BY <2>1, <2>3, SoundGrows
<1>7. ASSUME NEW g \in ImportFiles, next[g] # Imp!NoTree
      PROVE  g \in T /\ next[g] = Whole[Plain(g)]
  <2>1. CASE next[g] = te[g]
    BY <1>7, <2>1 DEF Faithful
  <2>2. CASE next[g] # te[g]
    <3>1. /\ next = [te EXCEPT ![f] = Imp!TreeOf(fr)] /\ ~fr.under /\ ~fr.nested
          /\ te = [h \in ImportFiles |-> te[h]]
      BY <2>2 DEF fr
    <3>2. g = f /\ next[g] = Imp!TreeOf(fr)
      BY <1>2, <2>2, <3>1
    <3>3. Ctx(fr) = Plain(f)
      <4>1. fr.under = FALSE /\ fr.nested = FALSE
        BY <1>2, <3>1 DEF FrameFit
      <4> QED
        BY <4>1 DEF Ctx, Plain
    <3> QED
      BY <1>4, <3>2, <3>3
  <2> QED
    BY <2>1, <2>2
<1>8. T \cup OnTop(Pop(st)) = se \cup OnTop(st)
  BY OnTopPop DEF fr
<1>9. Faithful(Pop(st), next, T, im)
  BY <1>5, <1>6, <1>7, <1>8 DEF Faithful
<1> QED
  BY <1>4, <1>9 DEF fr

\* Ascend: a file that is done is what it would be anew, and so is what is kept of it.
LEMMA AscendHolds ==
    ASSUME ImportInv, Imp!Ascend
    PROVE  HoldsNext
<1> DEFINE n == Height(stack)
           below == Pop(stack)
           fr == Highest(below)
           how == Upcoming(fr).how
           next == Imp!Past(fr, Imp!Selected(how, Imp!TreeOf(Imp!Top)))
<1>1. compiled = "not yet" /\ n # 1 /\ Imp!Top.rest = <<>>
  <2>1. compiled = "not yet" /\ Imp!Top.rest = <<>>
    BY DEF Imp!Ascend
  <2>2. n > 1
    BY DEF Imp!Ascend, Height
  <2>3. n \in Nat
    BY AtTop
  <2> HIDE DEF n
  <2>4. n # 1
    BY <2>2, <2>3
  <2> QED
    BY <2>1, <2>4
<1>2. /\ FilesGiven /\ StackFit(stack) /\ Shaped(stack, parsed, templates, seen, imports)
      /\ errors \in Seq(Messages)
  BY DEF ImportInv, Holds, Shaped
<1>3. /\ Imp!Top = Highest(stack) /\ Imp!Top = stack[n] /\ FrameFit(Imp!Top) /\ n \in Nat /\ n \in 1..n
      /\ Imp!Top.file \in ImportFiles
  BY AtTop
<1>4. StackFit(below) /\ fr = stack[n - 1] /\ n - 1 \in 1..(n - 1) /\ n - 1 \in 1..n
      /\ (n - 1) + 1 = n
  <2>1. n - 1 \in 1..(n - 1) /\ n - 1 \in 1..n /\ (n - 1) + 1 = n
    <3>1. n \in Nat /\ n \in 1..n /\ n # 1
      BY <1>1, <1>3
    <3> HIDE DEF n
    <3> QED
      BY <3>1
  <2> QED
    BY <1>1, <1>2, <2>1, PopFit
<1> HIDE DEF below, n
<1>5. Calls(fr, Imp!Top) /\ FrameFit(fr)
  <2>1. Calls(stack[n - 1], stack[(n - 1) + 1]) /\ FrameFit(stack[n - 1])
    BY <1>2, <1>4 DEF StackFit, n
  <2> QED
    BY <1>3, <1>4, <2>1
<1> HIDE DEF fr
<1>6. /\ how # "glob" /\ Upcoming(fr).to = Imp!Top.file /\ Foremost(fr.rest) = Upcoming(fr)
      /\ fr.rest # <<>> /\ Upcoming(fr) \in Imp!Range(program[fr.file])
      /\ Imp!Top.under = fr.globs /\ Imp!Top.nested = (fr.nested \/ how = "nested")
      /\ Imp!Top.keep => ~Imp!Top.under /\ ~Imp!Top.nested
  <2>1. /\ Passed(fr) < Length(fr.file) /\ how # "glob" /\ Upcoming(fr).to = Imp!Top.file
        /\ Imp!Top.under = fr.globs /\ Imp!Top.nested = (fr.nested \/ how = "nested")
        /\ Imp!Top.keep => ~Imp!Top.under /\ ~Imp!Top.nested
    BY <1>5 DEF Calls
  <2>2. Foremost(fr.rest) = Upcoming(fr) /\ Upcoming(fr) \in Imp!Range(program[fr.file])
    BY <1>2, <1>5, <2>1, FrameIs
  <2>3. fr.rest # <<>>
    <3>1. Passed(fr) # Length(fr.file)
      <4>1. Length(fr.file) \in Nat
        BY <1>2, <1>5, StatementsFit DEF FrameFit
      <4> QED
        BY <2>1, <4>1
    <3> QED
      BY <1>2, <1>5, <3>1, FrameIs
  <2> QED
    BY <2>1, <2>2, <2>3
<1>7. /\ seen' = seen \cup {Imp!Top.file}
      /\ templates' = (IF Imp!Kept(Imp!Top) THEN [templates EXCEPT ![Imp!Top.file] = Imp!TreeOf(Imp!Top)]
                       ELSE templates)
      /\ errors' = errors \o Imp!SelectError(how)
      /\ stack' = Put(below, next)
      /\ parsed' = parsed /\ imports' = imports /\ compiled' = compiled
  <2>1. how = Head(fr.rest).how
    BY <1>6 DEF Foremost
  <2>2. below = Imp!Front(stack) /\ fr = below[Len(below)]
    BY DEF below, fr, Pop, Highest, Height
  <2> HIDE DEF how
  <2> QED
    BY <2>1, <2>2 DEF Imp!Ascend, Put, Height, Imp!sourceVars
<1>8. Continued(fr, next)
  BY <1>2, <1>5, <1>6, PastIs
<1>9. StackFit(stack')
  <2> HIDE DEF next
  <2> QED
    BY <1>2, <1>4, <1>7, <1>8, PutFit DEF fr
<1>10. Imp!Top.file \in ImportFiles \ {Main}
  BY <1>1, <1>2, <1>3, OnTopPop DEF n
<1>11. Shaped(stack', parsed', templates', seen', imports')
  <2>1. templates' = [f \in ImportFiles |-> templates'[f]]
    <3>1. templates = [f \in ImportFiles |-> templates[f]]
      BY <1>2 DEF Shaped
    <3> QED
      BY <1>7, <3>1
  <2> QED
    BY <1>2, <1>7, <1>9, <1>10, <2>1 DEF Shaped
<1>12. /\ errors' \in Seq(Messages)
       /\ errors' = <<>> <=> errors = <<>> /\ how # "absent"
  <2>1. Imp!SelectError(how) \in Seq(Messages) /\ (Imp!SelectError(how) = <<>> <=> how # "absent")
    BY SelectIs
  <2> HIDE DEF how
  <2> QED
    BY <1>2, <1>7, <2>1, ErrorsAdd
<1>13. errors' # <<>> => Reason
  <2>1. CASE how = "absent"
    <3>1. n - 1 \in 1..Height(stack) /\ fr = stack[n - 1]
      BY <1>4 DEF n
    <3> QED
      BY <1>2, <1>6, <2>1, <3>1, AbsentIs
  <2>2. CASE how # "absent"
    BY <1>12, <2>2 DEF ImportInv, Holds
  <2> QED
    BY <2>1, <2>2
<1>14. ASSUME errors' = <<>> PROVE Faithful(stack', templates', seen', imports')
  <2>1. errors = <<>> /\ how # "absent"
    BY <1>12, <1>14
  <2>2. Faithful(stack, templates, seen, imports)
    BY <2>1 DEF ImportInv, Holds
  <2>3. \/ templates' = templates
        \/ /\ templates = [g \in ImportFiles |-> templates[g]]
           /\ templates' = [templates EXCEPT ![Imp!Top.file] = Imp!TreeOf(Imp!Top)]
           /\ ~Imp!Top.under /\ ~Imp!Top.nested
    BY <1>2, <1>6, <1>7 DEF Shaped, Imp!Kept
  <2>4. seen \in SUBSET (ImportFiles \ {Main})
    BY <1>2 DEF Shaped
  <2>5. /\ Faithful(below, templates', seen', imports)
        /\ Imp!TreeOf(Imp!Top) = Whole[Ctx(Imp!Top)]
    BY <1>1, <1>2, <1>3, <1>7, <2>2, <2>3, <2>4, FaithfulPop DEF n, below
  <2>6. FrameSound(fr, seen')
    <3>1. Height(below) \in 1..Height(below)
      BY <1>4 DEF StackFit, Proper
    <3> QED
      BY <2>5, <3>1 DEF Faithful, fr, Highest
  <2> DEFINE x == Ctx(Imp!Top)
  <2>7. x \in Imp!Contexts /\ x.file = Imp!Top.file /\ x.globs = Imp!Top.under /\ x.nested = Imp!Top.nested
    BY <1>3, CtxIs DEF Ctx
  <2> HIDE DEF x
  <2>8. next = Imp!Past(fr, <<Whole[x]>>)
    BY <2>1, <2>5, SelectIs DEF x
  <2>9. FrameSound(next, seen')
    <3>1. Imp!Top.file \in seen'
      BY <1>7
    <3> HIDE DEF next
    <3> QED
      BY <1>2, <1>5, <1>6, <2>1, <2>6, <2>7, <2>8, <3>1, SoundPast
  <2> HIDE DEF next
  <2>10. Faithful(Put(below, next), templates', seen', imports)
    BY <1>2, <1>4, <1>8, <2>5, <2>9, PutFaithful DEF fr
  <2> QED
    BY <1>7, <2>10
<1>15. Ending(stack', errors', compiled')
  BY <1>1, <1>7 DEF Ending
<1> QED
  BY <1>11, <1>12, <1>13, <1>14, <1>15 DEF HoldsNext, Holds

\* Return and Stop.
LEMMA EndHolds ==
    ASSUME ImportInv, Imp!Return \/ Imp!Stop
    PROVE  HoldsNext
<1>1. /\ stack' = stack /\ parsed' = parsed /\ templates' = templates /\ seen' = seen
      /\ imports' = imports /\ errors' = errors
  BY DEF Imp!Return, Imp!Stop
<1>2. Ending(stack', errors', compiled')
  <2>1. CASE Imp!Stop
    BY <1>1, <2>1 DEF Imp!Stop, Ending
  <2>2. CASE Imp!Return
    <3>1. Len(stack) = 1 /\ Imp!Top.rest = <<>> /\ compiled' = IF errors = <<>> THEN "ok" ELSE "failed"
      BY <2>2 DEF Imp!Return
    <3>2. Height(stack) = 1 /\ Highest(stack).rest = <<>>
      BY <3>1, AtTop DEF Height
    <3> QED
      BY <1>1, <3>1, <3>2 DEF Ending
  <2> QED
    BY <2>1, <2>2
<1> QED
  BY <1>1, <1>2 DEF ImportInv, Holds, HoldsNext

\* A stack with one frame.
LEMMA OneFrame ==
    ASSUME NEW fr
    PROVE  Proper(<<fr>>) /\ Height(<<fr>>) = 1 /\ <<fr>>[1] = fr
<1>1. <<fr>> = [i \in 1..1 |-> <<fr>>[i]] /\ <<fr>>[1] = fr
  OBVIOUS
<1>2. 1 \in Nat
  OBVIOUS
<1> QED
  BY <1>1, <1>2, ProperIs

\* Nothing is compiled at first.
LEMMA WrittenHolds ==
    ASSUME Imp!ImportsFit, NEW p \in Sources, NEW w \in Flaws, Imp!Written(p, w)
    PROVE  ImportInv
<1> DEFINE rest == p[Main]
           fr == [file |-> Main, rest |-> rest, parts |-> <<>>, globs |-> FALSE,
                  under |-> FALSE, nested |-> FALSE, keep |-> FALSE, before |-> 0]
<1>1. /\ program = p /\ fault = w /\ stack = <<fr>> /\ parsed = {} /\ seen = {}
      /\ imports = <<>> /\ errors = <<>> /\ templates = [f \in ImportFiles |-> Imp!NoTree]
      /\ compiled = "not yet"
  BY DEF Imp!Written
<1>2. FilesGiven /\ Main \in ImportFiles /\ fault[Main] = "none" /\ MaxImportDepth \in Nat
  BY <1>1 DEF FilesGiven, Imp!ImportsFit
<1>3. rest = program[Main] /\ rest \in Seq(Imp!Statements) /\ Length(Main) \in Nat
  BY <1>1, <1>2, StatementsFit
<1> HIDE DEF rest
<1>4. /\ fr.file = Main /\ fr.rest = rest /\ fr.parts = <<>> /\ fr.globs = FALSE
      /\ fr.under = FALSE /\ fr.nested = FALSE
      /\ fr \in [file : ImportFiles, rest : {fr.rest}, parts : {fr.parts}, globs : BOOLEAN,
                 under : BOOLEAN, nested : BOOLEAN, keep : BOOLEAN, before : {fr.before}]
  BY <1>2
<1> HIDE DEF fr
<1>5. Passed(fr) = 0
  <2>1. Passed(fr) = Length(Main) - Length(Main)
    BY <1>3, <1>4 DEF Passed, Height, Length
  <2> QED
    BY <1>3, <2>1
<1>6. FrameFit(fr)
  <2>1. Passed(fr) \in 0..Length(fr.file) /\ fr.rest = Behind(program[fr.file], Passed(fr))
    BY <1>3, <1>4, <1>5, NoneBehind
  <2> QED
    BY <1>4, <2>1 DEF FrameFit
<1>7. Proper(stack) /\ Height(stack) = 1 /\ stack[1] = fr
  BY <1>1, OneFrame
<1>8. StackFit(stack)
  <2>1. 1 \in 1..(MaxImportDepth + 1) /\ 1..(1 - 1) = {} /\ \A i \in 1..1 : i = 1
    BY <1>2
  <2> QED
    BY <1>4, <1>6, <1>7, <2>1 DEF StackFit
<1>9. OnTop(stack) = {}
  <2>1. 2..1 = {}
    OBVIOUS
  <2> QED
    BY <1>7, <2>1 DEF OnTop
<1>10. /\ imports \in Seq(ImportFiles) /\ errors \in Seq(Messages)
       /\ Imp!Range(imports) = {} /\ Imp!IsInjective(imports)
  <2>1. imports \in Seq(ImportFiles) /\ errors \in Seq(Messages)
    BY <1>1, EmptySeq
  <2>2. DOMAIN imports = 1..0
    BY <1>1, <2>1, EmptySeq, LenProperties
  <2>3. \A i \in DOMAIN imports : FALSE
    BY <2>2
  <2> QED
    BY <2>1, <2>3 DEF Imp!Range, Imp!IsInjective
<1>11. Shaped(stack, parsed, templates, seen, imports)
  BY <1>1, <1>2, <1>8, <1>10 DEF Shaped
<1>12. Finished(seen, [f \in {} |-> 0])
  BY <1>1 DEF Finished, Ranked
<1>13. FrameSound(fr, seen)
  BY <1>2, <1>4, <1>5, <1>6, SoundNew
<1>14. \A i \in 1..Height(stack) : FrameSound(stack[i], seen)
  <2>1. \A i \in 1..1 : i = 1
    OBVIOUS
  <2> QED
    BY <1>7, <1>13, <2>1
<1>15. Faithful(stack, templates, seen, imports)
  <2>1. \A f \in ImportFiles : templates[f] = Imp!NoTree
    BY <1>1
  <2>2. \E rank : Finished(seen, rank)
    BY <1>12
  <2> QED
    BY <1>1, <1>9, <1>10, <1>14, <2>1, <2>2 DEF Faithful
<1>16. Ending(stack, errors, compiled)
  BY <1>1 DEF Ending
<1> QED
  BY <1>1, <1>10, <1>11, <1>15, <1>16 DEF ImportInv, Holds

\* Every step keeps the invariant.
LEMMA ImportStep ==
    ASSUME ImportInv, Imp!Next
    PROVE  ImportInv'
<1>1. HoldsNext
  BY GlobHolds, AscendHolds, EndHolds, RejectPushHolds, UseTemplateHolds, RejectLoadHolds,
     DescendHolds DEF Imp!Next
<1>2. UNCHANGED Imp!sourceVars
  BY DEF Imp!Next, Imp!Glob, Imp!Ascend, Imp!Return, Imp!Stop, Imp!RejectPush, Imp!Rejected, Imp!UseTemplate, Imp!RejectLoad,
         Imp!Descend
<1>3. /\ Shaped(stack, parsed, templates, seen, imports)'
      /\ Faithful(stack, templates, seen, imports)' <=> Faithful(stack', templates', seen', imports')
      /\ Reason' <=> Reason
  BY <1>1, <1>2, SourcesStay DEF HoldsNext, Holds
<1> QED
  BY <1>1, <1>3 DEF HoldsNext, ImportInv, Holds, Ending

\* So does a step of something else.
LEMMA ImportStutter ==
    ASSUME ImportInv, UNCHANGED Imp!importVars
    PROVE  ImportInv'
<1>1. /\ UNCHANGED Imp!sourceVars /\ stack' = stack /\ parsed' = parsed
      /\ templates' = templates /\ seen' = seen /\ imports' = imports /\ errors' = errors
      /\ compiled' = compiled
  BY DEF Imp!importVars, Imp!sourceVars
<1>2. /\ Shaped(stack, parsed, templates, seen, imports)'
        <=> Shaped(stack', parsed', templates', seen', imports')
      /\ Faithful(stack, templates, seen, imports)'
        <=> Faithful(stack', templates', seen', imports')
      /\ Reason' <=> Reason
  BY <1>1, SourcesStay
<1> QED
  BY <1>1, <1>2 DEF ImportInv, Holds, Ending

\* What a compilation that succeeds has found.
LEMMA HarmlessHolds ==
    ASSUME ImportInv
    PROVE  Imp!CachingIsHarmless
<1>1. compiled = "failed" => Imp!Cyclic \/ Imp!Broken \/ Imp!TooDeep
  BY DEF ImportInv, Holds, Ending, Reason
<1>2. ASSUME compiled = "ok"
      PROVE  /\ ~Imp!Cyclic /\ ~Imp!Broken /\ Imp!TreeOf(Imp!Top) = Imp!Anew[Imp!Cardinality(ImportFiles)][Imp!InMain]
             /\ Imp!IsInjective(imports) /\ Imp!Range(imports) \subseteq Imp!Targets(Main)
             /\ \A f \in Imp!Targets(Main) \ Imp!Range(imports) :
                   \E g \in Imp!Range(imports) : f \in Imp!Reached(g)
  <2>1. errors = <<>> /\ Height(stack) = 1 /\ Imp!Top.rest = <<>> /\ Imp!Top = stack[1] /\ FrameFit(Imp!Top)
    BY <1>2, AtTop DEF ImportInv, Holds, Ending
  <2>2. /\ FilesGiven /\ StackFit(stack) /\ seen \in SUBSET (ImportFiles \ {Main})
        /\ Faithful(stack, templates, seen, imports)
    BY <2>1 DEF ImportInv, Holds, Shaped
  <2>3. Imp!Top.file = Main /\ ~Imp!Top.under /\ ~Imp!Top.nested /\ FrameSound(Imp!Top, seen)
    BY <2>1, <2>2, AtTop DEF StackFit, Faithful
  <2>4. PICK rank : Finished(seen, rank)
    BY <2>2 DEF Faithful
  <2>5. Imp!Targets(Main) \subseteq seen /\ Sane(Main) /\ Imp!TreeOf(Imp!Top) = Whole[Ctx(Imp!Top)]
    BY <2>1, <2>2, <2>3, <2>4, SoundDone
  <2>6. ~Imp!Cyclic /\ ~Imp!Broken
    BY <2>2, <2>4, <2>5, NoCycle
  <2>7. Ctx(Imp!Top) = Imp!InMain
    <3>1. Imp!Top.under = FALSE /\ Imp!Top.nested = FALSE
      BY <2>1, <2>3 DEF FrameFit
    <3> QED
      BY <2>3, <3>1 DEF Ctx, Imp!InMain
  <2>8. Imp!TreeOf(Imp!Top) = Imp!Anew[Imp!Cardinality(ImportFiles)][Imp!InMain]
    BY <2>5, <2>7, ImportOperators DEF Whole, Depths
  <2>9. Imp!IsInjective(imports) /\ Imp!Range(imports) \subseteq Imp!Targets(Main)
    BY <2>2 DEF Faithful
  <2>10. ASSUME NEW f \in Imp!Targets(Main) \ Imp!Range(imports)
         PROVE  \E g \in Imp!Range(imports) : f \in Imp!Reached(g)
    BY <2>2, <2>5 DEF Faithful, Covered
  <2> QED
    BY <2>6, <2>8, <2>9, <2>10
<1> QED
  BY <1>1, <1>2 DEF Imp!CachingIsHarmless, Imp!AsIfAnew, Imp!ListedOnce

\* And the type invariant.
LEMMA ImportTypes ==
    ASSUME ImportInv
    PROVE  Imp!TypeOK
<1>1. /\ FilesGiven /\ StackFit(stack) /\ parsed \subseteq ImportFiles /\ seen \subseteq ImportFiles
      /\ imports \in Seq(ImportFiles) /\ templates = [f \in ImportFiles |-> templates[f]]
      /\ compiled \in {"not yet", "ok", "failed", "stopped"}
  BY DEF ImportInv, Holds, Shaped, Ending
<1>2. DOMAIN stack = 1..Height(stack) /\ \A i \in 1..Height(stack) : stack[i].file \in ImportFiles
  BY <1>1 DEF StackFit, Proper, FrameFit
<1>3. Imp!Range(imports) \subseteq ImportFiles
  BY <1>1, RangeOfSeq, ImportOperators
<1>4. DOMAIN templates = ImportFiles
  BY <1>1
<1> QED
  BY <1>1, <1>2, <1>3, <1>4 DEF Imp!TypeOK, FilesGiven

=============================================================================
