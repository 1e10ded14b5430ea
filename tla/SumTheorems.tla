----------------------------- MODULE SumTheorems -----------------------------
(***************************************************************************)
(* Facts about the folds of the community modules, and about sums over     *)
(* finite sets, SumFunctionOnSet(f, S): what the counters of caches,       *)
(* budgets and limits are compared with.  They are proved by looking at a  *)
(* smallest set for which they would be false.                             *)
(***************************************************************************)
EXTENDS Integers, Functions, FiniteSetTheorems, WellFoundedInduction, TLAPS

\* A family of finite sets has a member that contains no other one.
LEMMA MinimalSet ==
    ASSUME NEW F, F # {}, \A s \in F : IsFiniteSet(s)
    PROVE  \E s \in F : \A t \in F : t \subseteq s => t = s
<1> DEFINE U == UNION F
           R == StrictSubsetOrdering(U)
<1>1. F \subseteq FiniteSubsetsOf(U)
  BY DEF FiniteSubsetsOf
<1>2. IsWellFoundedOn(R, FiniteSubsetsOf(U))
  BY FS_StrictSubsetOrderingWellFounded
<1>3. PICK s \in F : \A t \in F : ~(<<t, s>> \in R)
  <2> HIDE DEF R, U
  <2> QED
    BY <1>1, <1>2, WFMin
<1>4. ASSUME NEW t \in F, t \subseteq s, t # s PROVE FALSE
  <2>1. <<t, s>> \in (SUBSET U) \X (SUBSET U)
    OBVIOUS
  <2>2. <<t, s>> \in R
    BY <2>1, <1>4 DEF StrictSubsetOrdering
  <2> QED
    BY <2>2, <1>3
<1> QED
  BY <1>3, <1>4

\* A set of natural numbers has a least one.
LEMMA LeastNatural ==
    ASSUME NEW S, S \subseteq Nat, S # {}
    PROVE  \E n \in S : \A m \in S : n <= m
<1> DEFINE F == {0..n : n \in S}
<1>1. F # {} /\ \A s \in F : IsFiniteSet(s)
  <2>1. \A n \in S : n \in Int /\ 0 \in Int
    OBVIOUS
  <2>2. \A n \in S : IsFiniteSet(0..n)
    BY <2>1, FS_Interval
  <2> QED
    BY <2>2
<1>2. PICK s \in F : \A t \in F : t \subseteq s => t = s
  <2> HIDE DEF F
  <2> QED
    BY <1>1, MinimalSet
<1>3. PICK n \in S : s = 0..n
  BY <1>2
<1>4. ASSUME NEW m \in S, m < n PROVE FALSE
  <2>1. 0..m \in F /\ 0..m \subseteq 0..n /\ n \in 0..n /\ n \notin 0..m
    BY <1>4
  <2> QED
    BY <1>2, <1>3, <2>1
<1> QED
  BY <1>4

\* A finite set of integers has a least and a greatest one.
LEMMA FiniteExtremes ==
    ASSUME NEW S, S \subseteq Int, S # {}, IsFiniteSet(S)
    PROVE  /\ \E n \in S : \A m \in S : n <= m
           /\ \E n \in S : \A m \in S : n >= m
<1>1. \E n \in S : \A m \in S : n <= m
  <2> DEFINE Upto(n) == {m \in S : m <= n}
             F == {Upto(n) : n \in S}
  <2>1. F # {} /\ \A s \in F : IsFiniteSet(s)
    <3>1. \A n \in S : IsFiniteSet(Upto(n))
      BY FS_Subset
    <3> QED
      BY <3>1
  <2>2. PICK s \in F : \A t \in F : t \subseteq s => t = s
    <3> HIDE DEF F
    <3> QED
      BY <2>1, MinimalSet
  <2>3. PICK n \in S : s = Upto(n)
    BY <2>2
  <2>4. ASSUME NEW m \in S, m < n PROVE FALSE
    <3>1. Upto(m) \in F
      OBVIOUS
    <3>2. m \in Int /\ n \in Int /\ \A k \in S : k \in Int
      OBVIOUS
    <3> HIDE DEF F
    <3>3. /\ \A k \in S : k <= m => k <= n
          /\ n <= n /\ ~(n <= m)
      BY <2>4, <3>2
    <3>4. Upto(m) \subseteq Upto(n) /\ n \in Upto(n) /\ n \notin Upto(m)
      BY <3>3
    <3> HIDE DEF Upto
    <3> QED
      BY <2>2, <2>3, <3>1, <3>4
  <2> QED
    BY <2>4
<1>2. \E n \in S : \A m \in S : n >= m
  <2> DEFINE Upon(n) == {m \in S : m >= n}
             F == {Upon(n) : n \in S}
  <2>1. F # {} /\ \A s \in F : IsFiniteSet(s)
    <3>1. \A n \in S : IsFiniteSet(Upon(n))
      BY FS_Subset
    <3> QED
      BY <3>1
  <2>2. PICK s \in F : \A t \in F : t \subseteq s => t = s
    <3> HIDE DEF F
    <3> QED
      BY <2>1, MinimalSet
  <2>3. PICK n \in S : s = Upon(n)
    BY <2>2
  <2>4. ASSUME NEW m \in S, m > n PROVE FALSE
    <3>1. Upon(m) \in F
      OBVIOUS
    <3>2. m \in Int /\ n \in Int /\ \A k \in S : k \in Int
      OBVIOUS
    <3> HIDE DEF F
    <3>3. /\ \A k \in S : k >= m => k >= n
          /\ n >= n /\ ~(n >= m)
      BY <2>4, <3>2
    <3>4. Upon(m) \subseteq Upon(n) /\ n \in Upon(n) /\ n \notin Upon(m)
      BY <3>3
    <3> HIDE DEF Upon
    <3> QED
      BY <2>2, <2>3, <3>1, <3>4
  <2> QED
    BY <2>4
<1> QED
  BY <1>1, <1>2

\* A set of natural numbers that has 0 and with every number the next has all.
LEMMA AllNaturals ==
    ASSUME NEW S, 0 \in S, \A n \in Nat : n \in S => n + 1 \in S
    PROVE  Nat \subseteq S
<1> SUFFICES ASSUME NEW m \in Nat, m \notin S PROVE FALSE
  OBVIOUS
<1> DEFINE F == {0..n : n \in Nat \ S}
<1>1. \A s \in F : IsFiniteSet(s)
  BY FS_Interval
<1>2. PICK s \in F : \A t \in F : t \subseteq s => t = s
  <2>1. F # {}
    OBVIOUS
  <2> HIDE DEF F
  <2> QED
    BY <1>1, <2>1, MinimalSet
<1>3. PICK n \in Nat \ S : s = 0..n
  OBVIOUS
<1>4. n # 0 /\ n - 1 \in Nat /\ (n - 1) + 1 = n
  OBVIOUS
<1>5. 0..(n - 1) \in F
  BY <1>4
<1>6. 0..(n - 1) \subseteq 0..n /\ n \notin 0..(n - 1) /\ n \in 0..n
  BY <1>4
<1> QED
  BY <1>2, <1>3, <1>5, <1>6

-----------------------------------------------------------------------------
(* Folds.  A fold picks one element of a set after the other; what it yields *)
(* exists for every finite set.                                              *)

Picks(pick, S) == \A s \in SUBSET S : s # {} => pick[s] \in s
Folded(g, S, base, h, pick) ==
    \A s \in SUBSET S :
        g[s] = IF s = {} THEN base ELSE h[<<pick[s], g[s \ {pick[s]}]>>]

LEMMA FoldsExist ==
    ASSUME NEW S, IsFiniteSet(S), NEW D, NEW base \in D, NEW h \in [S \X D -> D],
           NEW pick, Picks(pick, S)
    PROVE  \E g \in [SUBSET S -> D] : Folded(g, S, base, h, pick)
<1> DEFINE After(g, s) == IF s = {} THEN base ELSE h[<<pick[s], g[s \ {pick[s]}]>>]
           UpTo(n) == \E g \in [SUBSET S -> D] : \A s \in SUBSET S :
                          Cardinality(s) <= n => g[s] = After(g, s)
           N == {n \in Nat : UpTo(n)}
<1>1. \A s \in SUBSET S : IsFiniteSet(s) /\ Cardinality(s) \in Nat
  BY FS_Subset, FS_CardinalityType
<1>2. ASSUME NEW s \in SUBSET S, s # {}
      PROVE  /\ pick[s] \in S /\ s \ {pick[s]} \in SUBSET S
             /\ Cardinality(s \ {pick[s]}) = Cardinality(s) - 1
             /\ Cardinality(s) > 0
  <2>1. pick[s] \in s
    BY <1>2 DEF Picks
  <2>2. Cardinality(s \ {pick[s]}) = Cardinality(s) - 1
    BY <1>1, <2>1, FS_RemoveElement
  <2>3. Cardinality(s \ {pick[s]}) \in Nat /\ Cardinality(s) \in Nat
    BY <1>1
  <2> QED
    BY <2>1, <2>2, <2>3
<1>3. ASSUME NEW g \in [SUBSET S -> D], NEW s \in SUBSET S PROVE After(g, s) \in D
  <2>1. CASE s = {}
    BY <2>1
  <2>2. CASE s # {}
    <3>1. <<pick[s], g[s \ {pick[s]}]>> \in S \X D
      BY <1>2, <2>2
    <3> QED
      BY <2>2, <3>1
  <2> QED
    BY <2>1, <2>2
<1>4. 0 \in N
  <2> DEFINE g == [s \in SUBSET S |-> base]
  <2>1. g \in [SUBSET S -> D]
    OBVIOUS
  <2>2. ASSUME NEW s \in SUBSET S, Cardinality(s) <= 0 PROVE g[s] = After(g, s)
    <3>1. ASSUME s # {} PROVE FALSE
      <4>1. Cardinality(s) > 0 /\ Cardinality(s) \in Nat
        BY <1>1, <1>2, <3>1
      <4> QED
        BY <2>2, <4>1
    <3> QED
      BY <3>1
  <2> HIDE DEF g
  <2> QED
    BY <2>1, <2>2
<1>5. ASSUME NEW n \in Nat, n \in N PROVE n + 1 \in N
  <2>1. PICK g \in [SUBSET S -> D] :
          \A s \in SUBSET S : Cardinality(s) <= n => g[s] = After(g, s)
    BY <1>5
  <2> DEFINE f == [s \in SUBSET S |-> After(g, s)]
  <2>2. f \in [SUBSET S -> D]
    <3> HIDE DEF After
    <3> QED
      BY <1>3
  <2>3. \A s \in SUBSET S : Cardinality(s) <= n => f[s] = g[s]
    BY <2>1
  <2>4. ASSUME NEW s \in SUBSET S, Cardinality(s) <= n + 1 PROVE f[s] = After(f, s)
    <3>1. CASE s = {}
      BY <3>1
    <3>2. CASE s # {}
      <4>1. Cardinality(s \ {pick[s]}) <= n /\ s \ {pick[s]} \in SUBSET S
        BY <1>1, <1>2, <2>4, <3>2
      <4>2. f[s \ {pick[s]}] = g[s \ {pick[s]}]
        BY <2>3, <4>1
      <4>3. f[s] = After(g, s)
        OBVIOUS
      <4> HIDE DEF f
      <4> QED
        BY <3>2, <4>2, <4>3
    <3> QED
      BY <3>1, <3>2
  <2> HIDE DEF f, After
  <2>5. UpTo(n + 1)
    BY <2>2, <2>4
  <2> HIDE DEF UpTo
  <2> QED
    BY <2>5
<1>6. Cardinality(S) \in N
  <2> HIDE DEF N
  <2> QED
    BY <1>1, <1>4, <1>5, AllNaturals
<1>7. PICK g \in [SUBSET S -> D] :
        \A s \in SUBSET S : Cardinality(s) <= Cardinality(S) => g[s] = After(g, s)
  BY <1>6
<1>8. \A s \in SUBSET S : g[s] = After(g, s)
  BY <1>7, FS_Subset
<1> QED
  BY <1>7, <1>8 DEF Folded

\* What a fold comes to is in J, if what it starts with is and every step stays there.
Keeps(h, S, pick, J) ==
    \A s \in SUBSET S : s # {} =>
        \A v \in J[s \ {pick[s]}] : h[<<pick[s], v>>] \in J[s]

LEMMA FoldsStay ==
    ASSUME NEW S, IsFiniteSet(S), NEW base, NEW h, NEW pick, Picks(pick, S),
           NEW g, Folded(g, S, base, h, pick), NEW J, base \in J[{}], Keeps(h, S, pick, J)
    PROVE  \A s \in SUBSET S : g[s] \in J[s]
<1> DEFINE N == {n \in Nat : \A s \in SUBSET S : Cardinality(s) <= n => g[s] \in J[s]}
<1>1. \A s \in SUBSET S : IsFiniteSet(s) /\ Cardinality(s) \in Nat
  BY FS_Subset, FS_CardinalityType
<1>2. ASSUME NEW s \in SUBSET S, s # {}
      PROVE  /\ pick[s] \in s /\ s \ {pick[s]} \in SUBSET S
             /\ Cardinality(s \ {pick[s]}) = Cardinality(s) - 1
  <2>1. pick[s] \in s
    BY <1>2 DEF Picks
  <2> QED
    BY <1>1, <2>1, FS_RemoveElement
<1>3. 0 \in N
  <2> SUFFICES ASSUME NEW s \in SUBSET S, Cardinality(s) <= 0 PROVE g[s] \in J[s]
    OBVIOUS
  <2>1. s = {}
    BY <1>1, FS_EmptySet
  <2> QED
    BY <2>1 DEF Folded
<1>4. ASSUME NEW n \in Nat, n \in N PROVE n + 1 \in N
  <2> SUFFICES ASSUME NEW s \in SUBSET S, Cardinality(s) <= n + 1 PROVE g[s] \in J[s]
    OBVIOUS
  <2>1. CASE s = {}
    BY <2>1 DEF Folded
  <2>2. CASE s # {}
    <3>1. Cardinality(s \ {pick[s]}) <= n /\ s \ {pick[s]} \in SUBSET S
      BY <1>1, <1>2, <2>2
    <3>2. g[s \ {pick[s]}] \in J[s \ {pick[s]}]
      BY <1>4, <3>1
    <3>3. g[s] = h[<<pick[s], g[s \ {pick[s]}]>>]
      BY <2>2 DEF Folded
    <3> QED
      BY <2>2, <3>2, <3>3 DEF Keeps
  <2> QED
    BY <2>1, <2>2
<1>5. Nat \subseteq N
  <2> HIDE DEF N
  <2> QED
    BY <1>3, <1>4, AllNaturals
<1> QED
  BY <1>1, <1>5

\* The folds of sequences pick the last index first.
Greatest(s) == CHOOSE x \in s : \A y \in s : x >= y

LEMMA UpToFinite ==
    ASSUME NEW n \in Nat, NEW s \in SUBSET (1..n)
    PROVE  IsFiniteSet(s) /\ s \subseteq Int /\ Cardinality(s) \in Nat
<1>1. IsFiniteSet(1..n)
  BY FS_Interval
<1>2. IsFiniteSet(s)
  BY <1>1, FS_Subset
<1> QED
  BY <1>2, FS_CardinalityType

LEMMA GreatestPicks ==
    ASSUME NEW n \in Nat
    PROVE  /\ \A s \in SUBSET (1..n) : s # {} => Greatest(s) \in s
           /\ n > 0 => Greatest(1..n) = n /\ (1..n) \ {n} = 1..(n - 1)
<1>1. ASSUME NEW s \in SUBSET (1..n), s # {}
      PROVE  Greatest(s) \in s /\ \A y \in s : Greatest(s) >= y
  <2>1. IsFiniteSet(s) /\ s \subseteq Int
    BY UpToFinite
  <2>2. \E x \in s : \A y \in s : x >= y
    BY <1>1, <2>1, FiniteExtremes
  <2> QED
    BY <2>2 DEF Greatest
<1>2. ASSUME n > 0 PROVE Greatest(1..n) = n /\ (1..n) \ {n} = 1..(n - 1)
  <2>1. n \in 1..n /\ 1..n \in SUBSET (1..n) /\ 1..n # {}
    BY <1>2
  <2>2. Greatest(1..n) \in 1..n /\ Greatest(1..n) >= n
    BY <1>1, <2>1
  <2> QED
    BY <2>2
<1> QED
  BY <1>1, <1>2

-----------------------------------------------------------------------------
(* The function that SumFunctionOnSet picks.                               *)

First(s) == CHOOSE x \in s : TRUE

Sums(f, S, g) ==
    g = [s \in SUBSET S |-> IF s = {} THEN 0 ELSE f[First(s)] + g[s \ {First(s)}]]

LEMMA SumUnfold ==
    ASSUME NEW f, NEW S
    PROVE  SumFunctionOnSet(f, S) = (CHOOSE g : Sums(f, S, g))[S]
  BY DEF SumFunctionOnSet, FoldFunctionOnSet, MapThenFoldSet, Sums, First

\* It exists: it can be built for the sets with at most n elements, for every n.
LEMMA SumsExist ==
    ASSUME NEW f, NEW S, IsFiniteSet(S)
    PROVE  \E g : Sums(f, S, g)
<1> DEFINE Next(g, s) == IF s = {} THEN 0 ELSE f[First(s)] + g[s \ {First(s)}]
           UpTo(n) == \E g : g = [s \in SUBSET S |-> g[s]] /\
                         \A s \in SUBSET S : Cardinality(s) <= n => g[s] = Next(g, s)
           N == {n \in Nat : UpTo(n)}
<1>1. \A s \in SUBSET S : IsFiniteSet(s) /\ Cardinality(s) \in Nat
  BY FS_Subset, FS_CardinalityType
<1>2. \A s \in SUBSET S : s # {} =>
        /\ First(s) \in s /\ s \ {First(s)} \in SUBSET S
        /\ Cardinality(s \ {First(s)}) = Cardinality(s) - 1
        /\ Cardinality(s) > 0
  <2> SUFFICES ASSUME NEW s \in SUBSET S, s # {}
               PROVE  /\ First(s) \in s /\ s \ {First(s)} \in SUBSET S
                      /\ Cardinality(s \ {First(s)}) = Cardinality(s) - 1
                      /\ Cardinality(s) > 0
    OBVIOUS
  <2>1. First(s) \in s
    BY DEF First
  <2>2. Cardinality(s \ {First(s)}) = Cardinality(s) - 1
    BY <1>1, <2>1, FS_RemoveElement
  <2>3. Cardinality(s \ {First(s)}) \in Nat
    BY <1>1
  <2> QED
    BY <1>1, <2>1, <2>2, <2>3
<1>3. 0 \in N
  <2> DEFINE g == [s \in SUBSET S |-> 0]
  <2>1. g = [s \in SUBSET S |-> g[s]]
    OBVIOUS
  <2>2. ASSUME NEW s \in SUBSET S, Cardinality(s) <= 0 PROVE g[s] = Next(g, s)
    <3>1. Cardinality(s) \in Nat
      BY <1>1
    <3>2. s # {} => Cardinality(s) > 0
      BY <1>2
    <3>3. s = {}
      BY <3>1, <3>2, <2>2
    <3> QED
      BY <3>3
  <2> HIDE DEF g
  <2> QED
    BY <2>1, <2>2
<1>4. ASSUME NEW n \in Nat, n \in N PROVE n + 1 \in N
  <2>1. PICK g : \A s \in SUBSET S : Cardinality(s) <= n => g[s] = Next(g, s)
    BY <1>4
  <2> DEFINE h == [s \in SUBSET S |-> Next(g, s)]
  <2>2. \A s \in SUBSET S : Cardinality(s) <= n => h[s] = g[s]
    BY <2>1
  <2>3. ASSUME NEW s \in SUBSET S, Cardinality(s) <= n + 1 PROVE h[s] = Next(h, s)
    <3>1. CASE s = {}
      BY <3>1
    <3>2. CASE s # {}
      <4>1. Cardinality(s \ {First(s)}) <= n /\ s \ {First(s)} \in SUBSET S
        BY <1>1, <1>2, <2>3, <3>2
      <4>2. h[s \ {First(s)}] = g[s \ {First(s)}]
        BY <2>2, <4>1
      <4>3. h[s] = Next(g, s)
        OBVIOUS
      <4> HIDE DEF h
      <4> QED
        BY <3>2, <4>2, <4>3
    <3> QED
      BY <3>1, <3>2
  <2>4. h = [s \in SUBSET S |-> h[s]]
    OBVIOUS
  <2> HIDE DEF h, Next
  <2>5. UpTo(n + 1)
    BY <2>3, <2>4
  <2> HIDE DEF UpTo
  <2> QED
    BY <2>5
<1>5. Cardinality(S) \in N
  <2> HIDE DEF N
  <2> QED
    BY <1>1, <1>3, <1>4, AllNaturals
<1>6. PICK g : /\ g = [s \in SUBSET S |-> g[s]]
               /\ \A s \in SUBSET S : Cardinality(s) <= Cardinality(S) => g[s] = Next(g, s)
  BY <1>5
<1>7. \A s \in SUBSET S : g[s] = Next(g, s)
  BY <1>6, FS_Subset
<1> QED
  BY <1>6, <1>7 DEF Sums

\* On a set that both know, two such functions agree.
LEMMA SumsAgree ==
    ASSUME NEW f, NEW e, NEW S, NEW T, NEW g, NEW h, Sums(f, S, g), Sums(e, T, h),
           NEW U \in SUBSET (S \cap T), IsFiniteSet(U),
           \A x \in U : f[x] = e[x]
    PROVE  g[U] = h[U]
<1> DEFINE F == {s \in SUBSET U : g[s] # h[s]}
<1> SUFFICES ASSUME F # {} PROVE FALSE
  OBVIOUS
<1>1. PICK s \in F : \A t \in F : t \subseteq s => t = s
  <2>1. \A s \in F : IsFiniteSet(s)
    BY FS_Subset
  <2> HIDE DEF F
  <2> QED
    BY <2>1, MinimalSet
<1>2. g[s] = IF s = {} THEN 0 ELSE f[First(s)] + g[s \ {First(s)}]
  BY DEF Sums
<1>3. h[s] = IF s = {} THEN 0 ELSE e[First(s)] + h[s \ {First(s)}]
  BY DEF Sums
<1>4. s # {}
  BY <1>2, <1>3
<1>5. First(s) \in s
  BY <1>4 DEF First
<1>6. g[s \ {First(s)}] = h[s \ {First(s)}]
  BY <1>1, <1>5
<1> QED
  BY <1>2, <1>3, <1>4, <1>5, <1>6

LEMMA SumIsSums ==
    ASSUME NEW f, NEW S, IsFiniteSet(S)
    PROVE  \E g : Sums(f, S, g) /\ \A T \in SUBSET S : SumFunctionOnSet(f, T) = g[T]
<1> DEFINE G(T) == CHOOSE g : Sums(f, T, g)
<1>1. \A T \in SUBSET S : IsFiniteSet(T) /\ Sums(f, T, G(T))
  BY SumsExist, FS_Subset
<1>2. \A T \in SUBSET S : SumFunctionOnSet(f, T) = G(T)[T]
  BY SumUnfold
<1> HIDE DEF G
<1>3. \A T \in SUBSET S : G(T)[T] = G(S)[T]
  BY <1>1, SumsAgree
<1> QED
  BY <1>1, <1>2, <1>3

-----------------------------------------------------------------------------
(* What sums are.                                                          *)

LEMMA SumEmpty == ASSUME NEW f PROVE SumFunctionOnSet(f, {}) = 0
<1>1. IsFiniteSet({})
  BY FS_EmptySet
<1> QED
  BY <1>1, SumIsSums DEF Sums

LEMMA SumFirst ==
    ASSUME NEW f, NEW S, IsFiniteSet(S), S # {}
    PROVE  /\ First(S) \in S
           /\ SumFunctionOnSet(f, S) = f[First(S)] + SumFunctionOnSet(f, S \ {First(S)})
<1>1. PICK g : Sums(f, S, g) /\ \A T \in SUBSET S : SumFunctionOnSet(f, T) = g[T]
  BY SumIsSums
<1>2. g[S] = f[First(S)] + g[S \ {First(S)}]
  BY <1>1 DEF Sums
<1> QED
  BY <1>1, <1>2 DEF First

\* A sum depends on nothing but the summands.
LEMMA SumSame ==
    ASSUME NEW f, NEW e, NEW S, IsFiniteSet(S), \A x \in S : f[x] = e[x]
    PROVE  SumFunctionOnSet(f, S) = SumFunctionOnSet(e, S)
<1>1. PICK g : Sums(f, S, g) /\ \A T \in SUBSET S : SumFunctionOnSet(f, T) = g[T]
  BY SumIsSums
<1>2. PICK h : Sums(e, S, h) /\ \A T \in SUBSET S : SumFunctionOnSet(e, T) = h[T]
  BY SumIsSums
<1>3. S \in SUBSET (S \cap S)
  OBVIOUS
<1>4. g[S] = h[S]
  BY <1>1, <1>2, <1>3, SumsAgree
<1> QED
  BY <1>1, <1>2, <1>4

LEMMA SumZero ==
    ASSUME NEW f, NEW S, IsFiniteSet(S), \A x \in S : f[x] = 0
    PROVE  SumFunctionOnSet(f, S) = 0
<1> DEFINE F == {s \in SUBSET S : SumFunctionOnSet(f, s) # 0}
<1>1. SUFFICES ASSUME F # {} PROVE FALSE
  OBVIOUS
<1>2. \A s \in F : IsFiniteSet(s)
  BY FS_Subset
<1>3. PICK s \in F : \A t \in F : t \subseteq s => t = s
  <2> HIDE DEF F
  <2> QED
    BY <1>1, <1>2, MinimalSet
<1>4. s # {}
  BY SumEmpty
<1>5. /\ First(s) \in s
      /\ SumFunctionOnSet(f, s) = f[First(s)] + SumFunctionOnSet(f, s \ {First(s)})
  BY <1>2, <1>4, SumFirst
<1>6. s \ {First(s)} \notin F
  BY <1>3, <1>5
<1> QED
  BY <1>5, <1>6

LEMMA SumInt ==
    ASSUME NEW f, NEW S, IsFiniteSet(S), \A x \in S : f[x] \in Int
    PROVE  SumFunctionOnSet(f, S) \in Int
<1> DEFINE F == {s \in SUBSET S : SumFunctionOnSet(f, s) \notin Int}
<1> SUFFICES ASSUME F # {} PROVE FALSE
  OBVIOUS
<1>1. \A s \in SUBSET S : IsFiniteSet(s)
  BY FS_Subset
<1>2. PICK s \in F : \A t \in F : t \subseteq s => t = s
  <2>1. \A s \in F : IsFiniteSet(s)
    BY <1>1
  <2> HIDE DEF F
  <2> QED
    BY <2>1, MinimalSet
<1>3. s # {}
  <2>1. SumFunctionOnSet(f, {}) = 0
    BY SumEmpty
  <2> SUFFICES ASSUME s = {} PROVE FALSE
    OBVIOUS
  <2> QED
    BY <2>1
<1>4. First(s) \in s /\ SumFunctionOnSet(f, s) = f[First(s)] + SumFunctionOnSet(f, s \ {First(s)})
  BY <1>1, <1>3, SumFirst
<1>5. SumFunctionOnSet(f, s \ {First(s)}) \in Int
  BY <1>2, <1>4
<1> QED
  BY <1>4, <1>5

LEMMA SumNat ==
    ASSUME NEW f, NEW S, IsFiniteSet(S), \A x \in S : f[x] \in Nat
    PROVE  SumFunctionOnSet(f, S) \in Nat
<1> DEFINE F == {s \in SUBSET S : SumFunctionOnSet(f, s) \notin Nat}
<1> SUFFICES ASSUME F # {} PROVE FALSE
  OBVIOUS
<1>1. \A s \in SUBSET S : IsFiniteSet(s)
  BY FS_Subset
<1>2. PICK s \in F : \A t \in F : t \subseteq s => t = s
  <2>1. \A s \in F : IsFiniteSet(s)
    BY <1>1
  <2> HIDE DEF F
  <2> QED
    BY <2>1, MinimalSet
<1>3. s # {}
  <2>1. SumFunctionOnSet(f, {}) = 0
    BY SumEmpty
  <2> SUFFICES ASSUME s = {} PROVE FALSE
    OBVIOUS
  <2> QED
    BY <2>1
<1>4. First(s) \in s /\ SumFunctionOnSet(f, s) = f[First(s)] + SumFunctionOnSet(f, s \ {First(s)})
  BY <1>1, <1>3, SumFirst
<1>5. SumFunctionOnSet(f, s \ {First(s)}) \in Nat
  BY <1>2, <1>4
<1> QED
  BY <1>4, <1>5

\* The order does not matter: any summand may be taken out.
LEMMA SumRemove ==
    ASSUME NEW f, NEW S, IsFiniteSet(S), \A x \in S : f[x] \in Int, NEW y \in S
    PROVE  SumFunctionOnSet(f, S) = f[y] + SumFunctionOnSet(f, S \ {y})
<1> DEFINE Bad(s) == \E x \in s : SumFunctionOnSet(f, s) # f[x] + SumFunctionOnSet(f, s \ {x})
           F == {s \in SUBSET S : Bad(s)}
<1> SUFFICES ASSUME F # {} PROVE FALSE
  OBVIOUS
<1>1. \A s \in SUBSET S : IsFiniteSet(s)
  BY FS_Subset
<1>2. PICK s \in F : \A t \in F : t \subseteq s => t = s
  <2>1. \A s \in F : IsFiniteSet(s)
    BY <1>1
  <2> HIDE DEF F
  <2> QED
    BY <2>1, MinimalSet
<1>3. PICK x \in s : SumFunctionOnSet(f, s) # f[x] + SumFunctionOnSet(f, s \ {x})
  OBVIOUS
<1> DEFINE c == First(s)
<1>4. c \in s /\ SumFunctionOnSet(f, s) = f[c] + SumFunctionOnSet(f, s \ {c})
  BY <1>1, <1>3, SumFirst
<1> HIDE DEF c
<1>5. c # x
  BY <1>3, <1>4
<1>6. SumFunctionOnSet(f, s \ {c}) = f[x] + SumFunctionOnSet(f, (s \ {c}) \ {x})
  BY <1>2, <1>4, <1>5
<1>7. SumFunctionOnSet(f, s \ {x}) = f[c] + SumFunctionOnSet(f, (s \ {c}) \ {x})
  <2>1. (s \ {c}) \ {x} = (s \ {x}) \ {c}
    OBVIOUS
  <2> QED
    BY <1>2, <1>4, <1>5, <2>1
<1>8. SumFunctionOnSet(f, (s \ {c}) \ {x}) \in Int /\ f[x] \in Int /\ f[c] \in Int
  BY <1>1, <1>4, SumInt
<1> DEFINE r == SumFunctionOnSet(f, (s \ {c}) \ {x})
<1>9. SumFunctionOnSet(f, s) = f[c] + (f[x] + r) /\ SumFunctionOnSet(f, s \ {x}) = f[c] + r
  BY <1>4, <1>6, <1>7
<1>10. r \in Int
  BY <1>8
<1> HIDE DEF F, Bad, r
<1>11. f[c] + (f[x] + r) = f[x] + (f[c] + r)
  BY <1>8, <1>10
<1> QED
  BY <1>3, <1>9, <1>11

LEMMA SumAdd ==
    ASSUME NEW f, NEW S, IsFiniteSet(S), NEW y, y \notin S,
           \A x \in S \cup {y} : f[x] \in Int
    PROVE  SumFunctionOnSet(f, S \cup {y}) = f[y] + SumFunctionOnSet(f, S)
<1>1. IsFiniteSet(S \cup {y}) /\ (S \cup {y}) \ {y} = S
  BY FS_AddElement
<1> QED
  BY <1>1, SumRemove

\* One summand changes.
LEMMA SumChange ==
    ASSUME NEW f, NEW e, NEW S, IsFiniteSet(S), NEW y \in S,
           \A x \in S : f[x] \in Int /\ e[x] \in Int,
           \A x \in S \ {y} : f[x] = e[x]
    PROVE  SumFunctionOnSet(e, S) = SumFunctionOnSet(f, S) - f[y] + e[y]
<1>1. IsFiniteSet(S \ {y})
  BY FS_Subset
<1>2. SumFunctionOnSet(e, S \ {y}) = SumFunctionOnSet(f, S \ {y})
  BY <1>1, SumSame
<1>3. SumFunctionOnSet(f, S \ {y}) \in Int
  BY <1>1, SumInt
<1>4. SumFunctionOnSet(e, S) = e[y] + SumFunctionOnSet(e, S \ {y})
  BY SumRemove
<1>5. SumFunctionOnSet(f, S) = f[y] + SumFunctionOnSet(f, S \ {y})
  BY SumRemove
<1> QED
  BY <1>2, <1>3, <1>4, <1>5

\* A part of summands that are not negative does not sum up to more.
LEMMA SumPart ==
    ASSUME NEW f, NEW S, IsFiniteSet(S), \A x \in S : f[x] \in Nat, NEW T \in SUBSET S
    PROVE  SumFunctionOnSet(f, T) <= SumFunctionOnSet(f, S)
<1> DEFINE F == {s \in SUBSET S : \E t \in SUBSET s :
                   ~(SumFunctionOnSet(f, t) <= SumFunctionOnSet(f, s))}
<1> SUFFICES ASSUME F # {} PROVE FALSE
  OBVIOUS
<1>1. \A s \in SUBSET S : IsFiniteSet(s) /\ SumFunctionOnSet(f, s) \in Nat
  BY FS_Subset, SumNat
<1>2. PICK s \in F : \A t \in F : t \subseteq s => t = s
  <2>1. \A s \in F : IsFiniteSet(s)
    BY <1>1
  <2> HIDE DEF F
  <2> QED
    BY <2>1, MinimalSet
<1>3. PICK t \in SUBSET s : ~(SumFunctionOnSet(f, t) <= SumFunctionOnSet(f, s))
  OBVIOUS
<1>4. t # s
  BY <1>1, <1>3
<1>5. PICK x \in s : x \notin t
  BY <1>4
<1>6. SumFunctionOnSet(f, t) <= SumFunctionOnSet(f, s \ {x})
  BY <1>2, <1>5
<1>7. SumFunctionOnSet(f, s) = f[x] + SumFunctionOnSet(f, s \ {x})
  BY <1>1, SumRemove
<1>8. /\ SumFunctionOnSet(f, t) \in Nat /\ SumFunctionOnSet(f, s \ {x}) \in Nat
      /\ f[x] \in Nat
  BY <1>1
<1> QED
  BY <1>3, <1>6, <1>7, <1>8

\* A set of summands grows, or shrinks, by one.
LEMMA SumGrow ==
    ASSUME NEW f, NEW e, NEW S, IsFiniteSet(S), NEW y, y \notin S,
           \A x \in S : f[x] \in Int /\ e[x] = f[x], e[y] \in Int
    PROVE  SumFunctionOnSet(e, S \cup {y}) = SumFunctionOnSet(f, S) + e[y]
<1>1. SumFunctionOnSet(e, S) = SumFunctionOnSet(f, S)
  BY SumSame
<1>2. SumFunctionOnSet(f, S) \in Int
  BY SumInt
<1>3. SumFunctionOnSet(e, S \cup {y}) = e[y] + SumFunctionOnSet(e, S)
  <2>1. \A x \in S \cup {y} : e[x] \in Int
    OBVIOUS
  <2> QED
    BY <2>1, SumAdd
<1> QED
  BY <1>1, <1>2, <1>3

LEMMA SumShrink ==
    ASSUME NEW f, NEW e, NEW S, IsFiniteSet(S), NEW y \in S,
           \A x \in S : f[x] \in Int, \A x \in S \ {y} : e[x] = f[x]
    PROVE  SumFunctionOnSet(e, S \ {y}) = SumFunctionOnSet(f, S) - f[y]
<1>1. IsFiniteSet(S \ {y})
  BY FS_Subset
<1>2. SumFunctionOnSet(e, S \ {y}) = SumFunctionOnSet(f, S \ {y})
  BY <1>1, SumSame
<1>3. SumFunctionOnSet(f, S \ {y}) \in Int
  BY <1>1, SumInt
<1>4. SumFunctionOnSet(f, S) = f[y] + SumFunctionOnSet(f, S \ {y})
  BY SumRemove
<1> QED
  BY <1>2, <1>3, <1>4

\* A sum over the values of an injective function.
LEMMA SumReindex ==
    ASSUME NEW f, NEW e, NEW h, NEW S, IsFiniteSet(S),
           \A i \in S : e[i] = f[h[i]] /\ e[i] \in Int,
           \A i, j \in S : h[i] = h[j] => i = j
    PROVE  SumFunctionOnSet(e, S) = SumFunctionOnSet(f, {h[i] : i \in S})
<1> DEFINE Im(s) == {h[i] : i \in s}
           Bad(s) == SumFunctionOnSet(e, s) # SumFunctionOnSet(f, Im(s))
           F == {s \in SUBSET S : Bad(s)}
<1> SUFFICES ASSUME F # {} PROVE FALSE
  OBVIOUS
<1>1. \A s \in SUBSET S : IsFiniteSet(s) /\ IsFiniteSet(Im(s))
  <2> SUFFICES ASSUME NEW s \in SUBSET S PROVE IsFiniteSet(s) /\ IsFiniteSet(Im(s))
    OBVIOUS
  <2>1. IsFiniteSet(s)
    BY FS_Subset
  <2>2. [i \in s |-> h[i]] \in Surjection(s, Im(s))
    BY DEF Surjection
  <2> QED
    BY <2>1, <2>2, FS_Surjection
<1>2. PICK s \in F : \A t \in F : t \subseteq s => t = s
  <2>1. \A s \in F : IsFiniteSet(s)
    BY <1>1
  <2> HIDE DEF F
  <2> QED
    BY <2>1, MinimalSet
<1>3. s # {}
  <2>1. SumFunctionOnSet(e, {}) = 0 /\ SumFunctionOnSet(f, {}) = 0 /\ Im({}) = {}
    BY SumEmpty
  <2> SUFFICES ASSUME s = {} PROVE FALSE
    OBVIOUS
  <2> QED
    BY <2>1
<1> DEFINE c == First(s)
<1>4. c \in s /\ SumFunctionOnSet(e, s) = e[c] + SumFunctionOnSet(e, s \ {c})
  BY <1>1, <1>3, SumFirst
<1> HIDE DEF c
<1>5. SumFunctionOnSet(e, s \ {c}) = SumFunctionOnSet(f, Im(s \ {c}))
  BY <1>2, <1>4
<1>6. h[c] \notin Im(s \ {c}) /\ Im(s) = Im(s \ {c}) \cup {h[c]} /\ s \ {c} \in SUBSET S
  BY <1>4
<1>7. IsFiniteSet(Im(s \ {c})) /\ \A y \in Im(s \ {c}) \cup {h[c]} : f[y] \in Int
  BY <1>1, <1>4, <1>6
<1> HIDE DEF Im
<1>8. SumFunctionOnSet(f, Im(s)) = f[h[c]] + SumFunctionOnSet(f, Im(s \ {c}))
  BY <1>6, <1>7, SumAdd
<1>9. e[c] = f[h[c]]
  BY <1>4
<1> QED
  BY <1>4, <1>5, <1>8, <1>9
=============================================================================
