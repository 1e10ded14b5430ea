---------------------------- MODULE Pools_proofs ----------------------------
(***************************************************************************)
(* Proofs about the parts of an export that goroutines share, for every    *)
(* number of goroutines and every limit: each part has an invariant of its *)
(* own, which the steps of the others leave alone.                         *)
(*                                                                         *)
(* The render session comes first, for every set of renders and assets,    *)
(* every limit and any number of calls: loads are admitted, failures stay  *)
(* with the render they belong to, and the lists of both tables are within *)
(* the entry limit and the byte limit and without duplicates.              *)
(***************************************************************************)
EXTENDS MCPools, SequenceTheorems, SumTheorems

-----------------------------------------------------------------------------
(* Least-recently-used lists                                               *)

\* A finite range of numbers has a largest one, which Max is.
LEMMA MaxIn ==
    ASSUME NEW n \in Nat, NEW S \in SUBSET (0..n), S # {}
    PROVE  Max(S) \in S
<1> DEFINE T == {n - m : m \in S}
<1>1. T # {} /\ T \subseteq Nat
  <2>1. \A m \in S : m \in Int /\ n - m \in Nat
    BY SMT
  <2>2. PICK m \in S : TRUE
    OBVIOUS
  <2>3. n - m \in T
    OBVIOUS
  <2> QED
    BY <2>1, <2>3
<1>2. PICK k \in T : \A j \in T : ~(j < k)
  <2>1. PICK k \in T : \A j \in T : <<j, k>> \notin OpToRel(<, Nat)
    BY <1>1, NatLessThanWellFounded, WFMin
  <2>2. \A j \in T : ~(j < k)
    BY <1>1, <2>1 DEF OpToRel
  <2> QED
    BY <2>2
<1>3. PICK m \in S : k = n - m
  BY DEF T
<1>4. \A i \in S : m >= i
  <2> SUFFICES ASSUME NEW i \in S PROVE m >= i
    OBVIOUS
  <2>1. n - i \in T
    BY DEF T
  <2>2. ~(n - i < n - m)
    BY <1>2, <1>3, <2>1
  <2> QED
    BY <2>2
<1> QED
  BY <1>4 DEF Max

\* q is a list of elements of S without duplicates.
List(q, S) == q \in Seq(S) /\ IsInjective(q)

\* What is left of a list when its back is evicted.
Shortened(q, p) == \E n \in 0..Len(q) : p = SubSeq(q, 1, n)

LEMMA ShortenedList ==
    ASSUME NEW S, NEW q, List(q, S), NEW p, Shortened(q, p)
    PROVE  List(p, S) /\ Len(p) <= Len(q) /\ Range(p) \subseteq Range(q)
<1>1. PICK n \in 0..Len(q) : p = SubSeq(q, 1, n)
  BY DEF Shortened
<1>2. /\ p \in Seq(S) /\ Len(p) = n
      /\ \A i \in 1..n : p[i] = q[i]
  BY <1>1 DEF List
<1>3. 1..n \subseteq 1..Len(q) /\ DOMAIN p = 1..n /\ DOMAIN q = 1..Len(q)
  BY <1>2 DEF List
<1> QED
  BY <1>2, <1>3 DEF List, IsInjective, Range

\* A new element at the front of a list.
LEMMA Pushed ==
    ASSUME NEW S, NEW q, List(q, S), NEW x \in S, x \notin Range(q)
    PROVE  /\ List(<<x>> \o q, S) /\ Len(<<x>> \o q) = Len(q) + 1
           /\ Range(<<x>> \o q) = Range(q) \cup {x}
<1> DEFINE p == <<x>> \o q
<1>1. /\ p \in Seq(S) /\ Len(p) = Len(q) + 1
      /\ \A i \in 1..Len(p) : p[i] = IF i = 1 THEN x ELSE q[i - 1]
  BY DEF List
<1>2. DOMAIN p = 1..Len(p) /\ DOMAIN q = 1..Len(q) /\ Len(q) \in Nat
  BY <1>1 DEF List
<1>3. \A i \in 1..Len(p) : i # 1 => i - 1 \in 1..Len(q)
  BY <1>1, <1>2
<1>4. \A i \in 1..Len(q) : q[i] # x
  BY <1>2 DEF Range
<1> HIDE DEF p
<1>5. IsInjective(p)
  <2> SUFFICES ASSUME NEW a \in 1..Len(p), NEW b \in 1..Len(p), p[a] = p[b]
               PROVE  a = b
    BY <1>2 DEF IsInjective
  <2>1. CASE a = 1 \/ b = 1
    BY <2>1, <1>1, <1>3, <1>4
  <2>2. CASE a # 1 /\ b # 1
    <3>1. q[a - 1] = q[b - 1]
      BY <2>2, <1>1
    <3>2. a - 1 = b - 1
      BY <3>1, <2>2, <1>2, <1>3 DEF List, IsInjective
    <3> QED
      BY <3>2
  <2> QED
    BY <2>1, <2>2
<1>6. Range(p) = Range(q) \cup {x}
  <2>1. Range(p) \subseteq Range(q) \cup {x}
    BY <1>1, <1>2, <1>3 DEF Range
  <2>2. ASSUME NEW i \in 1..Len(q) PROVE q[i] \in Range(p)
    <3>1. i + 1 \in 1..Len(p) /\ i + 1 # 1 /\ (i + 1) - 1 = i
      BY <1>1, <1>2
    <3>2. p[i + 1] = q[i]
      BY <1>1, <3>1
    <3> QED
      BY <1>2, <3>1, <3>2 DEF Range
  <2>3. p[1] = x /\ 1 \in 1..Len(p)
    BY <1>1, <1>2
  <2> QED
    BY <1>2, <2>1, <2>2, <2>3 DEF Range
<1> QED
  BY <1>1, <1>5, <1>6 DEF List, p

\* Removing one element of a list.
LEMMA Removed ==
    ASSUME NEW S, NEW q, List(q, S), NEW k \in 1..Len(q)
    PROVE  /\ List(RemoveAt(q, k), S) /\ Len(RemoveAt(q, k)) = Len(q) - 1
           /\ Range(RemoveAt(q, k)) = Range(q) \ {q[k]}
<1> DEFINE p == RemoveAt(q, k)
<1>1. /\ p \in Seq(S) /\ Len(p) = Len(q) - 1
      /\ \A i \in 1..Len(p) : p[i] = IF i < k THEN q[i] ELSE q[i + 1]
  <2> DEFINE before == SubSeq(q, 1, k - 1)
             after == SubSeq(q, k + 1, Len(q))
  <2>1. q \in Seq(S) /\ Len(q) \in Nat /\ k \in 1..Len(q)
    BY DEF List
  <2>2. /\ before \in Seq(S) /\ Len(before) = k - 1
        /\ \A i \in 1..(k - 1) : before[i] = q[i]
    BY <2>1
  <2>3. /\ after \in Seq(S) /\ Len(after) = Len(q) - k
        /\ \A i \in 1..(Len(q) - k) : after[i] = q[i + k]
    BY <2>1
  <2>4. p = before \o after
    BY DEF RemoveAt
  <2> HIDE DEF before, after, p
  <2>5. /\ p \in Seq(S) /\ Len(p) = Len(q) - 1
        /\ \A i \in 1..Len(p) :
             p[i] = IF i <= k - 1 THEN before[i] ELSE after[i - (k - 1)]
    <3>1. /\ p \in Seq(S) /\ Len(p) = Len(before) + Len(after)
          /\ \A i \in 1..(Len(before) + Len(after)) :
               p[i] = IF i <= Len(before) THEN before[i] ELSE after[i - Len(before)]
      BY <2>2, <2>3, <2>4, ConcatProperties
    <3> QED
      BY <3>1, <2>1, <2>2, <2>3
  <2>6. ASSUME NEW i \in 1..Len(p)
        PROVE  p[i] = IF i < k THEN q[i] ELSE q[i + 1]
    <3>0. i \in Int /\ k \in Int /\ 1 <= i /\ 1 <= k /\ i <= Len(q) - 1
      BY <2>1, <2>5
    <3>1. CASE i < k
      <4>1. i <= k - 1 /\ i \in 1..(k - 1)
        BY <3>0, <3>1
      <4>2. p[i] = before[i]
        BY <4>1, <2>5
      <4> QED
        BY <4>1, <4>2, <3>1, <2>2
    <3>2. CASE ~(i < k)
      <4>1. i - (k - 1) \in 1..(Len(q) - k) /\ i - (k - 1) + k = i + 1
        BY <3>0, <3>2, <2>1
      <4>2. p[i] = after[i - (k - 1)]
        BY <3>0, <3>2, <2>5
      <4>3. after[i - (k - 1)] = q[i + 1]
        BY <4>1, <2>3
      <4> QED
        BY <4>2, <4>3, <3>2
    <3> QED
      BY <3>1, <3>2
  <2> QED
    BY <2>5, <2>6
<1>2. DOMAIN p = 1..Len(p) /\ DOMAIN q = 1..Len(q) /\ Len(q) \in Nat
  BY <1>1 DEF List
<1> HIDE DEF p
<1>3. ASSUME NEW i \in 1..Len(p)
      PROVE  \E j \in 1..Len(q) \ {k} : p[i] = q[j] /\ j = (IF i < k THEN i ELSE i + 1)
  <2>1. CASE i < k
    BY <2>1, <1>1, <1>2
  <2>2. CASE ~(i < k)
    <3>1. i + 1 \in 1..Len(q) \ {k}
      BY <2>2, <1>1, <1>2
    <3> QED
      BY <3>1, <2>2, <1>1
  <2> QED
    BY <2>1, <2>2
<1>4. IsInjective(p)
  <2> SUFFICES ASSUME NEW a \in 1..Len(p), NEW b \in 1..Len(p), p[a] = p[b]
               PROVE  a = b
    BY <1>2 DEF IsInjective
  <2>1. PICK c \in 1..Len(q) \ {k} : p[a] = q[c] /\ c = (IF a < k THEN a ELSE a + 1)
    BY <1>3
  <2>2. PICK d \in 1..Len(q) \ {k} : p[b] = q[d] /\ d = (IF b < k THEN b ELSE b + 1)
    BY <1>3
  <2>3. c = d
    BY <2>1, <2>2, <1>2 DEF List, IsInjective
  <2> QED
    BY <2>1, <2>2, <2>3
<1>5. Range(p) \subseteq Range(q) \ {q[k]}
  <2> SUFFICES ASSUME NEW i \in 1..Len(p)
               PROVE  p[i] \in Range(q) /\ p[i] # q[k]
    BY <1>2 DEF Range
  <2>1. PICK j \in 1..Len(q) \ {k} : p[i] = q[j]
    BY <1>3
  <2> QED
    BY <2>1, <1>2 DEF List, IsInjective, Range
<1>6. ASSUME NEW j \in 1..Len(q), j # k PROVE q[j] \in Range(p)
  <2>1. CASE j < k
    <3>1. j \in 1..Len(p) /\ p[j] = q[j]
      BY <2>1, <1>1, <1>2
    <3> QED
      BY <3>1, <1>2 DEF Range
  <2>2. CASE ~(j < k)
    <3>1. j - 1 \in 1..Len(p) /\ ~(j - 1 < k) /\ (j - 1) + 1 = j
      BY <2>2, <1>1, <1>2, <1>6
    <3>2. p[j - 1] = q[j]
      BY <3>1, <1>1
    <3> QED
      BY <3>1, <3>2, <1>2 DEF Range
  <2> QED
    BY <2>1, <2>2
<1>7. Range(p) = Range(q) \ {q[k]}
  BY <1>2, <1>5, <1>6 DEF Range
<1> QED
  BY <1>1, <1>4, <1>7 DEF List, p

\* Moving an element of a list to its front.
LEMMA TouchedList ==
    ASSUME NEW S, NEW q, List(q, S), NEW x \in Range(q)
    PROVE  /\ List(Touched(q, x), S) /\ Len(Touched(q, x)) = Len(q)
           /\ Range(Touched(q, x)) = Range(q)
<1> DEFINE k == CHOOSE i \in DOMAIN q : q[i] = x
<1>1. k \in 1..Len(q) /\ q[k] = x
  BY DEF Range, List
<1>2. x \in S /\ Len(q) \in Nat
  BY <1>1 DEF List
<1> DEFINE p == RemoveAt(q, k)
<1>3. Touched(q, x) = <<x>> \o p
  BY DEF Touched
<1> HIDE DEF k, p
<1>4. List(p, S) /\ Len(p) = Len(q) - 1 /\ Range(p) = Range(q) \ {x}
  BY <1>1, Removed DEF p
<1>5. /\ List(<<x>> \o p, S) /\ Len(<<x>> \o p) = Len(p) + 1
      /\ Range(<<x>> \o p) = Range(p) \cup {x}
  BY <1>2, <1>4, Pushed
<1>6. (Range(q) \ {x}) \cup {x} = Range(q)
  OBVIOUS
<1>7. Len(p) + 1 = Len(q)
  BY <1>2, <1>4
<1> QED
  BY <1>3, <1>4, <1>5, <1>6, <1>7

-----------------------------------------------------------------------------
(* The invariant                                                           *)

Typed ==
    /\ at \in [Renders -> {"idle", "look", "slot", "again", "load", "wait",
                           "leave", "yield"}]
    /\ item \in [Renders -> Items \cup {NoItem}]
    /\ failed \in [Renders -> {"no", "load", "limit", "context"}]
    /\ flight \in [Items -> Renders \cup {NoRender}]
    /\ slots \subseteq Renders /\ IsFiniteSet(slots) /\ maxLoads \in Nat

\* A render inside has an item, and from the second look on a slot.
Placed ==
    \A r \in Renders :
        /\ at[r] # "idle" => item[r] \in Items
        /\ at[r] \in {"again", "load", "leave", "yield"} => r \in slots

Lists ==
    /\ lru \in [Tables -> Seq(Items)]
    /\ \A t \in Tables : List(lru[t], Items) /\ Len(lru[t]) <= MaxCacheEntries

IInv == Typed /\ Placed /\ Lists /\ LoadsAdmitted

\* x may have been added to its table, and else only entries were lost.
Added(x, t) == IF TableOf(x) = t THEN {x} ELSE {}
OnlyAdds(x) == \A t \in Tables : Range(lru'[t]) \subseteq Range(lru[t]) \cup Added(x, t)
Loses == \A t \in Tables : Range(lru'[t]) \subseteq Range(lru[t])

\* A hit moves an entry to the front.
LEMMA HitStep ==
    ASSUME Lists, NEW r \in Renders, item[r] \in Items, Hit(r)
    PROVE  Lists' /\ Loses
<1> DEFINE t == TableOf(item[r])
<1>1. t \in Tables /\ item[r] \in Range(lru[t])
  BY DEF Hit, Cached, TableOf, Tables
<1>2. lru' = [lru EXCEPT ![t] = Touched(lru[t], item[r])]
  BY DEF Hit
<1>3. /\ List(Touched(lru[t], item[r]), Items)
      /\ Len(Touched(lru[t], item[r])) = Len(lru[t])
      /\ Range(Touched(lru[t], item[r])) \subseteq Range(lru[t])
  BY <1>1, TouchedList DEF Lists
<1> HIDE DEF t
<1>4. \A u \in Tables : lru'[u] = IF u = t THEN Touched(lru[t], item[r]) ELSE lru[u]
  BY <1>1, <1>2 DEF Lists
<1>5. Loses
  BY <1>3, <1>4 DEF Loses
<1>6. lru' \in [Tables -> Seq(Items)]
  BY <1>1, <1>2, <1>3 DEF Lists, List
<1> QED
  BY <1>3, <1>4, <1>5, <1>6 DEF Lists

\* Eviction from the back until the count allows one more entry.
LEMMA CountedList ==
    ASSUME Lists, NEW t \in Tables
    PROVE  Shortened(lru[t], Counted(t)) /\ Len(Counted(t)) + 1 <= MaxCacheEntries
<1> DEFINE q == lru[t]
           fits == {n \in 0..Len(q) : Len(SubSeq(q, 1, n)) < MaxCacheEntries}
<1>1. q \in Seq(Items) /\ Len(q) \in Nat /\ MaxCacheEntries \in Nat \ {0}
  BY LimitAssumption DEF Lists, List
<1>2. \A n \in 0..Len(q) : SubSeq(q, 1, n) \in Seq(Items) /\ Len(SubSeq(q, 1, n)) = n
  BY <1>1
<1>3. 0 \in fits /\ fits \subseteq 0..Len(q) /\ fits # {}
  BY <1>1, <1>2
<1>4. Counted(t) = SubSeq(q, 1, Max(fits))
  BY <1>3 DEF Counted, EvictUntil
<1>5. Max(fits) \in fits
  BY <1>1, <1>3, MaxIn
<1>6. PICK m \in 0..Len(q) : m < MaxCacheEntries /\ Counted(t) = SubSeq(q, 1, m)
  <2>1. Max(fits) \in 0..Len(q) /\ Len(SubSeq(q, 1, Max(fits))) < MaxCacheEntries
    BY <1>5
  <2>2. Len(SubSeq(q, 1, Max(fits))) = Max(fits)
    BY <1>2, <2>1
  <2> QED
    BY <1>4, <2>1, <2>2
<1>7. Len(Counted(t)) = m
  BY <1>2, <1>6
<1> HIDE DEF q
<1>8. Len(Counted(t)) + 1 <= MaxCacheEntries
  BY <1>1, <1>6, <1>7
<1> QED
  BY <1>6, <1>8 DEF Shortened, q

\* What EvictUntil leaves is shortened, whatever it evicts for.
LEMMA FittedMemos ==
    ASSUME NEW x, NEW assets, NEW q, Len(q) \in Nat
    PROVE  Shortened(q, MemosLeft(x, q, assets))
           \/ MemosLeft(x, q, assets) = <<>>
<1> DEFINE fits == {n \in 0..Len(q) : Fits(x, SubSeq(q, 1, n), assets)}
<1>1. MemosLeft(x, q, assets) = IF fits = {} THEN <<>> ELSE SubSeq(q, 1, Max(fits))
  BY DEF MemosLeft, AssetsLeft, EvictUntil
<1>2. fits # {} => Max(fits) \in 0..Len(q)
  BY MaxIn
<1> HIDE DEF fits
<1> QED
  BY <1>1, <1>2 DEF Shortened

LEMMA FittedAssets ==
    ASSUME NEW x, NEW memos, NEW q, Len(q) \in Nat
    PROVE  Shortened(q, AssetsLeft(x, memos, q))
           \/ AssetsLeft(x, memos, q) = <<>>
<1> DEFINE fits == {n \in 0..Len(q) : Fits(x, memos, SubSeq(q, 1, n))}
<1>1. AssetsLeft(x, memos, q) = IF fits = {} THEN <<>> ELSE SubSeq(q, 1, Max(fits))
  BY DEF MemosLeft, AssetsLeft, EvictUntil
<1>2. fits # {} => Max(fits) \in 0..Len(q)
  BY MaxIn
<1> HIDE DEF fits
<1> QED
  BY <1>1, <1>2 DEF Shortened

LEMMA EmptyList == ASSUME NEW S PROVE List(<<>>, S) /\ Len(<<>>) = 0 /\ Range(<<>>) = {}
BY DEF List, IsInjective, Range

\* A list whose back was evicted, perhaps all of it.
LEMMA EvictedList ==
    ASSUME NEW S, NEW q, List(q, S), NEW p, Shortened(q, p) \/ p = <<>>
    PROVE  List(p, S) /\ Len(p) <= Len(q) /\ Range(p) \subseteq Range(q)
<1>1. Len(q) \in Nat
  BY DEF List
<1>2. CASE Shortened(q, p)
  BY <1>2, ShortenedList
<1>3. CASE p = <<>>
  BY <1>1, <1>3, EmptyList
<1> QED
  BY <1>2, <1>3

\* Keep replaces both lists.
LEMMA KeepStep ==
    ASSUME Lists, NEW x, NEW memos, NEW assets, Keep(memos, assets),
           List(memos, Items), Len(memos) <= MaxCacheEntries,
           List(assets, Items), Len(assets) <= MaxCacheEntries,
           Range(memos) \subseteq Range(lru["memo"]) \cup Added(x, "memo"),
           Range(assets) \subseteq Range(lru["asset"]) \cup Added(x, "asset")
    PROVE  Lists' /\ OnlyAdds(x)
<1>1. lru' = [memo |-> memos, asset |-> assets]
  BY DEF Keep
<1>2. Tables = {"memo", "asset"}
  BY DEF Tables
<1>3. lru'["memo"] = memos /\ lru'["asset"] = assets /\ DOMAIN lru' = Tables
  BY <1>1, <1>2
<1>4. lru' \in [Tables -> Seq(Items)]
  <2>1. \A t \in Tables : lru'[t] \in Seq(Items)
    BY <1>2, <1>3 DEF List
  <2>2. lru' = [t \in Tables |-> IF t = "memo" THEN memos ELSE assets]
    BY <1>1, <1>2
  <2> QED
    BY <2>1, <2>2
<1>5. \A t \in Tables : List(lru'[t], Items) /\ Len(lru'[t]) <= MaxCacheEntries
  BY <1>2, <1>3
<1> QED
  BY <1>2, <1>3, <1>4, <1>5 DEF Lists, OnlyAdds

\* An insertion adds one entry, which was not there, and evicts others.
LEMMA InsertStep ==
    ASSUME Lists, NEW x \in Items, ~Cached(x), Insert(x)
    PROVE  Lists' /\ OnlyAdds(x)
<1>1. /\ List(lru["memo"], Items) /\ Len(lru["memo"]) <= MaxCacheEntries
      /\ List(lru["asset"], Items) /\ Len(lru["asset"]) <= MaxCacheEntries
      /\ Len(lru["memo"]) \in Nat /\ Len(lru["asset"]) \in Nat
      /\ MaxCacheEntries \in Nat
  BY LimitAssumption DEF Lists, Tables, List
<1>2. ASSUME NEW t \in Tables
      PROVE  /\ List(Counted(t), Items) /\ Len(Counted(t)) + 1 <= MaxCacheEntries
             /\ Range(Counted(t)) \subseteq Range(lru[t]) /\ Len(Counted(t)) \in Nat
  BY CountedList, EvictedList DEF Lists, List
<1>3. CASE Charge[x] > MaxCacheBytes
  <2>1. UNCHANGED lru
    BY <1>3 DEF Insert, cacheVars
  <2> QED
    BY <2>1 DEF Lists, OnlyAdds, Tables
<1>4. CASE ~(Charge[x] > MaxCacheBytes) /\ x \in Identities
  <2> DEFINE memos == MemosLeft(x, Counted("memo"), lru["asset"])
  <2>1. /\ List(Counted("memo"), Items) /\ Len(Counted("memo")) + 1 <= MaxCacheEntries
        /\ Range(Counted("memo")) \subseteq Range(lru["memo"])
        /\ Len(Counted("memo")) \in Nat
    BY <1>2 DEF Tables
  <2>2. Shortened(Counted("memo"), memos) \/ memos = <<>>
    BY <2>1, FittedMemos
  <2>3. Keep(<<x>> \o memos, lru["asset"]) \/ Keep(memos, lru["asset"])
    BY <1>4 DEF Insert, InsertMemo
  <2> HIDE DEF memos
  <2>4. /\ List(memos, Items) /\ Len(memos) <= Len(Counted("memo"))
        /\ Range(memos) \subseteq Range(lru["memo"])
    BY <2>1, <2>2, EvictedList
  <2>5. x \notin Range(lru["memo"])
    BY <1>4 DEF Cached, TableOf
  <2>6. /\ List(<<x>> \o memos, Items) /\ Len(<<x>> \o memos) = Len(memos) + 1
        /\ Range(<<x>> \o memos) \subseteq Range(lru["memo"]) \cup Added(x, "memo")
    BY <1>4, <2>4, <2>5, Pushed DEF Added, TableOf
  <2>7. Len(memos) \in Nat
    BY <2>4 DEF List
  <2>8. Len(memos) <= MaxCacheEntries /\ Len(<<x>> \o memos) <= MaxCacheEntries
    BY <1>1, <2>1, <2>4, <2>6, <2>7
  <2>9. CASE Keep(<<x>> \o memos, lru["asset"])
    BY <2>9, <1>1, <2>6, <2>8, KeepStep
  <2>10. CASE Keep(memos, lru["asset"])
    BY <2>10, <1>1, <2>4, <2>8, KeepStep
  <2> QED
    BY <2>3, <2>9, <2>10
<1>5. CASE ~(Charge[x] > MaxCacheBytes) /\ x \notin Identities
  <2> DEFINE fewer == Counted("asset")
             memos == MemosLeft(x, lru["memo"], fewer)
             assets == AssetsLeft(x, memos, fewer)
  <2>1. /\ List(fewer, Items) /\ Len(fewer) + 1 <= MaxCacheEntries
        /\ Range(fewer) \subseteq Range(lru["asset"]) /\ Len(fewer) \in Nat
    BY <1>2 DEF Tables
  <2>2. Keep(memos, <<x>> \o assets)
    BY <1>5 DEF Insert, InsertAsset
  <2> HIDE DEF fewer
  <2>3. Shortened(lru["memo"], memos) \/ memos = <<>>
    BY <1>1, FittedMemos
  <2> HIDE DEF memos
  <2>4. Shortened(fewer, assets) \/ assets = <<>>
    BY <2>1, FittedAssets
  <2> HIDE DEF assets
  <2>5. /\ List(memos, Items) /\ Len(memos) <= Len(lru["memo"])
        /\ Range(memos) \subseteq Range(lru["memo"])
    BY <1>1, <2>3, EvictedList
  <2>6. /\ List(assets, Items) /\ Len(assets) <= Len(fewer)
        /\ Range(assets) \subseteq Range(lru["asset"])
    BY <2>1, <2>4, EvictedList
  <2>7. x \notin Range(lru["asset"])
    BY <1>5 DEF Cached, TableOf
  <2>8. /\ List(<<x>> \o assets, Items) /\ Len(<<x>> \o assets) = Len(assets) + 1
        /\ Range(<<x>> \o assets) \subseteq Range(lru["asset"]) \cup Added(x, "asset")
    BY <1>5, <2>6, <2>7, Pushed DEF Added, TableOf
  <2>9. Len(memos) \in Nat /\ Len(assets) \in Nat
    BY <2>5, <2>6 DEF List
  <2>10. Len(memos) <= MaxCacheEntries /\ Len(<<x>> \o assets) <= MaxCacheEntries
    BY <1>1, <2>1, <2>5, <2>6, <2>8, <2>9
  <2> QED
    BY <2>2, <2>5, <2>8, <2>10, KeepStep
<1> QED
  BY <1>3, <1>4, <1>5

-----------------------------------------------------------------------------
(* The steps of a render                                                   *)

\* Entries that are cached after a step that only loses entries were before.
LEMMA LosesCached ==
    ASSUME Loses, NEW x, Cached(x)'
    PROVE  Cached(x)
<1>1. TableOf(x) \in Tables
  BY DEF TableOf, Tables
<1> QED
  BY <1>1 DEF Loses, Cached, TableOf

\* A render that neither loads nor begins to moves between the other places.
Elsewhere == {"idle", "look", "slot", "wait"}

\* r goes where it needs no slot, other renders and the flights stay.
Aside(r) ==
    /\ \E place \in Elsewhere : at' = [at EXCEPT ![r] = place]
    /\ \E x \in Items \cup {NoItem} : item' = [item EXCEPT ![r] = x]
    /\ at'[r] # "idle" => item'[r] \in Items
    /\ failed' \in [Renders -> {"no", "load", "limit", "context"}]
    /\ slots' \in {slots, slots \ {r}}
    /\ Lists' /\ Loses
    /\ UNCHANGED <<flight, maxLoads>>

LEMMA AsideStep ==
    ASSUME IInv, NEW r \in Renders, at[r] # "load", Aside(r)
    PROVE  IInv'
<1> USE DEF IInv
<1>1. /\ \A s \in Renders : s # r => at'[s] = at[s] /\ item'[s] = item[s]
      /\ at'[r] \in Elsewhere
      /\ at' \in [Renders -> {"idle", "look", "slot", "again", "load", "wait",
                              "leave", "yield"}]
      /\ item' \in [Renders -> Items \cup {NoItem}]
  BY DEF Typed, Aside, Elsewhere
<1>2. IsFiniteSet(slots') /\ slots' \subseteq slots /\ slots \ {r} \subseteq slots'
      /\ Cardinality(slots') <= Cardinality(slots)
  BY FS_Subset, FS_CardinalityType DEF Typed, Aside
<1>3. Typed'
  BY <1>1, <1>2 DEF Typed, Aside
<1>4. Placed'
  BY <1>1, <1>2 DEF Placed, Aside, Elsewhere
<1>5. LoadsAdmitted'
  <2>1. Cardinality(slots') <= maxLoads'
    BY <1>2, FS_CardinalityType DEF LoadsAdmitted, Aside, Typed
  <2>2. ASSUME NEW s \in Renders, at'[s] = "load"
        PROVE  s \in slots' /\ flight'[item'[s]] = s /\ ~Cached(item[s])'
    <3>1. s # r /\ at[s] = "load" /\ item'[s] = item[s]
      BY <1>1, <2>2 DEF Elsewhere
    <3>2. ~Cached(item[s])
      BY <3>1 DEF LoadsAdmitted
    <3>3. ~Cached(item[s])'
      <4>1. item'[s] = item[s] /\ Loses
        BY <3>1 DEF Aside
      <4> QED
        BY <4>1, <3>2 DEF Loses, Cached, TableOf, Tables
    <3> QED
      BY <1>2, <3>1, <3>3 DEF LoadsAdmitted, Aside
  <2>3. ASSUME NEW x \in Items, flight'[x] # NoRender
        PROVE  at'[flight'[x]] = "load" /\ item'[flight'[x]] = x
    BY <1>1, <2>3 DEF LoadsAdmitted, Aside, Typed
  <2> QED
    BY <2>1, <2>2, <2>3 DEF LoadsAdmitted
<1> QED
  BY <1>3, <1>4, <1>5 DEF Aside

\* What Proceed and Fail do to r.
LEMMA LeavingLoop ==
    ASSUME Typed, NEW r \in Renders, item[r] \in Items,
           Proceed(r) \/ (\E how \in {"context", "limit", "load"} : Fail(r, how))
    PROVE  /\ \E place \in Elsewhere : at' = [at EXCEPT ![r] = place]
           /\ \E x \in Items \cup {NoItem} : item' = [item EXCEPT ![r] = x]
           /\ at'[r] # "idle" => item'[r] \in Items
           /\ failed' \in [Renders -> {"no", "load", "limit", "context"}]
<1>1. CASE Proceed(r)
  <2>1. CASE item[r] \in Identities
    <3>1. KeyOf[item[r]] \in Items
      BY <2>1, ChargeAssumption DEF Items
    <3>2. item[r] \notin Keys
      BY <2>1, ItemAssumption
    <3> QED
      BY <1>1, <3>1, <3>2 DEF Proceed, LeaveLoop, Typed, Elsewhere
  <2>2. CASE item[r] \notin Identities
    <3>1. PICK how \in {"no", "limit"} :
            LeaveLoop(r, "idle", NoItem) /\ (UNCHANGED failed \/ failed' = [failed EXCEPT ![r] = how])
      BY <1>1, <2>2 DEF Proceed, Fail
    <3>2. at' = [at EXCEPT ![r] = "idle"] /\ item' = [item EXCEPT ![r] = NoItem]
      BY <3>1 DEF LeaveLoop
    <3>3. failed' \in [Renders -> {"no", "load", "limit", "context"}]
      BY <3>1 DEF Typed
    <3> QED
      BY <3>2, <3>3 DEF Typed, Elsewhere
  <2> QED
    BY <2>1, <2>2
<1>2. CASE \E how \in {"context", "limit", "load"} : Fail(r, how)
  <2>1. PICK how \in {"context", "limit", "load"} :
          /\ at' = [at EXCEPT ![r] = "idle"] /\ item' = [item EXCEPT ![r] = NoItem]
          /\ failed' = [failed EXCEPT ![r] = how]
    BY <1>2 DEF Fail, LeaveLoop
  <2>2. failed' \in [Renders -> {"no", "load", "limit", "context"}]
    BY <2>1 DEF Typed
  <2> QED
    BY <2>1, <2>2 DEF Typed, Elsewhere
<1> QED
  BY <1>1, <1>2

\* Nothing happens to the lists.
LEMMA ListsStay == ASSUME Lists, UNCHANGED cacheVars PROVE Lists' /\ Loses
BY DEF Lists, Loses, cacheVars

\* A lookup, a wait or a slot given back leaves r outside the section with a slot.
LEMMA OutsideStep ==
    ASSUME IInv, NEW r \in Renders,
           Look(r) \/ NoSlot(r) \/ Leave(r) \/ Wait(r)
    PROVE  IInv'
<1> USE DEF IInv
<1>1. item[r] \in Items /\ at[r] # "load"
  BY DEF Placed, Look, NoSlot, Leave, Wait
<1>2. item = [item EXCEPT ![r] = item[r]]
  BY DEF Typed
<1>3. CASE Look(r)
  <2>1. CASE Hit(r) /\ Proceed(r)
    <3>1. Lists' /\ Loses
      BY <2>1, <1>1, HitStep
    <3>2. Aside(r)
      BY <1>1, <1>3, <2>1, <3>1, LeavingLoop DEF Aside, Look, limitVars
    <3> QED
      BY <1>1, <3>2, AsideStep
  <2>2. CASE (\E how \in {"context", "limit", "load"} : Fail(r, how)) /\ UNCHANGED cacheVars
    <3>1. Aside(r)
      BY <1>1, <1>3, <2>2, LeavingLoop, ListsStay DEF Aside, Look, limitVars
    <3> QED
      BY <1>1, <3>1, AsideStep
  <2>3. CASE Join(r, "wait") \/ (MoveTo(r, "slot") /\ UNCHANGED cacheVars)
    <3>1. /\ \E place \in Elsewhere : at' = [at EXCEPT ![r] = place]
          /\ UNCHANGED <<item, failed, cacheVars>>
      BY <2>3 DEF Join, MoveTo, Elsewhere, cacheVars
    <3>2. \E x \in Items \cup {NoItem} : item' = [item EXCEPT ![r] = x]
      BY <1>1, <1>2, <3>1
    <3>3. Aside(r)
      BY <1>1, <1>3, <3>1, <3>2, ListsStay DEF Aside, Look, limitVars, Typed
    <3> QED
      BY <1>1, <3>3, AsideStep
  <2> QED
    BY <1>3, <2>1, <2>2, <2>3 DEF Look
<1>4. CASE NoSlot(r)
  <2>1. Aside(r)
    BY <1>1, <1>4, LeavingLoop, ListsStay DEF Aside, NoSlot, limitVars
  <2> QED
    BY <1>1, <2>1, AsideStep
<1>5. CASE Leave(r)
  <2>1. Lists' /\ Loses /\ UNCHANGED <<flight, maxLoads>> /\ slots' = slots \ {r}
    BY <1>5, ListsStay DEF Leave, limitVars
  <2>2. CASE Proceed(r) \/ \E how \in {"context", "limit", "load"} : Fail(r, how)
    <3>1. Aside(r)
      BY <1>1, <2>1, <2>2, LeavingLoop DEF Aside
    <3> QED
      BY <1>1, <3>1, AsideStep
  <2>3. CASE MoveTo(r, "wait")
    <3>1. \E place \in Elsewhere : at' = [at EXCEPT ![r] = place]
      BY <2>3 DEF MoveTo, Elsewhere
    <3>2. \E x \in Items \cup {NoItem} : item' = [item EXCEPT ![r] = x]
      BY <1>1, <1>2, <2>3 DEF MoveTo
    <3>3. Aside(r)
      BY <1>1, <2>1, <2>3, <3>1, <3>2 DEF Aside, MoveTo, Typed
    <3> QED
      BY <1>1, <3>3, AsideStep
  <2> QED
    BY <1>5, <2>2, <2>3 DEF Leave
<1>6. CASE Wait(r)
  <2>1. Lists' /\ Loses /\ UNCHANGED <<flight, maxLoads, slots>>
    BY <1>6, ListsStay DEF Wait, limitVars
  <2>2. CASE Proceed(r) \/ \E how \in {"context", "limit", "load"} : Fail(r, how)
    <3>1. Aside(r)
      BY <1>1, <2>1, <2>2, LeavingLoop DEF Aside
    <3> QED
      BY <1>1, <3>1, AsideStep
  <2>3. CASE LeaveLoop(r, "look", item[r]) /\ UNCHANGED failed
    <3>1. Aside(r)
      BY <1>1, <2>1, <2>3 DEF Aside, LeaveLoop, Elsewhere, Typed
    <3> QED
      BY <1>1, <3>1, AsideStep
  <2> QED
    BY <1>6, <2>2, <2>3 DEF Wait
<1> QED
  BY <1>3, <1>4, <1>5, <1>6

LEMMA CallStep ==
    ASSUME IInv, NEW r \in Renders,
           (\E i \in Identities : Call(r, i)) \/ Cancel(r)
    PROVE  IInv'
<1> USE DEF IInv
<1>1. CASE \E i \in Identities : Call(r, i)
  <2>1. at[r] # "load"
    BY <1>1 DEF Call
  <2>2. Aside(r)
    BY <1>1, ListsStay DEF Call, Aside, Elsewhere, Typed, Items
  <2> QED
    BY <2>1, <2>2, AsideStep
<1>2. CASE Cancel(r)
  BY <1>2 DEF Cancel, Typed, Placed, Lists, LoadsAdmitted, Cached, cacheVars, limitVars
<1> QED
  BY <1>1, <1>2

\* acquireLoad admits one more render.
LEMMA TakeSlotStep ==
    ASSUME IInv, NEW r \in Renders, TakeSlot(r)
    PROVE  IInv'
<1> USE DEF IInv
<1>1. /\ at' = [at EXCEPT ![r] = "again"] /\ slots' = slots \cup {r}
      /\ UNCHANGED <<item, failed, flight, lru, maxLoads>>
      /\ at[r] = "slot" /\ Cardinality(slots) < maxLoads
  BY DEF TakeSlot, MoveTo, cacheVars, limitVars
<1>2. IsFiniteSet(slots') /\ Cardinality(slots') <= maxLoads'
  <2>1. /\ IsFiniteSet(slots \cup {r})
        /\ Cardinality(slots \cup {r}) = Cardinality(slots)
           \/ Cardinality(slots \cup {r}) = Cardinality(slots) + 1
    BY FS_AddElement DEF Typed
  <2>2. Cardinality(slots) \in Nat /\ maxLoads \in Nat /\ slots' = slots \cup {r}
        /\ Cardinality(slots) < maxLoads /\ maxLoads' = maxLoads
    BY <1>1, FS_CardinalityType DEF Typed
  <2> QED
    BY <2>1, <2>2
<1>3. Typed'
  BY <1>1, <1>2 DEF Typed
<1>4. Placed'
  BY <1>1 DEF Placed, Typed
<1>5. Lists'
  BY <1>1 DEF Lists
<1>6. LoadsAdmitted'
  BY <1>1, <1>2 DEF LoadsAdmitted, Typed, Cached
<1> QED
  BY <1>3, <1>4, <1>5, <1>6

\* The second look: a hit, another's flight, or a flight of r's own.
LEMMA LookAgainStep ==
    ASSUME IInv, NEW r \in Renders, LookAgain(r)
    PROVE  IInv'
<1> USE DEF IInv
<1>1. /\ at[r] = "again" /\ item[r] \in Items /\ r \in slots
      /\ UNCHANGED <<item, failed, slots, maxLoads>>
  BY DEF LookAgain, Placed, Join, MoveTo, limitVars
<1>2. CASE flight' = flight /\ (Hit(r) \/ UNCHANGED cacheVars)
  <2>1. /\ \E place \in {"leave", "yield"} : at' = [at EXCEPT ![r] = place]
        /\ Lists' /\ Loses
    <3>1. Lists' /\ Loses
      BY <1>1, <1>2, HitStep, ListsStay
    <3>2. ~(flight' = [flight EXCEPT ![item[r]] = r] /\ flight[item[r]] = NoRender)
      <4>1. r # NoRender
        BY ItemAssumption
      <4> QED
        BY <1>1, <1>2, <4>1 DEF Typed
    <3>3. at' = [at EXCEPT ![r] = "leave"] \/ at' = [at EXCEPT ![r] = "yield"]
      BY <3>2 DEF LookAgain, Join
    <3> QED
      BY <3>1, <3>3
  <2>2. Typed' /\ Placed'
    BY <1>1, <1>2, <2>1 DEF Typed, Placed
  <2>3. \A s \in Renders : at'[s] = "load" =>
            s \in slots' /\ flight'[item'[s]] = s /\ ~Cached(item[s])'
    <3> SUFFICES ASSUME NEW s \in Renders, at'[s] = "load"
                 PROVE  s \in slots' /\ flight'[item'[s]] = s /\ ~Cached(item[s])'
      OBVIOUS
    <3>1. at[s] = "load" /\ item'[s] = item[s]
      BY <1>1, <2>1 DEF Typed
    <3>2. s \in slots /\ flight[item[s]] = s /\ ~Cached(item[s])
      BY <3>1 DEF LoadsAdmitted
    <3> QED
      BY <1>1, <1>2, <2>1, <3>1, <3>2 DEF Loses, Cached, TableOf, Tables
  <2>4. LoadsAdmitted'
    BY <1>1, <1>2, <2>1, <2>3 DEF LoadsAdmitted, Typed
  <2> QED
    BY <2>1, <2>2, <2>4
<1>3. CASE /\ ~Cached(item[r]) /\ flight[item[r]] = NoRender
           /\ flight' = [flight EXCEPT ![item[r]] = r]
           /\ at' = [at EXCEPT ![r] = "load"] /\ UNCHANGED cacheVars
  <2>1. Typed' /\ Placed' /\ Lists'
    BY <1>1, <1>3, ListsStay DEF Typed, Placed
  <2>2. \A s \in Renders : at'[s] = "load" =>
            s \in slots' /\ flight'[item'[s]] = s /\ ~Cached(item[s])'
    <3> SUFFICES ASSUME NEW s \in Renders, at'[s] = "load"
                 PROVE  s \in slots' /\ flight'[item'[s]] = s /\ ~Cached(item[s])'
      OBVIOUS
    <3>1. CASE s = r
      BY <1>1, <1>3, <3>1 DEF Typed, Cached, cacheVars
    <3>2. CASE s # r
      <4>1. at[s] = "load" /\ flight[item[s]] = s /\ s \in slots /\ ~Cached(item[s])
        BY <1>3, <3>2 DEF Typed, LoadsAdmitted
      <4>2. item[s] # item[r]
        BY <1>3, <4>1, ItemAssumption
      <4> QED
        BY <1>1, <1>3, <4>1, <4>2 DEF Typed, Cached, cacheVars
    <3> QED
      BY <3>1, <3>2
  <2>3. \A x \in Items : flight'[x] # NoRender =>
            at'[flight'[x]] = "load" /\ item'[flight'[x]] = x
    BY <1>1, <1>3 DEF Typed, LoadsAdmitted
  <2>4. LoadsAdmitted'
    BY <1>1, <2>2, <2>3 DEF LoadsAdmitted
  <2> QED
    BY <2>1, <2>4
<1> QED
  BY <1>2, <1>3 DEF LookAgain, Join, MoveTo, cacheVars

\* The flight is gone when its value is cached.
LEMMA LoadStep ==
    ASSUME IInv, NEW r \in Renders, NEW ok \in BOOLEAN, Load(r, ok)
    PROVE  IInv'
<1> USE DEF IInv
<1> DEFINE x == item[r]
<1>1. /\ at[r] = "load" /\ x \in Items /\ r \in slots /\ flight[x] = r /\ ~Cached(x)
      /\ at' = [at EXCEPT ![r] = "leave"] /\ flight' = [flight EXCEPT ![x] = NoRender]
      /\ UNCHANGED <<item, failed, slots, maxLoads>>
  BY DEF Load, Placed, LoadsAdmitted, limitVars
<1>2. Lists' /\ OnlyAdds(x)
  <2>1. CASE ok
    BY <2>1, <1>1, InsertStep DEF Load
  <2>2. CASE ~ok
    <3>1. Lists' /\ Loses
      BY <2>2, ListsStay DEF Load
    <3> QED
      BY <3>1 DEF Loses, OnlyAdds
  <2> QED
    BY <2>1, <2>2
<1>3. Typed' /\ Placed'
  BY <1>1 DEF Typed, Placed
<1>4. \A s \in Renders : at'[s] = "load" =>
          s \in slots' /\ flight'[item'[s]] = s /\ ~Cached(item[s])'
  <2> SUFFICES ASSUME NEW s \in Renders, at'[s] = "load"
               PROVE  s \in slots' /\ flight'[item'[s]] = s /\ ~Cached(item[s])'
    OBVIOUS
  <2>1. s # r /\ at[s] = "load"
    BY <1>1 DEF Typed
  <2>2. flight[item[s]] = s /\ s \in slots /\ ~Cached(item[s]) /\ item[s] \in Items
    BY <2>1 DEF LoadsAdmitted, Placed
  <2>3. item[s] # x
    BY <1>1, <2>1, <2>2
  <2>4. ~Cached(item[s])'
    <3>1. item'[s] = item[s] /\ TableOf(item[s]) \in Tables
      BY <1>1 DEF TableOf, Tables
    <3> QED
      BY <1>2, <2>2, <2>3, <3>1 DEF OnlyAdds, Added, Cached, TableOf
  <2> QED
    BY <1>1, <2>2, <2>3, <2>4 DEF Typed
<1>5. \A y \in Items : flight'[y] # NoRender =>
          at'[flight'[y]] = "load" /\ item'[flight'[y]] = y
  BY <1>1 DEF Typed, LoadsAdmitted
<1>6. LoadsAdmitted'
  BY <1>1, <1>4, <1>5 DEF LoadsAdmitted
<1> QED
  BY <1>2, <1>3, <1>6

-----------------------------------------------------------------------------
(* Theorems                                                                *)

LEMMA InitIInv == Init => IInv
<1> SUFFICES ASSUME Init PROVE IInv
  OBVIOUS
<1>1. IsFiniteSet({}) /\ Cardinality({}) = 0
  BY FS_EmptySet
<1>2. Typed /\ Placed
  BY <1>1, LimitAssumption DEF Init, Typed, Placed
<1>3. Lists
  <2>1. \A t \in Tables : lru[t] = <<>>
    BY DEF Init
  <2>2. \A t \in Tables : List(lru[t], Items) /\ Len(lru[t]) <= MaxCacheEntries
    BY <2>1, EmptyList, LimitAssumption
  <2>3. lru \in [Tables -> Seq(Items)]
    BY <2>2 DEF Init, List
  <2> QED
    BY <2>2, <2>3 DEF Lists
<1>4. LoadsAdmitted
  BY <1>1, LimitAssumption DEF Init, LoadsAdmitted
<1> QED
  BY <1>2, <1>3, <1>4 DEF IInv

LEMMA IInvStep == IInv /\ [Next]_vars => IInv'
<1> SUFFICES ASSUME IInv, [Next]_vars PROVE IInv'
  OBVIOUS
<1>1. CASE Next
  <2>1. PICK r \in Renders :
          (\E i \in Identities : Call(r, i)) \/ Cancel(r) \/ Step(r)
    BY <1>1 DEF Next
  <2>2. CASE (\E i \in Identities : Call(r, i)) \/ Cancel(r)
    BY <2>2, CallStep
  <2>3. CASE Look(r) \/ NoSlot(r) \/ Leave(r) \/ Wait(r)
    BY <2>3, OutsideStep
  <2>4. CASE TakeSlot(r)
    BY <2>4, TakeSlotStep
  <2>5. CASE LookAgain(r)
    BY <2>5, LookAgainStep
  <2>6. CASE \E ok \in BOOLEAN : Load(r, ok)
    BY <2>6, LoadStep
  <2> QED
    BY <2>1, <2>2, <2>3, <2>4, <2>5, <2>6 DEF Step
<1>2. CASE UNCHANGED vars
  BY <1>2 DEF IInv, Typed, Placed, Lists, LoadsAdmitted, Cached, vars, callVars,
              cacheVars, limitVars
<1> QED
  BY <1>1, <1>2

LEMMA IInvAlways == Spec => []IInv
BY InitIInv, IInvStep, PTL DEF Spec

-----------------------------------------------------------------------------
(* The bytes                                                               *)

\* What is charged for the entries of a list.
Weight(q) == SumFunctionOnSet(Charge, Range(q))

LEMMA ListRange ==
    ASSUME NEW S, NEW q, List(q, S)
    PROVE  IsFiniteSet(Range(q)) /\ Range(q) \subseteq S
<1>1. DOMAIN q = 1..Len(q) /\ Len(q) \in Nat /\ \A i \in 1..Len(q) : q[i] \in S
  BY DEF List
<1>2. IsFiniteSet(DOMAIN q)
  BY <1>1, FS_Interval
<1>3. q \in Surjection(DOMAIN q, Range(q))
  BY <1>1 DEF Surjection, Range, List
<1> QED
  BY <1>1, <1>2, <1>3, FS_Surjection DEF Range

\* The elements of a list are charged once each.
LEMMA TotalOfList ==
    ASSUME NEW S, NEW q, List(q, S), NEW C, \A x \in S : C[x] \in Int
    PROVE  SumFunction([k \in DOMAIN q |-> C[q[k]]]) = SumFunctionOnSet(C, Range(q))
<1> DEFINE e == [k \in DOMAIN q |-> C[q[k]]]
<1>1. DOMAIN q = 1..Len(q) /\ Len(q) \in Nat /\ \A i \in 1..Len(q) : q[i] \in S
  BY DEF List
<1>2. IsFiniteSet(DOMAIN q)
  BY <1>1, FS_Interval
<1>3. \A i \in DOMAIN q : e[i] = C[q[i]] /\ e[i] \in Int
  BY <1>1
<1>4. \A i, j \in DOMAIN q : q[i] = q[j] => i = j
  BY DEF List, IsInjective
<1>5. {q[i] : i \in DOMAIN q} = Range(q) /\ DOMAIN e = DOMAIN q
  BY DEF Range
<1> HIDE DEF e
<1>6. SumFunctionOnSet(e, DOMAIN q) = SumFunctionOnSet(C, Range(q))
  BY <1>2, <1>3, <1>4, <1>5, SumReindex
<1> QED
  BY <1>5, <1>6 DEF SumFunction, e

LEMMA TotalIsWeight ==
    ASSUME NEW q, List(q, Items)
    PROVE  Total(q, ChargeOf) = Weight(q) /\ Weight(q) \in Nat
<1>1. \A x \in Items : Charge[x] \in Nat /\ Charge[x] \in Int
  BY ChargeAssumption
<1>2. Total(q, ChargeOf) = SumFunction([k \in DOMAIN q |-> Charge[q[k]]])
  BY DEF Total, ChargeOf
<1>3. Weight(q) \in Nat
  BY <1>1, ListRange, SumNat DEF Weight
<1> QED
  BY <1>1, <1>2, <1>3, TotalOfList DEF Weight

LEMMA WeightEmpty == Weight(<<>>) = 0
BY EmptyList, SumEmpty DEF Weight

LEMMA WeightPushed ==
    ASSUME NEW q, List(q, Items), NEW x \in Items, x \notin Range(q)
    PROVE  Weight(<<x>> \o q) = Charge[x] + Weight(q)
<1>1. \A y \in Range(q) \cup {x} : Charge[y] \in Int
  BY ListRange, ChargeAssumption
<1> QED
  BY <1>1, ListRange, Pushed, SumAdd DEF Weight

LEMMA WeightEvicted ==
    ASSUME NEW q, List(q, Items), NEW p, Shortened(q, p) \/ p = <<>>
    PROVE  Weight(p) <= Weight(q)
<1>1. \A y \in Range(q) : Charge[y] \in Nat
  BY ListRange, ChargeAssumption
<1> QED
  BY <1>1, ListRange, EvictedList, SumPart DEF Weight

BytesInv ==
    /\ bytes = [t \in Tables |-> Weight(lru[t])]
    /\ Weight(lru["memo"]) + Weight(lru["asset"]) <= MaxCacheBytes

LEMMA BytesAre ==
    ASSUME Lists, BytesInv, NEW t \in Tables, NEW q, List(q, Items)
    PROVE  Bytes(t, q) = Weight(q)
<1>1. bytes[t] = Weight(lru[t]) /\ List(lru[t], Items)
  BY DEF BytesInv, Lists
<1>2. /\ Total(lru[t], ChargeOf) = Weight(lru[t]) /\ Weight(lru[t]) \in Nat
      /\ Total(q, ChargeOf) = Weight(q) /\ Weight(q) \in Nat
  BY <1>1, TotalIsWeight
<1> QED
  BY <1>1, <1>2 DEF Bytes

LEMMA FitsIs ==
    ASSUME Lists, BytesInv, NEW x \in Items, NEW memos, NEW assets,
           List(memos, Items), List(assets, Items)
    PROVE  Fits(x, memos, assets)
             <=> Charge[x] + Weight(memos) + Weight(assets) <= MaxCacheBytes
<1>1. Bytes("memo", memos) = Weight(memos) /\ Bytes("asset", assets) = Weight(assets)
  BY BytesAre DEF Tables
<1>2. Weight(memos) \in Nat /\ Weight(assets) \in Nat /\ Charge[x] \in Nat
      /\ MaxCacheBytes \in Nat
  BY TotalIsWeight, ChargeAssumption, LimitAssumption
<1> QED
  BY <1>1, <1>2 DEF Fits

\* What EvictUntil leaves fits, unless nothing would.
LEMMA MemosMakeRoom ==
    ASSUME NEW x, NEW assets, NEW q, q \in Seq(Items)
    PROVE  \/ Fits(x, MemosLeft(x, q, assets), assets)
           \/ MemosLeft(x, q, assets) = <<>> /\ ~Fits(x, q, assets)
<1> DEFINE fits == {n \in 0..Len(q) : Fits(x, SubSeq(q, 1, n), assets)}
<1>1. MemosLeft(x, q, assets) = IF fits = {} THEN <<>> ELSE SubSeq(q, 1, Max(fits))
  BY DEF MemosLeft, EvictUntil
<1>2. fits # {} => Max(fits) \in fits
  <2>1. Len(q) \in Nat /\ fits \in SUBSET (0..Len(q))
    OBVIOUS
  <2> HIDE DEF fits
  <2> QED
    BY <2>1, MaxIn
<1>3. CASE fits # {}
  BY <1>1, <1>2, <1>3
<1>4. CASE fits = {}
  <2>1. SubSeq(q, 1, Len(q)) = q /\ Len(q) \in 0..Len(q)
    OBVIOUS
  <2> QED
    BY <1>1, <1>4, <2>1
<1> QED
  BY <1>3, <1>4

LEMMA AssetsMakeRoom ==
    ASSUME NEW x, NEW memos, NEW q, q \in Seq(Items)
    PROVE  \/ Fits(x, memos, AssetsLeft(x, memos, q))
           \/ AssetsLeft(x, memos, q) = <<>> /\ ~Fits(x, memos, <<>>)
<1> DEFINE fits == {n \in 0..Len(q) : Fits(x, memos, SubSeq(q, 1, n))}
<1>1. AssetsLeft(x, memos, q) = IF fits = {} THEN <<>> ELSE SubSeq(q, 1, Max(fits))
  BY DEF AssetsLeft, EvictUntil
<1>2. fits # {} => Max(fits) \in fits
  <2>1. Len(q) \in Nat /\ fits \in SUBSET (0..Len(q))
    OBVIOUS
  <2> HIDE DEF fits
  <2> QED
    BY <2>1, MaxIn
<1>3. CASE fits # {}
  BY <1>1, <1>2, <1>3
<1>4. CASE fits = {}
  <2>1. SubSeq(q, 1, 0) = <<>> /\ 0 \in 0..Len(q)
    OBVIOUS
  <2> QED
    BY <1>1, <1>4, <2>1
<1> QED
  BY <1>3, <1>4

LEMMA KeepBytes ==
    ASSUME Lists, BytesInv, NEW memos, NEW assets, Keep(memos, assets),
           List(memos, Items), List(assets, Items),
           Weight(memos) + Weight(assets) <= MaxCacheBytes
    PROVE  BytesInv'
<1>1. lru' = [memo |-> memos, asset |-> assets]
      /\ bytes' = [memo |-> Bytes("memo", memos), asset |-> Bytes("asset", assets)]
  BY DEF Keep
<1>2. Bytes("memo", memos) = Weight(memos) /\ Bytes("asset", assets) = Weight(assets)
  BY BytesAre DEF Tables
<1>3. Weight(lru["memo"])' = Weight(memos) /\ Weight(lru["asset"])' = Weight(assets)
  BY <1>1 DEF Weight
<1>4. bytes' = [t \in Tables |-> IF t = "memo" THEN Weight(memos) ELSE Weight(assets)]
  BY <1>1, <1>2 DEF Tables
<1>5. bytes' = [t \in Tables |-> Weight(lru[t])']
  BY <1>3, <1>4 DEF Tables
<1> QED
  BY <1>3, <1>5 DEF BytesInv

\* An insertion frees the bytes it takes: memos go before assets, and all of both
\* leave room for an entry that is within the limit.
LEMMA InsertBytes ==
    ASSUME Lists, BytesInv, NEW x \in Items, ~Cached(x), Insert(x)
    PROVE  BytesInv'
<1>1. List(lru["memo"], Items) /\ List(lru["asset"], Items)
  BY DEF Lists, Tables
<1>2. ASSUME NEW t \in Tables
      PROVE  /\ Shortened(lru[t], Counted(t)) /\ List(Counted(t), Items)
             /\ Range(Counted(t)) \subseteq Range(lru[t])
             /\ Counted(t) \in Seq(Items) /\ Len(Counted(t)) \in Nat
  BY CountedList, EvictedList DEF Lists, List
<1>3. Charge[x] \in Nat /\ MaxCacheBytes \in Nat
  BY ChargeAssumption, LimitAssumption
<1>4. CASE Charge[x] > MaxCacheBytes
  BY <1>4 DEF Insert, cacheVars, BytesInv, Weight
<1>5. CASE ~(Charge[x] > MaxCacheBytes) /\ x \in Identities
  <2> DEFINE memos == MemosLeft(x, Counted("memo"), lru["asset"])
  <2>1. /\ Shortened(lru["memo"], Counted("memo")) /\ List(Counted("memo"), Items)
        /\ Range(Counted("memo")) \subseteq Range(lru["memo"])
        /\ Len(Counted("memo")) \in Nat
    BY <1>2 DEF Tables
  <2>2. Shortened(Counted("memo"), memos) \/ memos = <<>>
    BY <2>1, FittedMemos
  <2>3. IF Fits(x, memos, lru["asset"])
        THEN Keep(<<x>> \o memos, lru["asset"]) ELSE Keep(memos, lru["asset"])
    BY <1>5 DEF Insert, InsertMemo
  <2> HIDE DEF memos
  <2>4. /\ List(memos, Items) /\ Range(memos) \subseteq Range(lru["memo"])
        /\ Weight(memos) <= Weight(Counted("memo"))
    BY <2>1, <2>2, EvictedList, WeightEvicted
  <2>5. Weight(Counted("memo")) <= Weight(lru["memo"])
    BY <1>1, <2>1, WeightEvicted
  <2>6. /\ Weight(memos) \in Nat /\ Weight(Counted("memo")) \in Nat
        /\ Weight(lru["memo"]) \in Nat /\ Weight(lru["asset"]) \in Nat
    BY <1>1, <2>1, <2>4, TotalIsWeight
  <2>7. CASE Fits(x, memos, lru["asset"])
    <3>1. x \notin Range(memos)
      BY <1>5, <2>4 DEF Cached, TableOf
    <3>2. List(<<x>> \o memos, Items) /\ Weight(<<x>> \o memos) = Charge[x] + Weight(memos)
      BY <2>4, <3>1, Pushed, WeightPushed
    <3>3. Charge[x] + Weight(memos) + Weight(lru["asset"]) <= MaxCacheBytes
      BY <1>1, <2>4, <2>7, FitsIs
    <3> QED
      BY <1>1, <2>3, <2>7, <3>2, <3>3, KeepBytes
  <2>8. CASE ~Fits(x, memos, lru["asset"])
    <3>1. Weight(lru["memo"]) + Weight(lru["asset"]) <= MaxCacheBytes
      BY DEF BytesInv
    <3>2. Weight(memos) + Weight(lru["asset"]) <= MaxCacheBytes
      BY <1>3, <2>4, <2>5, <2>6, <3>1
    <3> QED
      BY <1>1, <2>3, <2>4, <2>8, <3>2, KeepBytes
  <2> QED
    BY <2>7, <2>8
<1>6. CASE ~(Charge[x] > MaxCacheBytes) /\ x \notin Identities
  <2> DEFINE fewer == Counted("asset")
             memos == MemosLeft(x, lru["memo"], fewer)
             assets == AssetsLeft(x, memos, fewer)
  <2>1. /\ List(fewer, Items) /\ fewer \in Seq(Items)
        /\ Range(fewer) \subseteq Range(lru["asset"]) /\ Len(fewer) \in Nat
    BY <1>2 DEF Tables
  <2>2. Keep(memos, <<x>> \o assets)
    BY <1>6 DEF Insert, InsertAsset
  <2> HIDE DEF fewer
  <2>3. /\ Shortened(lru["memo"], memos) \/ memos = <<>>
        /\ Fits(x, memos, fewer) \/ memos = <<>>
    BY <1>1, FittedMemos, MemosMakeRoom DEF List
  <2> HIDE DEF memos
  <2>4. /\ Shortened(fewer, assets) \/ assets = <<>>
        /\ Fits(x, memos, assets) \/ ~Fits(x, memos, <<>>)
    BY <2>1, FittedAssets, AssetsMakeRoom
  <2> HIDE DEF assets
  <2>5. List(memos, Items) /\ List(assets, Items) /\ List(<<>>, Items)
        /\ Range(assets) \subseteq Range(fewer)
    BY <1>1, <2>1, <2>3, <2>4, EvictedList, EmptyList
  <2>6. /\ Weight(memos) \in Nat /\ Weight(fewer) \in Nat /\ Weight(assets) \in Nat
        /\ Weight(<<>>) = 0
    BY <2>1, <2>5, TotalIsWeight, WeightEmpty
  <2>7. Charge[x] + Weight(memos) <= MaxCacheBytes
    <3>1. CASE Fits(x, memos, fewer)
      <4>1. Charge[x] + Weight(memos) + Weight(fewer) <= MaxCacheBytes
        BY <2>1, <2>5, <3>1, FitsIs
      <4> QED
        BY <1>3, <2>6, <4>1
    <3>2. CASE memos = <<>>
      <4>1. Weight(memos) = 0
        BY <3>2, WeightEmpty
      <4> QED
        BY <1>3, <1>6, <4>1
    <3> QED
      BY <2>3, <3>1, <3>2
  <2>8. Fits(x, memos, <<>>)
    <3>1. Charge[x] + Weight(memos) + Weight(<<>>) <= MaxCacheBytes
      BY <1>3, <2>6, <2>7
    <3> QED
      BY <2>5, <3>1, FitsIs
  <2>9. Charge[x] + Weight(memos) + Weight(assets) <= MaxCacheBytes
    BY <2>4, <2>5, <2>8, FitsIs
  <2>10. x \notin Range(assets)
    BY <1>6, <2>1, <2>5 DEF Cached, TableOf
  <2>11. List(<<x>> \o assets, Items) /\ Weight(<<x>> \o assets) = Charge[x] + Weight(assets)
    BY <2>5, <2>10, Pushed, WeightPushed
  <2>12. Weight(memos) + Weight(<<x>> \o assets) <= MaxCacheBytes
    BY <1>3, <2>6, <2>9, <2>11
  <2> QED
    BY <2>2, <2>5, <2>11, <2>12, KeepBytes
<1> QED
  BY <1>4, <1>5, <1>6

\* A hit changes the order of a list only.
LEMMA HitBytes ==
    ASSUME Lists, BytesInv, NEW r \in Renders, item[r] \in Items, Hit(r)
    PROVE  BytesInv'
<1> DEFINE t == TableOf(item[r])
<1>1. t \in Tables /\ item[r] \in Range(lru[t])
  BY DEF Hit, Cached, TableOf, Tables
<1>2. lru' = [lru EXCEPT ![t] = Touched(lru[t], item[r])] /\ bytes' = bytes
  BY DEF Hit
<1>3. Range(Touched(lru[t], item[r])) = Range(lru[t])
  BY <1>1, TouchedList DEF Lists
<1> HIDE DEF t
<1>4. \A u \in Tables : lru'[u] = IF u = t THEN Touched(lru[t], item[r]) ELSE lru[u]
  BY <1>1, <1>2 DEF Lists
<1>5. \A u \in Tables : Range(lru'[u]) = Range(lru[u])
  BY <1>3, <1>4
<1>6. \A u \in Tables : Weight(lru'[u]) = Weight(lru[u])
  BY <1>5 DEF Weight
<1> QED
  BY <1>2, <1>6 DEF BytesInv, Tables

LEMMA BytesStep == IInv /\ BytesInv /\ [Next]_vars => BytesInv'
<1> SUFFICES ASSUME IInv, BytesInv, [Next]_vars PROVE BytesInv'
  OBVIOUS
<1>1. CASE UNCHANGED cacheVars
  BY <1>1 DEF cacheVars, BytesInv, Weight
<1>2. ASSUME NEW r \in Renders, Hit(r), at[r] # "idle" PROVE BytesInv'
  BY <1>2, HitBytes DEF IInv, Placed
<1>3. ASSUME NEW r \in Renders, NEW ok \in BOOLEAN, Load(r, ok) PROVE BytesInv'
  <2>1. item[r] \in Items /\ ~Cached(item[r])
    BY <1>3 DEF Load, IInv, Placed, LoadsAdmitted
  <2>2. Insert(item[r]) \/ UNCHANGED cacheVars
    BY <1>3 DEF Load
  <2> QED
    BY <1>1, <2>1, <2>2, InsertBytes DEF IInv
<1>4. CASE UNCHANGED vars
  BY <1>1, <1>4 DEF vars
<1>5. ASSUME NEW r \in Renders,
             (\E i \in Identities : Call(r, i)) \/ Cancel(r) \/ Step(r)
      PROVE  BytesInv'
  BY <1>1, <1>2, <1>3, <1>5
     DEF Call, Cancel, Step, Look, TakeSlot, NoSlot, LookAgain, Leave, Wait, Join
<1> QED
  BY <1>4, <1>5 DEF Next

LEMMA InitBytes == Init => BytesInv
<1> SUFFICES ASSUME Init PROVE BytesInv
  OBVIOUS
<1>1. \A t \in Tables : lru[t] = <<>>
  BY DEF Init
<1>2. bytes = [t \in Tables |-> 0] /\ "memo" \in Tables /\ "asset" \in Tables
  BY DEF Init, Tables
<1> QED
  BY <1>1, <1>2, WeightEmpty, LimitAssumption DEF BytesInv

-----------------------------------------------------------------------------
(* Type correctness                                                        *)

\* What the invariant above does not say of the types.
RestTyped ==
    /\ cancelled \subseteq Renders
    /\ owner \in [Renders -> Renders \cup {NoRender}]
    /\ told \in [Renders -> {"nothing", "value", "error"}]
    /\ maxLoads \in LoadLimits /\ calls \in 0..MaxCalls

Apart == \A t \in Tables : Range(lru[t]) \subseteq {x \in Items : TableOf(x) = t}

LEMMA LeavingTypes ==
    ASSUME RestTyped, NEW r \in Renders,
           Proceed(r) \/ (\E how \in {"context", "limit", "load"} : Fail(r, how))
           \/ (\E place \in {"look"}, x \in Items : LeaveLoop(r, place, x))
    PROVE  /\ cancelled' \subseteq Renders
           /\ owner' \in [Renders -> Renders \cup {NoRender}]
           /\ told' \in [Renders -> {"nothing", "value", "error"}]
<1>1. PICK place, x : LeaveLoop(r, place, x)
  BY DEF Proceed, Fail
<1> QED
  BY <1>1 DEF LeaveLoop, RestTyped

LEMMA RestTypedStep == IInv /\ RestTyped /\ [Next]_vars => RestTyped'
<1> SUFFICES ASSUME IInv, RestTyped, [Next]_vars PROVE RestTyped'
  OBVIOUS
<1>1. CASE UNCHANGED vars
  BY <1>1 DEF vars, callVars, limitVars, RestTyped
<1>2. ASSUME NEW r \in Renders, NEW i \in Identities, Call(r, i) PROVE RestTyped'
  <2>1. calls' = calls + 1 /\ calls < MaxCalls /\ calls \in 0..MaxCalls
        /\ UNCHANGED <<cancelled, owner, told, maxLoads>>
    BY <1>2 DEF Call, RestTyped
  <2>2. calls' \in 0..MaxCalls
    BY <2>1, LimitAssumption
  <2> QED
    BY <2>1, <2>2 DEF RestTyped
<1>3. ASSUME NEW r \in Renders, Cancel(r) PROVE RestTyped'
  BY <1>3 DEF Cancel, RestTyped, limitVars
<1> SUFFICES ASSUME NEW r \in Renders, Step(r) PROVE RestTyped'
  BY <1>1, <1>2, <1>3 DEF Next
<1>4. UNCHANGED <<maxLoads, calls>>
  BY DEF Step, Look, TakeSlot, NoSlot, LookAgain, Load, Leave, Wait, limitVars
<1>5. at[r] # "idle" => item[r] \in Items
  BY DEF IInv, Placed
<1> SUFFICES /\ cancelled' \subseteq Renders
             /\ owner' \in [Renders -> Renders \cup {NoRender}]
             /\ told' \in [Renders -> {"nothing", "value", "error"}]
  BY <1>4 DEF RestTyped
<1>6. CASE \/ Proceed(r) \/ (\E how \in {"context", "limit", "load"} : Fail(r, how))
           \/ (\E place \in {"look"}, x \in Items : LeaveLoop(r, place, x))
  BY <1>6, LeavingTypes
<1>7. CASE \E place \in {"wait", "yield"} : Join(r, place)
  <2>1. flight[item[r]] \in Renders \/ item[r] \notin Items
    BY <1>7 DEF Join, IInv, Typed
  <2>2. item[r] \in Items
    <3>1. at[r] # "idle"
      <4>1. PICK place \in {"wait", "yield"} : at' = [at EXCEPT ![r] = place]
        BY <1>7 DEF Join
      <4>2. at[r] # "idle"
        BY DEF Step, Look, TakeSlot, NoSlot, LookAgain, Load, Leave, Wait
      <4> QED
        BY <4>2
    <3> QED
      BY <1>5, <3>1
  <2>3. cancelled' = cancelled /\ told' = told
        /\ owner' = [owner EXCEPT ![r] = flight[item[r]]]
    BY <1>7 DEF Join
  <2> QED
    BY <2>1, <2>2, <2>3 DEF RestTyped
<1>8. CASE \E place \in {"slot", "again", "load", "wait"} : MoveTo(r, place)
  BY <1>8 DEF MoveTo, RestTyped
<1>9. CASE told' = [told EXCEPT ![r] = "value"] /\ UNCHANGED <<cancelled, owner>>
  BY <1>9 DEF RestTyped
<1>10. ASSUME NEW ok \in BOOLEAN, Load(r, ok)
       PROVE  /\ cancelled' \subseteq Renders
              /\ owner' \in [Renders -> Renders \cup {NoRender}]
              /\ told' \in [Renders -> {"nothing", "value", "error"}]
  BY <1>10 DEF Load, RestTyped
<1>11. CASE Look(r)
  BY <1>6, <1>7, <1>8, <1>11 DEF Look
<1>12. CASE TakeSlot(r) \/ NoSlot(r)
  BY <1>6, <1>8, <1>12 DEF TakeSlot, NoSlot
<1>13. CASE LookAgain(r)
  BY <1>7, <1>8, <1>9, <1>13 DEF LookAgain
<1>14. CASE Leave(r)
  BY <1>6, <1>8, <1>14 DEF Leave
<1>15. CASE Wait(r)
  BY <1>5, <1>6, <1>15 DEF Wait
<1> QED
  BY <1>10, <1>11, <1>12, <1>13, <1>14, <1>15 DEF Step

LEMMA ApartStep == IInv /\ Apart /\ [Next]_vars => Apart'
<1> SUFFICES ASSUME IInv, Apart, [Next]_vars PROVE Apart'
  OBVIOUS
<1>1. ASSUME NEW x \in Items, OnlyAdds(x) PROVE Apart'
  BY <1>1 DEF OnlyAdds, Added, Apart
<1>2. CASE UNCHANGED cacheVars
  BY <1>2 DEF cacheVars, Apart
<1>3. ASSUME NEW r \in Renders, Hit(r), at[r] # "idle" PROVE Apart'
  BY <1>3, HitStep DEF IInv, Placed, Loses, Apart
<1>4. ASSUME NEW r \in Renders, NEW ok \in BOOLEAN, Load(r, ok) PROVE Apart'
  <2>1. item[r] \in Items /\ ~Cached(item[r])
    BY <1>4 DEF Load, IInv, Placed, LoadsAdmitted
  <2>2. Insert(item[r]) \/ UNCHANGED cacheVars
    BY <1>4 DEF Load
  <2> QED
    BY <1>1, <1>2, <2>1, <2>2, InsertStep DEF IInv
<1>5. CASE UNCHANGED vars
  BY <1>2, <1>5 DEF vars
<1>6. ASSUME NEW r \in Renders,
             (\E i \in Identities : Call(r, i)) \/ Cancel(r) \/ Step(r)
      PROVE  Apart'
  BY <1>2, <1>3, <1>4, <1>6
     DEF Call, Cancel, Step, Look, TakeSlot, NoSlot, LookAgain, Leave, Wait, Join
<1> QED
  BY <1>5, <1>6 DEF Next

LEMMA TypesFollow == IInv /\ BytesInv /\ RestTyped /\ Apart => TypeOK
<1> SUFFICES ASSUME IInv, BytesInv, RestTyped, Apart PROVE TypeOK
  OBVIOUS
<1>1. \A t \in Tables : bytes[t] \in Int
  BY TotalIsWeight DEF IInv, Lists, BytesInv
<1> QED
  BY <1>1 DEF IInv, Typed, BytesInv, RestTyped, Apart, TypeOK

\* A session keeps its types: the entries of each table are its own, and its
\* counters are numbers.
THEOREM TypeCorrect == Spec => []TypeOK
<1>1. Init => RestTyped /\ Apart
  BY LimitAssumption DEF Init, RestTyped, Apart, Range, Tables
<1> QED
  BY <1>1, TypesFollow, InitBytes, BytesStep, InitIInv, IInvStep, RestTypedStep,
     ApartStep, PTL
     DEF Spec

-----------------------------------------------------------------------------
(* The limits                                                              *)

LEMMA LimitsFollow ==
    /\ IInv => LoadsAdmitted /\ CountsBounded
    /\ IInv /\ BytesInv => BytesBounded
<1>1. IInv => LoadsAdmitted
  BY DEF IInv
<1>2. IInv => CountsBounded
  BY DEF IInv, Lists, CountsBounded, List
<1>3. IInv /\ BytesInv => BytesBounded
  BY TotalIsWeight DEF IInv, Lists, BytesInv, BytesBounded, Tables
<1> QED
  BY <1>1, <1>2, <1>3

\* No more loads run than the session admits, none for an item that another render
\* loads or that is cached (session.go, getOrLoad and acquireLoad).
THEOREM LoadsAdmittedHolds == Spec => []LoadsAdmitted
  BY LimitsFollow, IInvAlways, PTL

\* insertLocked and insertMemoLocked keep both lists within the entry limit, and no
\* race between renders puts an entry there twice.
THEOREM CountsBoundedHolds == Spec => []CountsBounded
  BY LimitsFollow, IInvAlways, PTL

\* The byte counters of the session say what its lists hold, through every hit,
\* eviction and insertion, and together they stay within the byte limit
\* (session.go, insertLocked, insertMemoLocked, evictOldestLocked).
THEOREM BytesBoundedHolds == Spec => []BytesBounded
  BY LimitsFollow, InitBytes, BytesStep, InitIInv, IInvStep, PTL DEF Spec

\* The error of a flight stays with the render that loaded: waitForAssetFlight sends
\* the others back to their loop.
THEOREM OwnFailureHolds == Spec => OwnFailure
<1>1. IInv /\ [Next]_vars =>
        [\A r \in Renders : failed'[r] # failed[r] =>
           /\ failed'[r] = "context" => r \in cancelled
           /\ failed'[r] = "load" => r \in slots]_vars
  <2> SUFFICES ASSUME IInv, [Next]_vars, NEW r \in Renders, failed'[r] # failed[r]
               PROVE  /\ failed'[r] = "context" => r \in cancelled
                      /\ failed'[r] = "load" => r \in slots
    OBVIOUS
  <2>1. PICK s \in Renders :
          (\E i \in Identities : Call(s, i)) \/ Cancel(s) \/ Step(s)
    BY DEF Next, vars, callVars
  <2>2. CASE s = r
    <3>1. at[r] = "leave" => r \in slots
      BY DEF IInv, Placed
    <3> QED
      BY <2>1, <2>2, <3>1
         DEF Call, Cancel, Step, Look, TakeSlot, NoSlot, LookAgain, Load, Leave, Wait,
             Proceed, Fail, LeaveLoop, MoveTo, Join, IInv, Typed
  <2>3. CASE s # r
    BY <2>1, <2>3
       DEF Call, Cancel, Step, Look, TakeSlot, NoSlot, LookAgain, Load, Leave, Wait,
           Proceed, Fail, LeaveLoop, MoveTo, Join, IInv, Typed
  <2> QED
    BY <2>2, <2>3
<1> QED
  BY <1>1, IInvAlways, PTL DEF Spec, OwnFailure

-----------------------------------------------------------------------------
(* The image cache                                                         *)

EntrySize == [e \in Cache!Entries |-> Size[e.image]]
HeldBy(q) == SumFunctionOnSet(EntrySize, Range(q))

\* Every entry is the last that was put for its name, which no other has; the
\* byte counter says what the entries hold.
CacheInv ==
    /\ List(recent, Cache!Entries) /\ Len(recent) <= MaxImages
    /\ held = HeldBy(recent) /\ held <= MaxImageBytes
    /\ newest \in [Names -> SUBSET Images]
    /\ \A e \in Range(recent) : newest[e.name] = {e.image}
    /\ \A e, d \in Range(recent) : e.name = d.name => e = d

\* The operators on lists are those of the render session.
LEMMA CacheLists ==
    /\ \A q : Cache!Range(q) = Range(q)
    /\ \A q, k : Cache!RemoveAt(q, k) = RemoveAt(q, k)
    /\ \A q, x : Cache!Touched(q, x) = Touched(q, x)
    /\ \A S : Cache!Max(S) = Max(S)
  BY DEF Cache!Range, Range, Cache!RemoveAt, RemoveAt, Cache!Touched, Touched,
         Cache!Max, Max

LEMMA EntrySizes ==
    \A e \in Cache!Entries : /\ EntrySize[e] \in Nat /\ EntrySize[e] \in Int
                             /\ EntrySize[e] = Size[e.image]
  BY CacheAssumption DEF EntrySize, Cache!Entries

LEMMA HeldByIs ==
    ASSUME NEW q, List(q, Cache!Entries)
    PROVE  /\ HeldBy(q) \in Nat
           /\ Cache!Total(q, Cache!SizeOf) = HeldBy(q)
<1>1. \A e \in Cache!Entries : EntrySize[e] \in Nat /\ EntrySize[e] \in Int
                               /\ EntrySize[e] = Size[e.image]
  BY EntrySizes
<1>2. HeldBy(q) \in Nat
  BY <1>1, ListRange, SumNat DEF HeldBy
<1>3. \A k \in DOMAIN q : q[k] \in Cache!Entries
  BY DEF List
<1>4. [k \in DOMAIN q |-> Cache!SizeOf(q[k])] = [k \in DOMAIN q |-> EntrySize[q[k]]]
  BY <1>1, <1>3 DEF Cache!SizeOf
<1>5. Cache!Total(q, Cache!SizeOf) = SumFunction([k \in DOMAIN q |-> Cache!SizeOf(q[k])])
  BY DEF Cache!Total, Cache!SumFunction, SumFunction, Cache!SumFunctionOnSet,
         SumFunctionOnSet, Cache!FoldFunctionOnSet, FoldFunctionOnSet,
         Cache!MapThenFoldSet, MapThenFoldSet
<1> QED
  BY <1>1, <1>2, <1>4, <1>5, TotalOfList DEF HeldBy

LEMMA FreedIs ==
    ASSUME CacheInv, NEW q, List(q, Cache!Entries)
    PROVE  held - Cache!Freed(recent, q, Cache!SizeOf) = HeldBy(q)
<1>1. /\ Cache!Total(recent, Cache!SizeOf) = held /\ held \in Nat
      /\ Cache!Total(q, Cache!SizeOf) = HeldBy(q) /\ HeldBy(q) \in Nat
  BY HeldByIs DEF CacheInv
<1> QED
  BY <1>1 DEF Cache!Freed

LEMMA OthersAre ==
    ASSUME CacheInv, NEW n \in Names
    PROVE  /\ List(Cache!Others(n), Cache!Entries)
           /\ Len(Cache!Others(n)) <= MaxImages
           /\ Range(Cache!Others(n)) = {e \in Range(recent) : e.name # n}
<1> DEFINE found == {k \in DOMAIN recent : recent[k].name = n}
           k == CHOOSE j \in found : TRUE
<1>1. DOMAIN recent = 1..Len(recent) /\ Len(recent) \in Nat /\ MaxImages \in Nat
  BY CacheAssumption DEF CacheInv, List
<1>2. Cache!Others(n) = IF found = {} THEN recent ELSE RemoveAt(recent, k)
  BY CacheLists DEF Cache!Others
<1>3. CASE found = {}
  <2>1. \A e \in Range(recent) : e.name # n
    BY <1>3 DEF Range
  <2> QED
    BY <1>2, <1>3, <2>1 DEF CacheInv
<1>4. CASE found # {}
  <2>1. k \in 1..Len(recent) /\ recent[k].name = n
    BY <1>1, <1>4
  <2> HIDE DEF k
  <2>2. /\ List(RemoveAt(recent, k), Cache!Entries)
        /\ Len(RemoveAt(recent, k)) = Len(recent) - 1
        /\ Range(RemoveAt(recent, k)) = Range(recent) \ {recent[k]}
    BY <2>1, Removed DEF CacheInv
  <2>3. recent[k] \in Range(recent)
    BY <1>1, <2>1 DEF Range
  <2>4. Range(recent) \ {recent[k]} = {e \in Range(recent) : e.name # n}
    BY <2>1, <2>3 DEF CacheInv
  <2>5. Len(RemoveAt(recent, k)) <= MaxImages
    BY <1>1, <2>2 DEF CacheInv
  <2> QED
    BY <1>2, <1>4, <2>2, <2>4, <2>5
<1> QED
  BY <1>3, <1>4

LEMMA CacheGet ==
    ASSUME CacheInv, NEW n \in Names, Cache!Get(n)
    PROVE  CacheInv'
<1>1. PICK e \in Range(recent) : recent' = Touched(recent, e)
  BY CacheLists DEF Cache!Get
<1>2. held' = held /\ newest' = newest
  BY DEF Cache!Get
<1>3. /\ List(recent', Cache!Entries) /\ Len(recent') = Len(recent)
      /\ Range(recent') = Range(recent)
  BY <1>1, TouchedList DEF CacheInv
<1>4. HeldBy(recent') = HeldBy(recent)
  BY <1>3 DEF HeldBy
<1> QED
  BY <1>2, <1>3, <1>4 DEF CacheInv, Cache!Entries

\* Eviction makes room for an image that is within the limit: an empty cache would.
LEMMA RoomIsMade ==
    ASSUME CacheInv, NEW n \in Names, NEW i \in Images, ~(Size[i] > MaxImageBytes),
           NEW kept, kept = Cache!EvictUntil(Cache!Others(n), LAMBDA q : Cache!Room(q, i))
    PROVE  /\ Shortened(Cache!Others(n), kept) /\ List(kept, Cache!Entries)
           /\ Len(kept) < MaxImages /\ HeldBy(kept) + Size[i] <= MaxImageBytes
<1> DEFINE q == Cache!Others(n)
           fits == {m \in 0..Len(q) : Cache!Room(SubSeq(q, 1, m), i)}
<1>1. List(q, Cache!Entries) /\ Len(q) \in Nat
  BY OthersAre DEF List
<1>2. Size[i] \in Nat /\ MaxImages \in Nat \ {0} /\ MaxImageBytes \in Nat
  BY CacheAssumption
<1>3. kept = IF fits = {} THEN <<>> ELSE SubSeq(q, 1, Max(fits))
  BY CacheLists DEF Cache!EvictUntil
<1>4. \A p : List(p, Cache!Entries) =>
        (Cache!Room(p, i) <=> Len(p) < MaxImages /\ Size[i] <= MaxImageBytes - HeldBy(p))
  BY FreedIs DEF Cache!Room
<1>5. List(<<>>, Cache!Entries) /\ Len(<<>>) = 0 /\ HeldBy(<<>>) = 0
  BY EmptyList, SumEmpty DEF HeldBy
<1>6. 0 \in fits
  <2>1. SubSeq(q, 1, 0) = <<>> /\ 0 \in 0..Len(q)
    BY <1>1 DEF List
  <2>2. Cache!Room(<<>>, i)
    BY <1>2, <1>4, <1>5
  <2> QED
    BY <2>1, <2>2
<1>7. Max(fits) \in fits
  <2>1. fits \in SUBSET (0..Len(q)) /\ fits # {}
    BY <1>6
  <2> HIDE DEF fits
  <2> QED
    BY <1>1, <2>1, MaxIn
<1>8. Max(fits) \in 0..Len(q) /\ kept = SubSeq(q, 1, Max(fits)) /\ Cache!Room(kept, i)
  BY <1>3, <1>6, <1>7
<1>9. Shortened(q, kept)
  BY <1>8 DEF Shortened
<1>10. List(kept, Cache!Entries)
  BY <1>1, <1>9, EvictedList
<1>11. Len(kept) < MaxImages /\ Size[i] <= MaxImageBytes - HeldBy(kept)
  BY <1>4, <1>8, <1>10
<1>12. HeldBy(kept) \in Nat
  BY <1>10, HeldByIs
<1> QED
  BY <1>2, <1>9, <1>10, <1>11, <1>12

LEMMA CachePut ==
    ASSUME CacheInv, NEW n \in Names, NEW i \in Images, Cache!Put(n, i)
    PROVE  CacheInv'
<1> DEFINE q == Cache!Others(n)
           kept == Cache!EvictUntil(Cache!Others(n), LAMBDA p : Cache!Room(p, i))
<1>1. newest' = [newest EXCEPT ![n] = {i}] /\ newest' \in [Names -> SUBSET Images]
  BY DEF Cache!Put, CacheInv
<1>2. /\ List(q, Cache!Entries) /\ Len(q) <= MaxImages
      /\ Range(q) = {e \in Range(recent) : e.name # n}
  BY OthersAre
<1>3. \A e \in Range(recent) : e.name \in Names
  <2>1. Range(recent) \subseteq Cache!Entries
    BY ListRange DEF CacheInv
  <2> QED
    BY <2>1 DEF Cache!Entries
<1>4. /\ \A e \in Range(q) : newest'[e.name] = {e.image}
      /\ \A e, d \in Range(q) : e.name = d.name => e = d
  <2>1. \A m \in Names : m # n => newest'[m] = newest[m]
    BY <1>1 DEF CacheInv
  <2> HIDE DEF q
  <2> QED
    BY <1>2, <1>3, <2>1 DEF CacheInv
<1>5. CASE Size[i] > MaxImageBytes
  <2>1. recent' = q /\ held' = held - Cache!Freed(recent, q, Cache!SizeOf)
    BY <1>5 DEF Cache!Put
  <2>2. held' = HeldBy(q)
    BY <1>2, <2>1, FreedIs
  <2>3. held' <= MaxImageBytes
    <3>1. HeldBy(q) <= HeldBy(recent)
      <4>1. \A e \in Range(recent) : EntrySize[e] \in Nat
        BY ListRange, EntrySizes DEF CacheInv
      <4>2. IsFiniteSet(Range(recent)) /\ Range(q) \subseteq Range(recent)
        BY <1>2, ListRange DEF CacheInv
      <4> QED
        BY <4>1, <4>2, SumPart DEF HeldBy
    <3>2. HeldBy(q) \in Nat /\ HeldBy(recent) \in Nat /\ MaxImageBytes \in Nat
      BY <1>2, HeldByIs, CacheAssumption DEF CacheInv
    <3> QED
      BY <2>2, <3>1, <3>2 DEF CacheInv
  <2> HIDE DEF q
  <2> QED
    BY <1>1, <1>2, <1>4, <2>1, <2>2, <2>3 DEF CacheInv, Cache!Entries
<1>6. CASE ~(Size[i] > MaxImageBytes)
  <2> DEFINE e == [name |-> n, image |-> i]
  <2>1. recent' = <<e>> \o kept
        /\ held' = held - Cache!Freed(recent, kept, Cache!SizeOf) + Size[i]
    BY <1>6 DEF Cache!Put
  <2>2. /\ Shortened(q, kept) /\ List(kept, Cache!Entries)
        /\ Len(kept) < MaxImages /\ HeldBy(kept) + Size[i] <= MaxImageBytes
    BY <1>6, RoomIsMade
  <2> HIDE DEF kept
  <2>3. Range(kept) \subseteq Range(q)
    BY <1>2, <2>2, EvictedList
  <2>4. e \in Cache!Entries /\ e \notin Range(kept)
    BY <1>2, <2>3 DEF Cache!Entries
  <2>5. /\ List(recent', Cache!Entries) /\ Len(recent') = Len(kept) + 1
        /\ Range(recent') = Range(kept) \cup {e}
    BY <2>1, <2>2, <2>4, Pushed
  <2>6. HeldBy(recent') = Size[i] + HeldBy(kept)
    <3>1. \A d \in Range(kept) \cup {e} : EntrySize[d] \in Int
      BY <2>2, <2>4, ListRange, EntrySizes
    <3>2. EntrySize[e] = Size[i]
      BY <2>4 DEF EntrySize
    <3>3. IsFiniteSet(Range(kept))
      BY <2>2, ListRange
    <3> HIDE DEF e
    <3> QED
      BY <2>4, <2>5, <3>1, <3>2, <3>3, SumAdd DEF HeldBy
  <2>7. HeldBy(kept) \in Nat /\ Size[i] \in Nat /\ MaxImageBytes \in Nat
        /\ MaxImages \in Nat /\ Len(kept) \in Nat
    BY <2>2, HeldByIs, CacheAssumption DEF List
  <2>8. held' = HeldBy(recent') /\ held' <= MaxImageBytes /\ Len(recent') <= MaxImages
    <3>1. held' = HeldBy(kept) + Size[i]
      BY <2>1, <2>2, FreedIs
    <3> QED
      BY <2>2, <2>5, <2>6, <2>7, <3>1
  <2>9. /\ \A d \in Range(recent') : newest'[d.name] = {d.image}
        /\ \A c, d \in Range(recent') : c.name = d.name => c = d
    <3>1. newest'[n] = {i} /\ e.name = n /\ e.image = i
      BY <1>1 DEF CacheInv
    <3>2. \A d \in Range(kept) : d.name # n
      BY <1>2, <2>3
    <3> HIDE DEF e, q
    <3> QED
      BY <1>4, <2>3, <2>5, <3>1, <3>2
  <2> QED
    BY <1>1, <2>5, <2>8, <2>9 DEF CacheInv, Cache!Entries
<1> QED
  BY <1>5, <1>6

LEMMA CacheInit == Cache!Init => CacheInv
<1> SUFFICES ASSUME Cache!Init PROVE CacheInv
  OBVIOUS
<1>1. recent = <<>> /\ held = 0 /\ newest \in [Names -> SUBSET Images]
  BY DEF Cache!Init
<1>2. List(<<>>, Cache!Entries) /\ Len(<<>>) = 0 /\ Range(<<>>) = {} /\ HeldBy(<<>>) = 0
  BY EmptyList, SumEmpty DEF HeldBy
<1> QED
  BY <1>1, <1>2, CacheAssumption DEF CacheInv

LEMMA CacheStep == CacheInv /\ [Cache!Next]_imageState => CacheInv'
<1>1. CacheInv /\ UNCHANGED imageState => CacheInv'
  BY DEF imageState, CacheInv, HeldBy, Cache!Entries
<1> QED
  BY <1>1, CacheGet, CachePut DEF Cache!Next

LEMMA CacheFacts ==
    ASSUME CacheInv
    PROVE  Cache!TypeOK /\ Cache!ImagesBounded /\ Cache!NoStaleImage
<1>1. Cache!TypeOK
  BY ListRange, HeldByIs, CacheLists DEF CacheInv, Cache!TypeOK
<1>2. Cache!ImagesBounded
  BY HeldByIs DEF CacheInv, Cache!ImagesBounded
<1>3. Cache!NoStaleImage
  <2> SUFFICES ASSUME NEW n \in Names, NEW k \in 1..Len(recent), NEW l \in 1..Len(recent)
               PROVE  /\ recent[k].name = n => newest[n] = {recent[k].image}
                      /\ recent[k].name = recent[l].name => k = l
    BY DEF Cache!NoStaleImage
  <2>1. DOMAIN recent = 1..Len(recent)
    BY DEF CacheInv, List
  <2>2. recent[k] \in Range(recent) /\ recent[l] \in Range(recent)
    BY <2>1 DEF Range
  <2> QED
    BY <2>1, <2>2 DEF CacheInv, List, IsInjective
<1> QED
  BY <1>1, <1>2, <1>3

-----------------------------------------------------------------------------
(* The bundling of images: which error is returned, and what the SVG         *)
(* contains with and without one.                                            *)

\* Reference h has been resolved, or is on its way.
InHand(h) ==
    \/ h \in replaced \/ <<h, "none">> \in results \/ h >= next
    \/ \E w \in Bundle!Team : task[w].at \in {"resolve", "cancel"} /\ task[w].href = h

BundleTyped ==
    /\ bundling \in {"idle", "running", "returned"}
    /\ callerDone \in BOOLEAN /\ producing \in BOOLEAN
    /\ cause \in Bundle!Errors /\ next \in 1..(NHrefs + 1)
    /\ task \in [Bundle!Team -> [at : {"receive", "resolve", "cancel", "exited"},
                         href : 0..NHrefs, err : Bundle!Errors]]
    /\ \A w \in Bundle!Team : task[w].at \in {"resolve", "cancel"}
          => task[w].href \in Bundle!Hrefs
    /\ results \in SUBSET (Bundle!Hrefs \X Bundle!Errors)
    /\ replaced \subseteq Bundle!Hrefs

\* A worker is cut short, with an error that only echoes it, when there is a cause
\* already; so that the cause itself is never an echo.
BundleCauses ==
    /\ cause # "echo"
    /\ \A w \in Bundle!Team : task[w].at = "cancel" =>
         /\ task[w].err \in {"image", "limit", "echo"}
         /\ task[w].err = "echo" => cause # "none"
    /\ bundling = "running" /\ cause = "context" => callerDone

\* The error returned with a bundling is neither an echo nor a context error that
\* the caller did not cause.
OwnFailures ==
    bundling = "returned" =>
        /\ "echo" \notin error
        /\ "context" \in error => callerDone

\* As long as nothing has failed, nothing is lost and nobody leaves early.
NothingLost ==
    bundling = "running" /\ cause = "none" =>
        /\ \A h \in Bundle!Hrefs : InHand(h)
        /\ ~producing => next > NHrefs
        /\ producing => \A w \in Bundle!Team : w <= NHrefs => task[w] # Bundle!Exited

\* Before and after, nothing runs.
BundleQuiet ==
    /\ bundling = "idle" => cause = "none" /\ next = 1 /\ ~producing
                            /\ results = {} /\ replaced = {}
    /\ bundling # "running" => \A w \in Bundle!Team : task[w] = Bundle!Exited

BundleInv == BundleTyped /\ BundleCauses /\ NothingLost /\ BundleQuiet
             /\ OwnFailures /\ Bundle!PartialOutputKept

LEMMA BundleInit == ASSUME Bundle!Init PROVE BundleInv
<1>1. /\ bundling = "idle" /\ callerDone = FALSE /\ cause = "none"
      /\ next = 1 /\ producing = FALSE
      /\ task = [w \in Bundle!Team |-> Bundle!Exited] /\ results = {} /\ replaced = {}
  BY DEF Bundle!Init, Bundle!NotBegun
<1>2. Bundle!Exited \in [at : {"receive", "resolve", "cancel", "exited"},
                  href : 0..NHrefs, err : Bundle!Errors]
  BY BundleAssumption DEF Bundle!Errors, Bundle!Exited
<1>3. \A w \in Bundle!Team : task[w] = Bundle!Exited /\ task[w].at = "exited"
  BY <1>1 DEF Bundle!Exited
<1>4. task \in [Bundle!Team -> [at : {"receive", "resolve", "cancel", "exited"},
                        href : 0..NHrefs, err : Bundle!Errors]]
  BY <1>1, <1>2
<1>5. next \in 1..(NHrefs + 1)
  BY <1>1, BundleAssumption
<1>6. BundleTyped
  BY <1>1, <1>3, <1>4, <1>5 DEF BundleTyped, Bundle!Errors
<1> QED
  BY <1>1, <1>3, <1>6 DEF BundleInv, BundleCauses, NothingLost, BundleQuiet,
     OwnFailures,
                    Bundle!PartialOutputKept

LEMMA BundleBegin == ASSUME BundleInv, Bundle!Begin PROVE BundleInv'
<1> USE BundleAssumption DEF BundleInv
<1>1. /\ bundling = "idle" /\ bundling' = "running" /\ producing' = TRUE
      /\ task' = [w \in Bundle!Team |-> IF w <= NHrefs
            THEN Bundle!Receiving ELSE Bundle!Exited]
      /\ cause = "none" /\ next = 1
      /\ UNCHANGED <<callerDone, cause, next, results, replaced>>
  BY DEF Bundle!Begin, BundleQuiet, Bundle!ctxVars
<1>2. BundleTyped'
  BY <1>1 DEF BundleTyped, Bundle!Receiving, Bundle!Exited, Bundle!Errors
<1>3. BundleCauses'
  BY <1>1 DEF BundleCauses, Bundle!Receiving, Bundle!Exited
<1>4. NothingLost'
  <2>1. \A h \in Bundle!Hrefs : h >= next'
    BY <1>1 DEF Bundle!Hrefs
  <2>2. \A w \in Bundle!Team : w <= NHrefs => task'[w] # Bundle!Exited
    BY <1>1 DEF Bundle!Receiving, Bundle!Exited
  <2> QED
    BY <1>1, <2>1, <2>2 DEF NothingLost, InHand
<1>5. BundleQuiet' /\ OwnFailures' /\ Bundle!PartialOutputKept'
  BY <1>1 DEF BundleQuiet, OwnFailures, Bundle!PartialOutputKept
<1> QED
  BY <1>2, <1>3, <1>4, <1>5

LEMMA BundleParentDone == ASSUME BundleInv, Bundle!ParentDone PROVE BundleInv'
BY BundleAssumption DEF BundleInv, Bundle!ParentDone, BundleTyped, BundleCauses,
   NothingLost, BundleQuiet, Bundle!FirstCause, Bundle!Errors,
       OwnFailures, Bundle!PartialOutputKept, Bundle!poolVars,
       Bundle!budgetVars, Bundle!endVars

\* The producer hands over the next reference, or leaves.
LEMMA BundleHandOver ==
    ASSUME BundleInv, NEW w \in Bundle!Team, Bundle!HandOver(w)
    PROVE  BundleInv'
<1> USE BundleAssumption DEF BundleInv
<1>1. /\ producing /\ next <= NHrefs /\ task[w] = Bundle!Receiving
      /\ task' = [task EXCEPT ![w] = Bundle!Busy(next)] /\ next' = next + 1
      /\ UNCHANGED <<bundling, callerDone, cause, producing, results,
                     replaced, output, error>>
  BY DEF Bundle!HandOver, Bundle!ctxVars, Bundle!endVars
<1>2. bundling = "running"
  BY <1>1 DEF BundleQuiet, Bundle!Receiving, Bundle!Exited, BundleTyped
<1>3. next \in 1..NHrefs
      /\ task' \in [Bundle!Team -> [at : {"receive", "resolve", "cancel", "exited"},
                                               href : 0..NHrefs, err : Bundle!Errors]]
  BY <1>1 DEF BundleTyped, Bundle!Busy, Bundle!Errors
<1>5. \A v \in Bundle!Team : v # w => task'[v] = task[v]
  BY <1>1 DEF BundleTyped
<1>6. task'[w] = Bundle!Busy(next)
  BY <1>1 DEF BundleTyped
<1>4. BundleTyped'
  <2>1. \A v \in Bundle!Team : task'[v].at \in {"resolve", "cancel"}
        => task'[v].href \in Bundle!Hrefs
    BY <1>3, <1>5, <1>6 DEF BundleTyped, Bundle!Busy, Bundle!Hrefs
  <2> QED
    BY <1>1, <1>3, <2>1 DEF BundleTyped
<1>7. BundleCauses'
  BY <1>1, <1>5, <1>6 DEF BundleCauses, Bundle!Busy
<1>8. NothingLost'
  <2> SUFFICES ASSUME cause = "none"
               PROVE  /\ \A h \in Bundle!Hrefs : InHand(h)'
                      /\ \A v \in Bundle!Team : v <= NHrefs => task'[v] # Bundle!Exited
    BY <1>1 DEF NothingLost
  <2>1. ASSUME NEW h \in Bundle!Hrefs PROVE InHand(h)'
    <3>1. InHand(h)
      BY <1>2 DEF NothingLost
    <3>2. CASE h = next
      BY <1>6, <3>2 DEF InHand, Bundle!Busy
    <3>3. CASE h > next
      BY <1>1, <1>3, <3>3 DEF InHand, Bundle!Hrefs
    <3>4. CASE h \in replaced \/ <<h, "none">> \in results
      BY <1>1, <3>4 DEF InHand
    <3>5. CASE \E v \in Bundle!Team
          : task[v].at \in {"resolve", "cancel"} /\ task[v].href = h
      <4>1. PICK v \in Bundle!Team
            : task[v].at \in {"resolve", "cancel"} /\ task[v].href = h
        BY <3>5
      <4>2. v # w
        BY <1>1, <4>1 DEF Bundle!Receiving
      <4> QED
        BY <1>5, <4>1, <4>2 DEF InHand
    <3> QED
      BY <1>3, <3>1, <3>2, <3>3, <3>4, <3>5 DEF InHand, Bundle!Hrefs
  <2>2. \A v \in Bundle!Team : v <= NHrefs => task'[v] # Bundle!Exited
    BY <1>1, <1>2, <1>5, <1>6 DEF NothingLost, Bundle!Busy, Bundle!Exited
  <2> QED
    BY <2>1, <2>2
<1>9. BundleQuiet' /\ OwnFailures' /\ Bundle!PartialOutputKept'
  BY <1>1, <1>2 DEF BundleQuiet, OwnFailures, Bundle!PartialOutputKept
<1> QED
  BY <1>4, <1>7, <1>8, <1>9

LEMMA BundleStopProducing == ASSUME BundleInv, Bundle!StopProducing PROVE BundleInv'
<1> USE BundleAssumption DEF BundleInv
<1>1. /\ producing
      /\ next > NHrefs \/ cause # "none"
      /\ producing' = FALSE
      /\ UNCHANGED <<bundling, callerDone, cause, next, task, results,
                     replaced, output, error>>
  BY DEF Bundle!StopProducing, Bundle!ctxVars, Bundle!endVars
<1> QED
  BY <1>1 DEF BundleTyped, BundleCauses, NothingLost, InHand, BundleQuiet,
     OwnFailures, Bundle!PartialOutputKept

\* A worker leaves when jobs is closed.
LEMMA BundleExit == ASSUME BundleInv, NEW w \in Bundle!Team, Bundle!Exit(w) PROVE BundleInv'
<1> USE BundleAssumption DEF BundleInv
<1>1. /\ ~producing /\ task[w] = Bundle!Receiving
      /\ task' = [task EXCEPT ![w] = Bundle!Exited]
      /\ UNCHANGED <<bundling, callerDone, cause, next, producing, results,
                     replaced, output, error>>
  BY DEF Bundle!Exit, Bundle!ctxVars, Bundle!endVars
<1>2. bundling = "running"
  BY <1>1 DEF BundleQuiet, Bundle!Receiving, Bundle!Exited, BundleTyped
<1>4. \A v \in Bundle!Team : v # w => task'[v] = task[v]
  BY <1>1 DEF BundleTyped
<1>5. task'[w] = Bundle!Exited
  BY <1>1 DEF BundleTyped
<1>3. BundleTyped'
  BY <1>1, <1>4, <1>5 DEF BundleTyped, Bundle!Exited, Bundle!Errors
<1>6. BundleCauses'
  BY <1>1, <1>4, <1>5 DEF BundleCauses, Bundle!Exited
<1>7. \A h \in Bundle!Hrefs : InHand(h) => InHand(h)'
  BY <1>1, <1>4 DEF InHand, Bundle!Receiving
<1>8. NothingLost'
  BY <1>1, <1>2, <1>7 DEF NothingLost
<1>9. BundleQuiet' /\ OwnFailures' /\ Bundle!PartialOutputKept'
  BY <1>1, <1>2 DEF BundleQuiet, OwnFailures, Bundle!PartialOutputKept
<1> QED
  BY <1>3, <1>6, <1>8, <1>9

\* What became of a reference is reported, before its worker goes on or fails.
LEMMA BundleResolve ==
    ASSUME BundleInv, NEW w \in Bundle!Team, Bundle!Resolve(w)
    PROVE  BundleInv'
<1> USE BundleAssumption DEF BundleInv
<1> DEFINE h == task[w].href
<1>1. PICK e \in {"none", "image", "limit", "echo"} :
        /\ task[w].at = "resolve"
        /\ results' = results \cup {<<h, e>>}
        /\ task' = [task EXCEPT ![w] = IF e = "none"
              THEN Bundle!Receiving ELSE Bundle!Failing(h, e)]
        /\ e = "echo" => cause # "none"
        /\ UNCHANGED <<bundling, callerDone, cause, next, producing,
                       replaced, output, error>>
  BY DEF Bundle!Resolve, Bundle!ctxVars, Bundle!endVars
<1>2. h \in Bundle!Hrefs /\ bundling = "running"
  BY <1>1 DEF BundleTyped, BundleQuiet, Bundle!Exited
<1> HIDE DEF h
<1>3. \A v \in Bundle!Team : v # w => task'[v] = task[v]
  BY <1>1 DEF BundleTyped
<1>4. task'[w] = IF e = "none" THEN Bundle!Receiving ELSE Bundle!Failing(h, e)
  BY <1>1 DEF BundleTyped
<1>5. BundleTyped'
  <2>1. task'[w] \in [at : {"receive", "resolve", "cancel", "exited"},
                      href : 0..NHrefs, err : Bundle!Errors]
    BY <1>2, <1>4 DEF Bundle!Receiving, Bundle!Failing, Bundle!Errors, Bundle!Hrefs
  <2>2. task' \in [Bundle!Team -> [at : {"receive", "resolve", "cancel", "exited"},
                            href : 0..NHrefs, err : Bundle!Errors]]
    BY <1>1, <1>4, <2>1 DEF BundleTyped
  <2>3. \A v \in Bundle!Team : task'[v].at \in {"resolve", "cancel"}
        => task'[v].href \in Bundle!Hrefs
    BY <1>2, <1>3, <1>4 DEF BundleTyped, Bundle!Receiving, Bundle!Failing
  <2>4. results' \in SUBSET (Bundle!Hrefs \X Bundle!Errors)
    BY <1>1, <1>2 DEF BundleTyped, Bundle!Errors
  <2> QED
    BY <1>1, <2>2, <2>3, <2>4 DEF BundleTyped
<1>6. BundleCauses'
  <2>1. \A v \in Bundle!Team : task'[v].at = "cancel" =>
          /\ task'[v].err \in {"image", "limit", "echo"}
          /\ task'[v].err = "echo" => cause # "none"
    BY <1>1, <1>3, <1>4 DEF BundleCauses, Bundle!Receiving, Bundle!Failing
  <2> QED
    BY <1>1, <2>1 DEF BundleCauses
<1>7. \A g \in Bundle!Hrefs : InHand(g) => InHand(g)'
  <2> SUFFICES ASSUME NEW g \in Bundle!Hrefs, InHand(g) PROVE InHand(g)'
    OBVIOUS
  <2>1. CASE g \in replaced \/ <<g, "none">> \in results \/ g >= next
    BY <1>1, <2>1 DEF InHand
  <2>2. CASE \E v \in Bundle!Team : task[v].at \in {"resolve", "cancel"} /\ task[v].href = g
    <3>1. PICK v \in Bundle!Team : task[v].at \in {"resolve", "cancel"} /\ task[v].href = g
      BY <2>2
    <3>2. CASE v # w
      BY <1>3, <3>1, <3>2 DEF InHand
    <3>3. CASE v = w
      <4>1. g = h
        BY <3>1, <3>3 DEF h
      <4>2. e = "none" => <<g, "none">> \in results'
        BY <1>1, <4>1
      <4>3. e # "none" => task'[w].at = "cancel" /\ task'[w].href = g
        BY <1>4, <4>1 DEF Bundle!Failing
      <4> QED
        BY <4>2, <4>3 DEF InHand
    <3> QED
      BY <3>2, <3>3
  <2> QED
    BY <2>1, <2>2 DEF InHand
<1>8. NothingLost'
  <2>1. \A v \in Bundle!Team : v <= NHrefs /\ task[v] # Bundle!Exited
        => task'[v] # Bundle!Exited
    BY <1>3, <1>4 DEF Bundle!Receiving, Bundle!Failing, Bundle!Exited
  <2> QED
    BY <1>1, <1>7, <2>1 DEF NothingLost
<1>9. BundleQuiet' /\ OwnFailures' /\ Bundle!PartialOutputKept'
  BY <1>1, <1>2 DEF BundleQuiet, OwnFailures, Bundle!PartialOutputKept
<1> QED
  BY <1>5, <1>6, <1>8, <1>9

\* Only the first cancellation leaves a cause.
LEMMA BundleCancelOthers ==
    ASSUME BundleInv, NEW w \in Bundle!Team, Bundle!CancelOthers(w)
    PROVE  BundleInv'
<1> USE BundleAssumption DEF BundleInv
<1>1. /\ task[w].at = "cancel"
      /\ cause' = IF cause = "none" THEN task[w].err ELSE cause
      /\ task' = [task EXCEPT ![w] = Bundle!Exited]
      /\ UNCHANGED <<bundling, callerDone, next, producing, results,
                     replaced, output, error>>
  BY DEF Bundle!CancelOthers, Bundle!FirstCause, Bundle!endVars
<1>2. bundling = "running"
  BY <1>1 DEF BundleTyped, BundleQuiet, Bundle!Exited
<1>3. \A v \in Bundle!Team : v # w => task'[v] = task[v]
  BY <1>1 DEF BundleTyped
<1>4. task'[w] = Bundle!Exited
  BY <1>1 DEF BundleTyped
<1>5. cause' \in Bundle!Errors \ {"none", "echo"}
      /\ (cause' = "context" => cause = "context")
  BY <1>1 DEF BundleCauses, BundleTyped, Bundle!Errors
<1>6. BundleTyped'
  BY <1>1, <1>3, <1>4, <1>5 DEF BundleTyped, Bundle!Exited, Bundle!Errors
<1>7. BundleCauses'
  BY <1>1, <1>2, <1>3, <1>4, <1>5 DEF BundleCauses, Bundle!Exited
<1>8. NothingLost'
  BY <1>5 DEF NothingLost
<1>9. BundleQuiet' /\ OwnFailures' /\ Bundle!PartialOutputKept'
  BY <1>1, <1>2 DEF BundleQuiet, OwnFailures, Bundle!PartialOutputKept
<1> QED
  BY <1>6, <1>7, <1>8, <1>9

\* The collector keeps what was resolved.
LEMMA BundleCollect == ASSUME BundleInv, Bundle!Collect PROVE BundleInv'
<1> USE BundleAssumption DEF BundleInv
<1>1. PICK r \in results :
        /\ bundling = "running" /\ results' = results \ {r}
        /\ replaced' = IF r[2] = "none" THEN replaced \cup {r[1]} ELSE replaced
        /\ UNCHANGED <<bundling, callerDone, cause, next, producing, task, output, error>>
  BY DEF Bundle!Collect, Bundle!ctxVars, Bundle!poolVars, Bundle!endVars
<1>2. r = <<r[1], r[2]>> /\ r[1] \in Bundle!Hrefs
  BY DEF BundleTyped
<1>3. BundleTyped'
  BY <1>1, <1>2 DEF BundleTyped
<1>4. BundleCauses'
  BY <1>1 DEF BundleCauses
<1>5. \A h \in Bundle!Hrefs : InHand(h) => InHand(h)'
  BY <1>1, <1>2 DEF InHand
<1>6. NothingLost'
  BY <1>1, <1>5 DEF NothingLost
<1>7. BundleQuiet' /\ OwnFailures' /\ Bundle!PartialOutputKept'
  BY <1>1 DEF BundleQuiet, OwnFailures, Bundle!PartialOutputKept
<1> QED
  BY <1>3, <1>4, <1>6, <1>7

\* The error, and the output that goes with it.
LEMMA BundleReturn == ASSUME BundleInv, Bundle!Return PROVE BundleInv'
<1> USE BundleAssumption DEF BundleInv
<1>1. /\ bundling = "running" /\ results = {}
      /\ \A w \in Bundle!Team : task[w] = Bundle!Exited
      /\ output' = Bundle!Output /\ error' = Bundle!ApplyError \cup ({cause} \ {"none"})
      /\ bundling' = "returned"
      /\ UNCHANGED <<callerDone, cause, next, producing, task, results, replaced>>
  BY DEF Bundle!Return, Bundle!ctxVars, Bundle!poolVars
<1>2. BundleTyped'
  BY <1>1 DEF BundleTyped
<1>3. BundleCauses'
  BY <1>1 DEF BundleCauses
<1>4. NothingLost' /\ BundleQuiet'
  BY <1>1 DEF NothingLost, BundleQuiet
<1>5. /\ Bundle!ApplyError \subseteq {"context", "limit"}
      /\ "context" \in Bundle!ApplyError => callerDone
  BY DEF Bundle!ApplyError
<1>6. OwnFailures'
  BY <1>1, <1>5 DEF OwnFailures, BundleCauses
<1>7. cause = "none" => replaced = Bundle!Hrefs
  <2> SUFFICES ASSUME cause = "none", NEW h \in Bundle!Hrefs PROVE h \in replaced
    BY DEF BundleTyped
  <2>1. InHand(h)
    BY <1>1 DEF NothingLost
  <2>2. ~producing
    <3>1. 1 \in Bundle!Team /\ 1 <= NHrefs
      BY DEF Bundle!Team, Bundle!Hrefs
    <3> QED
      BY <1>1, <3>1 DEF NothingLost, BundleTyped
  <2>3. next > NHrefs
    BY <1>1, <2>2 DEF NothingLost
  <2> QED
    BY <1>1, <2>1, <2>3 DEF InHand, Bundle!Exited, Bundle!Hrefs, BundleTyped
<1>8. Bundle!PartialOutputKept'
  <2>1. output' = IF Bundle!ApplyError = {} THEN replaced ELSE {}
    BY <1>1 DEF Bundle!Output
  <2>2. error' = {} => cause = "none" /\ Bundle!ApplyError = {}
    BY <1>1
  <2>3. error' \subseteq {"image", "echo"} => Bundle!ApplyError = {}
    BY <1>1, <1>5
  <2>4. /\ error' = {} => output' = Bundle!Hrefs
        /\ error' \subseteq {"image", "echo"} => output' = replaced'
        /\ output' \in {{}, replaced'}
    BY <1>1, <1>7, <2>1, <2>2, <2>3
  <2> QED
    BY <2>4 DEF Bundle!PartialOutputKept
<1> QED
  BY <1>2, <1>3, <1>4, <1>6, <1>8

LEMMA BundleEndCall == ASSUME BundleInv, Bundle!EndCall PROVE BundleInv'
<1> USE BundleAssumption DEF BundleInv
<1>1. /\ bundling = "returned" /\ cause = "none" /\ cause' = "context"
      /\ UNCHANGED <<bundling, callerDone, next, producing, task, results,
                     replaced, output, error>>
  BY DEF Bundle!EndCall, Bundle!poolVars, Bundle!endVars
<1>2. BundleTyped' /\ BundleCauses'
  BY <1>1 DEF BundleTyped, BundleCauses, Bundle!Errors
<1> QED
  BY <1>1, <1>2 DEF NothingLost, BundleQuiet, OwnFailures,
     Bundle!PartialOutputKept

-----------------------------------------------------------------------------
(* Theorems                                                                *)

LEMMA BundleStep == ASSUME BundleInv, [Bundle!Next]_bundleState PROVE BundleInv'
<1>1. CASE Bundle!Begin
  BY <1>1, BundleBegin
<1>2. CASE Bundle!ParentDone
  BY <1>2, BundleParentDone
<1>3. CASE Bundle!StopProducing
  BY <1>3, BundleStopProducing
<1>4. CASE Bundle!Collect
  BY <1>4, BundleCollect
<1>5. CASE Bundle!Return
  BY <1>5, BundleReturn
<1>6. CASE Bundle!EndCall
  BY <1>6, BundleEndCall
<1>7. ASSUME NEW w \in Bundle!Team, Bundle!HandOver(w) \/ Bundle!Exit(w)
      \/ Bundle!Resolve(w) \/ Bundle!CancelOthers(w)
      PROVE  BundleInv'
  BY <1>7, BundleHandOver, BundleExit, BundleResolve, BundleCancelOthers
<1>8. CASE UNCHANGED bundleState
  BY <1>8 DEF bundleState, Bundle!ctxVars, Bundle!poolVars, Bundle!budgetVars,
     Bundle!endVars, BundleInv, BundleTyped, BundleCauses,
              NothingLost, InHand, BundleQuiet,
                    OwnFailures, Bundle!PartialOutputKept
<1> QED
  BY <1>1, <1>2, <1>3, <1>4, <1>5, <1>6, <1>7, <1>8 DEF Bundle!Next, Bundle!Step

-----------------------------------------------------------------------------
(* The bundling of images: the budget of bytes.  What is reserved belongs to *)
(* references that no worker resolves any more, and no two workers resolve   *)
(* the same one.                                                             *)

\* The references that have been paid for.
Resolved == replaced \cup Bundle!Arriving

BundlePlaces ==
    /\ \A h \in Resolved : h < next
    /\ \A w \in Bundle!Team : task[w].at = "resolve" =>
         task[w].href < next /\ task[w].href \notin Resolved
    /\ \A v, w \in Bundle!Team :
         task[v].at = "resolve" /\ task[w].at = "resolve" /\ v # w =>
             task[v].href # task[w].href

BundlePaid ==
    /\ size \in [Bundle!Hrefs -> Sizes] /\ exhausted \in BOOLEAN
    /\ bundled = SumFunctionOnSet(size, Resolved) /\ bundled <= MaxBundled

BundleBudget == BundlePlaces /\ BundlePaid /\ output \subseteq Bundle!Hrefs
                /\ error \subseteq Bundle!Errors

LEMMA BundleSums == \A f, S : Bundle!SumFunctionOnSet(f, S) = SumFunctionOnSet(f, S)
  BY DEF Bundle!SumFunctionOnSet, SumFunctionOnSet, Bundle!FoldFunctionOnSet,
         FoldFunctionOnSet, Bundle!MapThenFoldSet, MapThenFoldSet

LEMMA ResolvedSum ==
    ASSUME BundleInv, size \in [Bundle!Hrefs -> Sizes]
    PROVE  /\ Resolved \subseteq Bundle!Hrefs /\ IsFiniteSet(Resolved)
           /\ \A h \in Bundle!Hrefs : size[h] \in Nat /\ size[h] \in Int
           /\ SumFunctionOnSet(size, Resolved) \in Nat
<1>1. IsFiniteSet(Bundle!Hrefs)
  BY FS_Interval, BundleAssumption DEF Bundle!Hrefs
<1>2. Resolved \subseteq Bundle!Hrefs
  BY DEF Resolved, Bundle!Arriving, BundleInv, BundleTyped
<1>3. IsFiniteSet(Resolved)
  BY <1>1, <1>2, FS_Subset
<1>4. \A h \in Bundle!Hrefs : size[h] \in Nat /\ size[h] \in Int
  <2>1. Sizes \subseteq Nat /\ Sizes \subseteq Int
    BY BundleAssumption
  <2>2. \A h \in Bundle!Hrefs : size[h] \in Sizes
    OBVIOUS
  <2> QED
    BY <2>1, <2>2
<1>5. \A h \in Resolved : size[h] \in Nat
  BY <1>2, <1>4
<1>6. SumFunctionOnSet(size, Resolved) \in Nat
  BY ONLY <1>3, <1>5, SumNat
<1> QED
  BY <1>2, <1>3, <1>4, <1>6

LEMMA BudgetInit == ASSUME Bundle!Init PROVE BundleBudget
<1>1. /\ size \in [Bundle!Hrefs -> Sizes] /\ results = {} /\ replaced = {} /\ bundled = 0
      /\ exhausted = FALSE /\ output = {} /\ error = {}
      /\ task = [w \in Bundle!Team |-> Bundle!Exited]
  BY DEF Bundle!Init, Bundle!NotBegun
<1>2. Resolved = {}
  BY <1>1 DEF Resolved, Bundle!Arriving
<1>3. \A w \in Bundle!Team : task[w].at # "resolve"
  BY <1>1 DEF Bundle!Exited
<1>4. BundlePlaces
  BY <1>2, <1>3 DEF BundlePlaces
<1>5. SumFunctionOnSet(size, Resolved) = 0
  BY <1>2, SumEmpty
<1>6. BundlePaid
  <2>1. 0 <= MaxBundled
    BY BundleAssumption
  <2> QED
    BY <1>1, <1>5, <2>1 DEF BundlePaid
<1> QED
  BY <1>1, <1>4, <1>6 DEF BundleBudget

\* A step that pays for nothing, and after which the workers resolve at most what
\* they resolved before, keeps the budget.
LEMMA BudgetKept ==
    ASSUME BundleInv, BundleBudget,
           UNCHANGED <<size, bundled>>, exhausted' \in BOOLEAN,
           Resolved' = Resolved, next' = next,
           \A w \in Bundle!Team : task'[w].at = "resolve" => task'[w] = task[w],
           output' \subseteq Bundle!Hrefs, error' \subseteq Bundle!Errors
    PROVE  BundleBudget'
<1>1. BundlePlaces'
  BY DEF BundleBudget, BundlePlaces
<1>2. BundlePaid'
  BY DEF BundleBudget, BundlePaid, Bundle!Hrefs
<1> QED
  BY <1>1, <1>2 DEF BundleBudget, Bundle!Hrefs, Bundle!Errors

LEMMA BudgetHandOver ==
    ASSUME BundleInv, BundleBudget, NEW w \in Bundle!Team, Bundle!HandOver(w)
    PROVE  BundleBudget'
<1>1. /\ next <= NHrefs /\ task' = [task EXCEPT ![w] = Bundle!Busy(next)]
      /\ next' = next + 1 /\ next \in Nat
      /\ UNCHANGED <<size, bundled, exhausted, results, replaced, output, error>>
  BY BundleAssumption DEF Bundle!HandOver, Bundle!budgetVars, Bundle!endVars, BundleInv,
     BundleTyped
<1>2. Resolved' = Resolved /\ Resolved \subseteq Nat
  <2>1. Resolved' = Resolved
    BY <1>1 DEF Resolved, Bundle!Arriving, Bundle!Hrefs
  <2>2. Resolved \subseteq Bundle!Hrefs
    BY DEF Resolved, Bundle!Arriving, BundleInv, BundleTyped
  <2> QED
    BY <2>1, <2>2 DEF Bundle!Hrefs
<1>3. /\ task'[w].at = "resolve" /\ task'[w].href = next
      /\ \A v \in Bundle!Team : v # w => task'[v] = task[v]
  BY <1>1 DEF BundleInv, BundleTyped, Bundle!Busy
<1>4. \A v \in Bundle!Team : task[v].href \in Nat
  BY BundleAssumption DEF BundleInv, BundleTyped
<1>5. BundlePlaces'
  <2>1. \A h \in Resolved' : h < next'
    BY <1>1, <1>2 DEF BundleBudget, BundlePlaces
  <2>2. next \notin Resolved
    BY <1>1, <1>2 DEF BundleBudget, BundlePlaces
  <2>3. \A v \in Bundle!Team : task'[v].at = "resolve" =>
          task'[v].href < next' /\ task'[v].href \notin Resolved'
    BY <1>1, <1>2, <1>3, <1>4, <2>2 DEF BundleBudget, BundlePlaces
  <2>4. \A u, v \in Bundle!Team :
          task'[u].at = "resolve" /\ task'[v].at = "resolve" /\ u # v =>
              task'[u].href # task'[v].href
    BY <1>1, <1>3, <1>4 DEF BundleBudget, BundlePlaces
  <2> QED
    BY <2>1, <2>3, <2>4 DEF BundlePlaces, Bundle!Team
<1>6. BundlePaid'
  BY <1>1, <1>2 DEF BundleBudget, BundlePaid, Bundle!Hrefs
<1> QED
  BY <1>1, <1>5, <1>6 DEF BundleBudget, Bundle!Hrefs, Bundle!Errors

\* What a reservation takes is what the reference it is for adds to the sum.
LEMMA BudgetResolve ==
    ASSUME BundleInv, BundleBudget, NEW w \in Bundle!Team, Bundle!Resolve(w)
    PROVE  BundleBudget'
<1> DEFINE h == task[w].href
<1>1. PICK e \in {"none", "image", "limit", "echo"} :
        /\ task[w].at = "resolve"
        /\ results' = results \cup {<<h, e>>}
        /\ task' = [task EXCEPT ![w] = IF e = "none" THEN Bundle!Receiving
                                      ELSE Bundle!Failing(h, e)]
        /\ IF e = "none"
           THEN /\ size[h] <= MaxBundled - bundled
                /\ bundled' = bundled + size[h] /\ UNCHANGED exhausted
           ELSE bundled' = bundled /\ exhausted' \in {TRUE, exhausted}
        /\ UNCHANGED <<size, next, replaced, output, error>>
  BY DEF Bundle!Resolve, Bundle!Fits, Bundle!endVars, Bundle!budgetVars
<1>2. h \in Bundle!Hrefs
  BY <1>1 DEF BundleInv, BundleTyped
<1>3. h < next /\ h \notin Resolved
  BY <1>1 DEF BundleBudget, BundlePlaces
<1>4. \A v \in Bundle!Team : task'[v].at = "resolve" => v # w /\ task'[v] = task[v]
  BY <1>1 DEF BundleInv, BundleTyped, Bundle!Receiving, Bundle!Failing
<1>5. exhausted' \in BOOLEAN
  BY <1>1 DEF BundleBudget, BundlePaid
<1>6. CASE e # "none"
  <2>1. Resolved' = Resolved
    BY <1>1, <1>6 DEF Resolved, Bundle!Arriving, Bundle!Hrefs
  <2> QED
    BY <1>1, <1>4, <1>5, <1>6, <2>1, BudgetKept DEF BundleBudget
<1>7. CASE e = "none"
  <2>1. Resolved' = Resolved \cup {h}
    BY <1>1, <1>2, <1>7 DEF Resolved, Bundle!Arriving, Bundle!Hrefs
  <2>2. BundlePlaces'
    <3>1. \A g \in Resolved' : g < next'
      BY <1>1, <1>3, <2>1 DEF BundleBudget, BundlePlaces
    <3>2. \A v \in Bundle!Team : task'[v].at = "resolve" =>
            task'[v].href < next' /\ task'[v].href \notin Resolved'
      BY <1>1, <1>4, <2>1 DEF BundleBudget, BundlePlaces
    <3> QED
      BY <1>4, <3>1, <3>2 DEF BundleBudget, BundlePlaces, Bundle!Team
  <2>3. /\ size \in [Bundle!Hrefs -> Sizes]
        /\ bundled = SumFunctionOnSet(size, Resolved) /\ bundled <= MaxBundled
    BY DEF BundleBudget, BundlePaid
  <2>4. /\ Resolved \subseteq Bundle!Hrefs /\ IsFiniteSet(Resolved)
        /\ \A g \in Bundle!Hrefs : size[g] \in Nat /\ size[g] \in Int
        /\ SumFunctionOnSet(size, Resolved) \in Nat
    BY <2>3, ResolvedSum
  <2>5. SumFunctionOnSet(size, Resolved \cup {h}) = size[h] + SumFunctionOnSet(size, Resolved)
    <3>1. \A g \in Resolved \cup {h} : size[g] \in Int
      BY <1>2, <2>4
    <3> QED
      BY <1>3, <2>4, <3>1, SumAdd
  <2>6. bundled' = bundled + size[h] /\ size[h] <= MaxBundled - bundled /\ size[h] \in Nat
    BY <1>1, <1>2, <1>7, <2>4
  <2>7. bundled' = SumFunctionOnSet(size, Resolved \cup {h}) /\ bundled' <= MaxBundled
    <3> HIDE DEF h
    <3> QED
      BY <2>3, <2>4, <2>5, <2>6, BundleAssumption
  <2>8. BundlePaid'
    BY <1>1, <1>5, <2>1, <2>3, <2>7 DEF BundlePaid, Bundle!Hrefs
  <2> QED
    BY <1>1, <2>2, <2>8 DEF BundleBudget, Bundle!Hrefs, Bundle!Errors
<1> QED
  BY <1>6, <1>7

\* The collector receives what has been paid for.
LEMMA BudgetCollect == ASSUME BundleInv, BundleBudget, Bundle!Collect PROVE BundleBudget'
<1>1. PICK r \in results :
        /\ results' = results \ {r}
        /\ replaced' = IF r[2] = "none" THEN replaced \cup {r[1]} ELSE replaced
        /\ UNCHANGED <<size, bundled, exhausted, next, task, output, error>>
  BY DEF Bundle!Collect, Bundle!budgetVars, Bundle!poolVars, Bundle!endVars
<1>2. r = <<r[1], r[2]>> /\ r[1] \in Bundle!Hrefs
  BY DEF BundleInv, BundleTyped
<1>3. Bundle!Arriving' = {h \in Bundle!Hrefs : <<h, "none">> \in results /\ <<h, "none">> # r}
  BY <1>1 DEF Bundle!Arriving, Bundle!Hrefs
<1>4. Resolved' = Resolved
  BY <1>1, <1>2, <1>3 DEF Resolved, Bundle!Arriving
<1> QED
  BY <1>1, <1>4, BudgetKept DEF BundleBudget, BundlePaid

LEMMA BudgetReturn == ASSUME BundleInv, BundleBudget, Bundle!Return PROVE BundleBudget'
<1>1. /\ output' = Bundle!Output /\ error' = Bundle!ApplyError \cup ({cause} \ {"none"})
      /\ UNCHANGED <<size, bundled, exhausted, next, task, results, replaced>>
  BY DEF Bundle!Return, Bundle!ctxVars, Bundle!poolVars, Bundle!budgetVars
<1>2. Resolved' = Resolved
  BY <1>1 DEF Resolved, Bundle!Arriving, Bundle!Hrefs
<1>3. output' \subseteq Bundle!Hrefs
  BY <1>1 DEF Bundle!Output, BundleInv, BundleTyped
<1>4. error' \subseteq Bundle!Errors
  BY <1>1 DEF Bundle!ApplyError, Bundle!Errors, BundleInv, BundleTyped
<1> QED
  BY <1>1, <1>2, <1>3, <1>4, BudgetKept DEF BundleBudget, BundlePaid

LEMMA BudgetStep ==
    ASSUME BundleInv, BundleBudget, [Bundle!Next]_bundleState PROVE BundleBudget'
<1>1. CASE /\ UNCHANGED <<size, bundled, exhausted, next, results, replaced, output, error>>
           /\ \A w \in Bundle!Team : task'[w].at = "resolve" => task'[w] = task[w]
  <2>1. Resolved' = Resolved
    BY <1>1 DEF Resolved, Bundle!Arriving, Bundle!Hrefs
  <2> QED
    BY <1>1, <2>1, BudgetKept DEF BundleBudget, BundlePaid
<1>2. CASE Bundle!Begin
  <2>1. \A w \in Bundle!Team : task'[w].at # "resolve"
    BY <1>2 DEF Bundle!Begin, Bundle!Receiving, Bundle!Exited
  <2> QED
    BY <1>1, <1>2, <2>1 DEF Bundle!Begin, Bundle!budgetVars, Bundle!endVars
<1>3. CASE Bundle!ParentDone
  BY <1>1, <1>3 DEF Bundle!ParentDone, Bundle!poolVars, Bundle!budgetVars, Bundle!endVars
<1>4. CASE Bundle!StopProducing
  BY <1>1, <1>4 DEF Bundle!StopProducing, Bundle!budgetVars, Bundle!endVars
<1>5. CASE Bundle!EndCall
  BY <1>1, <1>5 DEF Bundle!EndCall, Bundle!poolVars, Bundle!budgetVars, Bundle!endVars
<1>6. ASSUME NEW w \in Bundle!Team, Bundle!Exit(w) \/ Bundle!CancelOthers(w)
      PROVE  BundleBudget'
  <2>1. /\ task' = [task EXCEPT ![w] = Bundle!Exited]
        /\ UNCHANGED <<size, bundled, exhausted, next, results, replaced, output, error>>
    BY <1>6 DEF Bundle!Exit, Bundle!CancelOthers, Bundle!budgetVars, Bundle!endVars
  <2>2. \A v \in Bundle!Team : task'[v].at = "resolve" => task'[v] = task[v]
    BY <2>1 DEF Bundle!Exited, BundleInv, BundleTyped
  <2> QED
    BY <1>1, <2>1, <2>2
<1>7. CASE UNCHANGED bundleState
  BY <1>1, <1>7 DEF bundleState
<1> QED
  BY <1>2, <1>3, <1>4, <1>5, <1>6, <1>7, BudgetHandOver, BudgetResolve, BudgetCollect,
     BudgetReturn DEF Bundle!Next, Bundle!Step

\* What the invariants of the bundling say of its properties.
LEMMA BundleFacts ==
    ASSUME BundleInv, BundleBudget
    PROVE  Bundle!TypeOK /\ Bundle!BundleWithinLimit
<1>1. bundled \in Nat
  BY ResolvedSum DEF BundleBudget, BundlePaid
<1>2. Bundle!TypeOK
  BY <1>1 DEF Bundle!TypeOK, BundleInv, BundleTyped, BundleBudget, BundlePaid
<1>3. Bundle!SumFunctionOnSet(size, replaced \cup Bundle!Arriving)
        = SumFunctionOnSet(size, Resolved)
  BY BundleSums DEF Resolved
<1> QED
  BY <1>2, <1>3 DEF Bundle!BundleWithinLimit, BundleBudget, BundlePaid

-----------------------------------------------------------------------------
(* The failures of a bundling.  A reference that failed is lost for good:    *)
(* nobody resolves it again, so that it is still missing at the end.         *)

Lost(h) ==
    /\ h < next /\ h \notin Resolved
    /\ \A w \in Bundle!Team : task[w].at = "resolve" => task[w].href # h

\* A failure, on its way to the cause or there already, has lost its reference, and
\* one of the limit has exhausted the budget.
LossKnown ==
    /\ \A w \in Bundle!Team : task[w].at = "cancel" =>
         Lost(task[w].href) /\ (task[w].err = "limit" => exhausted)
    /\ cause = "image" => \E h \in Bundle!Hrefs : Lost(h)
    /\ cause = "limit" => exhausted

BundleExplained == LossKnown /\ Bundle!FailureExplained

LEMMA ExplainedInit == ASSUME Bundle!Init PROVE BundleExplained
<1>1. /\ bundling = "idle" /\ cause = "none"
      /\ task = [w \in Bundle!Team |-> Bundle!Exited]
  BY DEF Bundle!Init, Bundle!NotBegun
<1>2. \A w \in Bundle!Team : task[w].at = "exited"
  BY <1>1 DEF Bundle!Exited
<1> QED
  BY <1>1, <1>2 DEF BundleExplained, LossKnown, Bundle!FailureExplained

\* What is lost stays lost.
LEMMA LostStays ==
    ASSUME BundleInv, BundleBudget, [Bundle!Next]_bundleState,
           NEW h \in Bundle!Hrefs, Lost(h)
    PROVE  Lost(h)'
<1>1. h \in Nat /\ next \in Nat
  BY BundleAssumption DEF Bundle!Hrefs, BundleInv, BundleTyped
<1>2. CASE /\ UNCHANGED <<next, results, replaced>>
           /\ \A w \in Bundle!Team : task'[w].at = "resolve" => task'[w] = task[w]
  <2>1. Resolved' = Resolved
    BY <1>2 DEF Resolved, Bundle!Arriving, Bundle!Hrefs
  <2> QED
    BY <1>2, <2>1 DEF Lost, Bundle!Team
<1>3. CASE Bundle!Begin
  <2>1. \A w \in Bundle!Team : task'[w].at # "resolve"
    BY <1>3 DEF Bundle!Begin, Bundle!Receiving, Bundle!Exited
  <2> QED
    BY <1>2, <1>3, <2>1 DEF Bundle!Begin
<1>4. CASE \/ Bundle!ParentDone \/ Bundle!StopProducing \/ Bundle!EndCall
           \/ Bundle!Return \/ UNCHANGED bundleState
  BY <1>2, <1>4 DEF Bundle!ParentDone, Bundle!StopProducing, Bundle!EndCall,
     Bundle!Return, Bundle!poolVars, bundleState
<1>5. ASSUME NEW w \in Bundle!Team, Bundle!Exit(w) \/ Bundle!CancelOthers(w)
      PROVE  Lost(h)'
  <2>1. /\ task' = [task EXCEPT ![w] = Bundle!Exited]
        /\ UNCHANGED <<next, results, replaced>>
    BY <1>5 DEF Bundle!Exit, Bundle!CancelOthers
  <2>2. \A v \in Bundle!Team : task'[v].at = "resolve" => task'[v] = task[v]
    BY <2>1 DEF Bundle!Exited, BundleInv, BundleTyped
  <2> QED
    BY <1>2, <2>1, <2>2
<1>6. ASSUME NEW w \in Bundle!Team, Bundle!HandOver(w) PROVE Lost(h)'
  <2>1. /\ task' = [task EXCEPT ![w] = Bundle!Busy(next)] /\ next' = next + 1
        /\ UNCHANGED <<results, replaced>>
    BY <1>6 DEF Bundle!HandOver
  <2>2. /\ task'[w].href = next
        /\ \A v \in Bundle!Team : v # w => task'[v] = task[v]
    BY <2>1 DEF Bundle!Busy, BundleInv, BundleTyped
  <2>3. Resolved' = Resolved
    BY <2>1 DEF Resolved, Bundle!Arriving, Bundle!Hrefs
  <2>4. h < next' /\ h # next
    BY <1>1, <2>1 DEF Lost
  <2> QED
    BY <2>2, <2>3, <2>4 DEF Lost, Bundle!Team
<1>7. ASSUME NEW w \in Bundle!Team, Bundle!Resolve(w) PROVE Lost(h)'
  <2>1. PICK e \in {"none", "image", "limit", "echo"} :
          /\ task[w].at = "resolve" /\ results' = results \cup {<<task[w].href, e>>}
          /\ task' = [task EXCEPT ![w] = IF e = "none" THEN Bundle!Receiving
                                        ELSE Bundle!Failing(task[w].href, e)]
          /\ UNCHANGED <<next, replaced>>
    BY <1>7 DEF Bundle!Resolve
  <2>2. \A v \in Bundle!Team : task'[v].at = "resolve" => task'[v] = task[v]
    BY <2>1 DEF BundleInv, BundleTyped, Bundle!Receiving, Bundle!Failing
  <2>3. task[w].href # h
    BY <2>1 DEF Lost
  <2>4. h \in Resolved' => h \in Resolved
    BY <2>1, <2>3 DEF Resolved, Bundle!Arriving
  <2> QED
    BY <2>1, <2>2, <2>4 DEF Lost, Bundle!Team
<1>8. CASE Bundle!Collect
  <2>1. PICK r \in results :
          /\ results' = results \ {r}
          /\ replaced' = IF r[2] = "none" THEN replaced \cup {r[1]} ELSE replaced
          /\ UNCHANGED <<next, task>>
    BY <1>8 DEF Bundle!Collect, Bundle!poolVars
  <2>2. r = <<r[1], r[2]>> /\ r[1] \in Bundle!Hrefs
    BY DEF BundleInv, BundleTyped
  <2>3. h \in Resolved' => h \in Resolved
    BY <2>1, <2>2 DEF Resolved, Bundle!Arriving
  <2> QED
    BY <2>1, <2>3 DEF Lost, Bundle!Team
<1> QED
  BY <1>3, <1>4, <1>5, <1>6, <1>7, <1>8 DEF Bundle!Next, Bundle!Step

\* A step after which no more workers are about to cancel than before, and with the
\* cause it found, keeps what is known of the losses.
LEMMA LossKept ==
    ASSUME BundleInv, BundleBudget, BundleExplained, [Bundle!Next]_bundleState,
           cause' \in {cause, "context"}, exhausted => exhausted',
           \A w \in Bundle!Team : task'[w].at = "cancel" => task'[w] = task[w]
    PROVE  LossKnown'
<1>1. ASSUME NEW w \in Bundle!Team, task'[w].at = "cancel"
      PROVE  Lost(task[w].href)' /\ (task'[w].err = "limit" => exhausted')
  <2>1. PICK h \in Bundle!Hrefs : h = task[w].href
    BY <1>1 DEF BundleInv, BundleTyped
  <2>2. Lost(h) /\ (task[w].err = "limit" => exhausted)
    BY <1>1, <2>1 DEF BundleExplained, LossKnown
  <2>3. Lost(h)'
    BY <2>2, LostStays
  <2>4. task'[w] = task[w]
    BY <1>1
  <2>5. Lost(task[w].href)'
    BY <2>1, <2>3, <2>4 DEF Lost
  <2> QED
    BY <2>2, <2>4, <2>5
<1>2. cause' = "image" => \E h \in Bundle!Hrefs : Lost(h)'
  BY LostStays DEF BundleExplained, LossKnown
<1>3. cause' = "limit" => exhausted'
  BY DEF BundleExplained, LossKnown
<1> QED
  BY <1>1, <1>2, <1>3 DEF LossKnown, Bundle!Team, Bundle!Hrefs

\* A worker that fails has paid for nothing, and nobody else has its reference.
LEMMA ExplainedResolve ==
    ASSUME BundleInv, BundleBudget, BundleExplained, NEW w \in Bundle!Team,
           Bundle!Resolve(w)
    PROVE  BundleExplained'
<1>1. PICK h \in Bundle!Hrefs, e \in {"none", "image", "limit", "echo"} :
        /\ task[w].at = "resolve" /\ h = task[w].href
        /\ results' = results \cup {<<h, e>>}
        /\ task' = [task EXCEPT ![w] = IF e = "none" THEN Bundle!Receiving
                                      ELSE Bundle!Failing(h, e)]
        /\ (exhausted => exhausted') /\ (e = "limit" => exhausted')
        /\ UNCHANGED <<size, bundling, callerDone, cause, next, replaced, output, error>>
  BY DEF Bundle!Resolve, BundleInv, BundleTyped, Bundle!budgetVars, Bundle!ctxVars,
     Bundle!endVars
<1>2. /\ task'[w] = IF e = "none" THEN Bundle!Receiving ELSE Bundle!Failing(h, e)
      /\ \A v \in Bundle!Team : v # w => task'[v] = task[v]
  BY <1>1 DEF BundleInv, BundleTyped
<1>3. [Bundle!Next]_bundleState /\ bundling = "running"
  BY <1>1 DEF Bundle!Next, Bundle!Step, BundleInv, BundleQuiet, BundleTyped,
     Bundle!Exited
<1>4. ASSUME e # "none" PROVE Lost(h)'
  <2>1. Resolved' = Resolved
    BY <1>1, <1>4 DEF Resolved, Bundle!Arriving, Bundle!Hrefs
  <2>2. h < next /\ h \notin Resolved
    BY <1>1 DEF BundleBudget, BundlePlaces
  <2>3. \A v \in Bundle!Team : task'[v].at = "resolve" =>
          v # w /\ task'[v] = task[v] /\ task[v].href # h
    BY <1>1, <1>2, <1>4 DEF BundleBudget, BundlePlaces, Bundle!Failing
  <2> QED
    BY <1>1, <2>1, <2>2, <2>3 DEF Lost, Bundle!Team
<1>5. ASSUME NEW v \in Bundle!Team, task'[v].at = "cancel"
      PROVE  Lost(task[v].href)' /\ (task'[v].err = "limit" => exhausted')
  <2>1. CASE v = w
    <3>1. e # "none" /\ task'[w].href = h /\ task'[w].err = e
      BY <1>2, <1>5, <2>1 DEF Bundle!Failing, Bundle!Receiving
    <3>2. Lost(task[w].href)'
      BY <1>4, <3>1 DEF Lost
    <3> QED
      BY <1>1, <2>1, <3>1, <3>2
  <2>2. CASE v # w
    <3>1. task'[v] = task[v]
      BY <1>2, <2>2
    <3>2. PICK g \in Bundle!Hrefs : g = task[v].href
      BY <1>5, <3>1 DEF BundleInv, BundleTyped
    <3>3. Lost(g) /\ (task[v].err = "limit" => exhausted)
      BY <1>5, <3>1, <3>2 DEF BundleExplained, LossKnown
    <3>4. Lost(g)'
      BY <1>3, <3>3, LostStays
    <3>5. Lost(task[v].href)'
      BY <3>1, <3>2, <3>4 DEF Lost
    <3> QED
      BY <1>1, <3>1, <3>3, <3>5
  <2> QED
    BY <2>1, <2>2
<1>6. cause' = "image" => \E g \in Bundle!Hrefs : Lost(g)'
  BY <1>1, <1>3, LostStays DEF BundleExplained, LossKnown
<1>7. cause' = "limit" => exhausted'
  BY <1>1 DEF BundleExplained, LossKnown
<1>8. LossKnown'
  BY <1>5, <1>6, <1>7 DEF LossKnown, Bundle!Team, Bundle!Hrefs
<1>9. Bundle!FailureExplained'
  BY <1>1, <1>3 DEF Bundle!FailureExplained
<1> QED
  BY <1>8, <1>9 DEF BundleExplained

\* A failure becomes the cause, unless there is one.
LEMMA ExplainedCancel ==
    ASSUME BundleInv, BundleBudget, BundleExplained, NEW w \in Bundle!Team,
           Bundle!CancelOthers(w)
    PROVE  BundleExplained'
<1>1. /\ task[w].at = "cancel" /\ task' = [task EXCEPT ![w] = Bundle!Exited]
      /\ cause' = IF cause = "none" THEN task[w].err ELSE cause
      /\ UNCHANGED <<bundling, exhausted, next, results, replaced>>
  BY DEF Bundle!CancelOthers, Bundle!FirstCause, Bundle!budgetVars
<1>2. [Bundle!Next]_bundleState /\ bundling = "running"
  BY <1>1 DEF Bundle!Next, Bundle!Step, BundleInv, BundleQuiet, BundleTyped,
     Bundle!Exited
<1>3. \A v \in Bundle!Team : task'[v].at = "cancel" => task'[v] = task[v]
  BY <1>1 DEF BundleInv, BundleTyped, Bundle!Exited
<1>4. PICK h \in Bundle!Hrefs : h = task[w].href /\ Lost(h)
  BY <1>1 DEF BundleInv, BundleTyped, BundleExplained, LossKnown
<1>5. Lost(h)'
  BY <1>2, <1>4, LostStays
<1>6. ASSUME NEW v \in Bundle!Team, task'[v].at = "cancel"
      PROVE  Lost(task[v].href)' /\ (task'[v].err = "limit" => exhausted')
  <2>1. task'[v] = task[v]
    BY <1>3, <1>6
  <2>2. PICK g \in Bundle!Hrefs : g = task[v].href
    BY <1>6, <2>1 DEF BundleInv, BundleTyped
  <2>3. Lost(g) /\ (task[v].err = "limit" => exhausted)
    BY <1>6, <2>1, <2>2 DEF BundleExplained, LossKnown
  <2>4. Lost(g)'
    BY <1>2, <2>3, LostStays
  <2>5. Lost(task[v].href)'
    BY <2>1, <2>2, <2>4 DEF Lost
  <2> QED
    BY <1>1, <2>1, <2>3, <2>5
<1>7. cause' = "image" => \E g \in Bundle!Hrefs : Lost(g)'
  BY <1>5
<1>8. cause' = "limit" => exhausted'
  BY <1>1 DEF BundleExplained, LossKnown
<1>9. LossKnown'
  BY <1>6, <1>7, <1>8 DEF LossKnown, Bundle!Team, Bundle!Hrefs
<1>10. Bundle!FailureExplained'
  BY <1>1, <1>2 DEF Bundle!FailureExplained
<1> QED
  BY <1>9, <1>10 DEF BundleExplained

\* A lost reference is not replaced, and the error says why.
LEMMA ExplainedReturn ==
    ASSUME BundleInv, BundleBudget, BundleExplained, Bundle!Return
    PROVE  BundleExplained'
<1>1. /\ bundling = "running" /\ error' = Bundle!ApplyError \cup ({cause} \ {"none"})
      /\ UNCHANGED <<size, callerDone, cause, task, replaced, exhausted>>
  BY DEF Bundle!Return, Bundle!ctxVars, Bundle!poolVars, Bundle!budgetVars
<1>2. LossKnown'
  <2>1. [Bundle!Next]_bundleState
    BY DEF Bundle!Next, Bundle!Step
  <2> QED
    BY <1>1, <2>1, LossKept
<1>3. OwnFailures'
  <2>1. BundleInv'
    BY BundleReturn
  <2> QED
    BY <2>1 DEF BundleInv
<1>4. "image" \in error' => replaced' # Bundle!Hrefs
  <2>1. Bundle!ApplyError \subseteq {"context", "limit"}
    BY DEF Bundle!ApplyError
  <2>2. cause = "image" => replaced # Bundle!Hrefs
    BY DEF BundleExplained, LossKnown, Lost, Resolved
  <2> QED
    BY <1>1, <2>1, <2>2
<1>5. "limit" \in error' => \/ exhausted'
                           \/ Bundle!SumFunctionOnSet(size', replaced') > MaxOutput
  <2>1. "limit" \in Bundle!ApplyError => Bundle!SumFunctionOnSet(size, replaced) > MaxOutput
    BY DEF Bundle!ApplyError
  <2>2. cause = "limit" => exhausted
    BY DEF BundleExplained, LossKnown
  <2> QED
    BY <1>1, <2>1, <2>2
<1>6. Bundle!FailureExplained'
  BY <1>3, <1>4, <1>5 DEF OwnFailures, Bundle!FailureExplained, Bundle!Hrefs
<1> QED
  BY <1>2, <1>6 DEF BundleExplained

LEMMA ExplainedStep ==
    ASSUME BundleInv, BundleBudget, BundleExplained, [Bundle!Next]_bundleState
    PROVE  BundleExplained'
<1>1. ASSUME cause' \in {cause, "context"}, exhausted' = exhausted,
             \A w \in Bundle!Team : task'[w].at = "cancel" => task'[w] = task[w],
             \/ bundling' # "returned"
             \/ UNCHANGED <<size, bundling, callerDone, replaced, error>>
      PROVE  BundleExplained'
  <2>1. LossKnown'
    BY <1>1, LossKept
  <2>2. Bundle!FailureExplained'
    BY <1>1 DEF BundleExplained, Bundle!FailureExplained, Bundle!Hrefs
  <2> QED
    BY <2>1, <2>2 DEF BundleExplained
<1>2. CASE Bundle!Begin
  <2>1. \A w \in Bundle!Team : task'[w].at # "cancel"
    BY <1>2 DEF Bundle!Begin, Bundle!Receiving, Bundle!Exited
  <2> QED
    BY <1>1, <1>2, <2>1 DEF Bundle!Begin, Bundle!ctxVars, Bundle!budgetVars
<1>3. CASE Bundle!ParentDone
  <2>1. cause' \in {cause, "context"}
    BY <1>3 DEF Bundle!ParentDone, Bundle!FirstCause
  <2> QED
    BY <1>1, <1>3, <2>1 DEF Bundle!ParentDone, Bundle!poolVars, Bundle!budgetVars
<1>4. CASE Bundle!StopProducing \/ Bundle!EndCall \/ UNCHANGED bundleState
  BY <1>1, <1>4 DEF Bundle!StopProducing, Bundle!EndCall, Bundle!ctxVars,
     Bundle!poolVars, Bundle!budgetVars, Bundle!endVars, bundleState
<1>5. CASE Bundle!Collect
  BY <1>1, <1>5 DEF Bundle!Collect, Bundle!ctxVars, Bundle!poolVars, Bundle!budgetVars
<1>6. ASSUME NEW w \in Bundle!Team, Bundle!HandOver(w) \/ Bundle!Exit(w)
      PROVE  BundleExplained'
  <2>1. \A v \in Bundle!Team : task'[v].at = "cancel" => task'[v] = task[v]
    BY <1>6 DEF Bundle!HandOver, Bundle!Exit, Bundle!Busy, Bundle!Exited, BundleInv,
       BundleTyped
  <2> QED
    BY <1>1, <1>6, <2>1 DEF Bundle!HandOver, Bundle!Exit, Bundle!ctxVars,
       Bundle!budgetVars, Bundle!endVars
<1> QED
  BY <1>2, <1>3, <1>4, <1>5, <1>6, ExplainedResolve, ExplainedCancel, ExplainedReturn
  DEF Bundle!Next, Bundle!Step

-----------------------------------------------------------------------------
(* The choice of routes.  What a flavor reports is what it would report      *)
(* alone, unless the stage could not pay for it or a cancellation cut it     *)
(* short; the stage counter is the sum of what has been charged, and more     *)
(* only when a cancellation has kept an addition from being noted.            *)

RouteTyped ==
    /\ stage \in {"idle", "routing", "returned"} \cup Route!Finalizing
    /\ plan \in [Route!Flavors -> Route!Plans] /\ base \in StageUsed
    /\ doing \in [Route!Flavors -> {"search", "charge", "swap", "send", "joined"}]
    /\ spent \in [Route!Flavors -> 0..FlavorLimit]
    /\ charged \in [Route!Flavors -> 0..FlavorLimit]
    /\ seen \in [Route!Flavors -> Nat] /\ used \in Nat
    /\ response \in [Route!Flavors -> Route!Results]
    /\ stopped \in BOOLEAN /\ ctxDone \in BOOLEAN /\ sawDone \in BOOLEAN
    /\ routed \in 0..NFlavors /\ outcome \in {"none", "ok"} \cup Route!Failures

\* What has been charged, or loaded to be charged, fits the stage, and no flavor
\* takes more for charged than it has spent.
StagePaid ==
    /\ used <= StageLimit
    /\ base + SumFunctionOnSet(charged, Route!Flavors) <= used
    /\ ~ctxDone \/ outcome = "ok" => used = base + SumFunctionOnSet(charged, Route!Flavors)
    /\ \A f \in Route!Flavors :
         /\ charged[f] <= spent[f]
         /\ doing[f] = "swap" => seen[f] + spent[f] - charged[f] <= StageLimit

\* Where a flavor's worker is, and what it has spent and reported by then.
Reported(f) ==
    /\ doing[f] = "search" => response[f] = "none" /\ spent[f] = 0
    /\ doing[f] \in {"search", "charge", "swap"} => charged[f] = 0
    /\ stage = "routing" /\ doing[f] # "search" => response[f] # "none"
    /\ stage # "routing" => doing[f] = "joined"
    /\ stage = "idle" => charged[f] = 0 /\ spent[f] = 0 /\ response[f] = "none"

\* Why a flavor reports what it does.
Justified(f) ==
    /\ response[f] = "routes" => plan[f].kind = "routes"
    /\ response[f] = "panic" => plan[f].kind = "panics"
    /\ response[f] = "error" => plan[f].kind = "fails"
    /\ response[f] = "context" => stopped
    /\ plan[f].kind = "panics" /\ response[f] # "none" => response[f] = "panic" \/ stopped
    /\ stage = "routing" /\ response[f] = "routes" =>
         spent[f] = plan[f].work /\ (doing[f] \in {"send", "joined"} => charged[f] = spent[f])

\* Flavors are cancelled by the caller or for the panic of one of them.
StoppedFor ==
    /\ ctxDone => stopped
    /\ stopped => ctxDone \/ \E f \in Route!Flavors : response[f] = "panic"

\* If no flavor fails by itself and nobody cancels, they all have routes that the
\* stage can pay for.
AllHaveRoutes ==
    ~ctxDone /\ (\A f \in Route!Flavors : plan[f].kind # "fails") =>
        /\ \A f \in Route!Flavors : plan[f].kind # "panics"
        /\ Route!With("routes") = Route!Flavors
        /\ ~(base + Route!Total([f \in Route!Flavors |-> plan[f].work]) > StageLimit)

\* What is finalized has passed the verdict.
SelectedWell ==
    stage \in Route!Finalizing => (\E f \in Route!Flavors : response[f] = "routes")
                                 /\ AllHaveRoutes

\* Only the selected flavor has units that are still to be charged.
Finalized ==
    /\ stage \in Route!Finalizing =>
         \A f \in Route!Flavors :
             response[f] = "routes" => f = Route!Selected \/ charged[f] = spent[f]
    /\ outcome = "ok" =>
         /\ stage = "returned"
         /\ \A f \in Route!Flavors : response[f] = "routes" => charged[f] = spent[f]

RouteInv ==
    /\ RouteTyped /\ StagePaid /\ StoppedFor /\ SelectedWell /\ Finalized
    /\ \A f \in Route!Flavors : Reported(f) /\ Justified(f)
    /\ Route!ScheduleIndependent

LEMMA RouteSums == \A f, S : Route!SumFunctionOnSet(f, S) = SumFunctionOnSet(f, S)
  BY DEF Route!SumFunctionOnSet, SumFunctionOnSet, Route!FoldFunctionOnSet,
         FoldFunctionOnSet, Route!MapThenFoldSet, MapThenFoldSet

LEMMA FlavorFacts ==
    /\ NFlavors \in Nat /\ NFlavors >= 1 /\ FlavorLimit \in Nat /\ FlavorLimit >= 1
    /\ StageLimit \in Nat /\ StageUsed \subseteq Nat
    /\ \A b \in StageUsed : b <= StageLimit
    /\ 1 \in Route!Flavors /\ IsFiniteSet(Route!Flavors) /\ Route!Flavors = 1..NFlavors
<1>1. /\ NFlavors \in Nat /\ NFlavors >= 1 /\ FlavorLimit \in Nat /\ FlavorLimit >= 1
      /\ StageLimit \in Nat /\ StageUsed \subseteq 0..StageLimit
  BY RouteAssumption
<1>2. IsFiniteSet(1..NFlavors)
  BY <1>1, FS_Interval
<1> QED
  BY <1>1, <1>2 DEF Route!Flavors

LEMMA PlanFacts ==
    \A p \in Route!Plans :
        /\ p.kind \in {"routes", "fails", "panics"}
        /\ p.work \in Nat /\ p.work <= FlavorLimit
  BY FlavorFacts DEF Route!Plans

LEMMA RouteNumbers ==
    ASSUME RouteTyped
    PROVE  /\ used \in Nat /\ base \in Nat
           /\ \A f \in Route!Flavors : spent[f] \in Nat
<1>1. \A n \in 0..FlavorLimit : n \in Nat
  BY FlavorFacts
<1>2. \A f \in Route!Flavors : spent[f] \in Nat
  BY <1>1 DEF RouteTyped
<1>3. used \in Nat /\ base \in Nat
  BY FlavorFacts DEF RouteTyped
<1> QED
  BY <1>2, <1>3

LEMMA ChargedSum ==
    ASSUME RouteTyped
    PROVE  /\ \A f \in Route!Flavors : charged[f] \in Int /\ charged[f] \in Nat
           /\ SumFunctionOnSet(charged, Route!Flavors) \in Nat
<1>1. \A f \in Route!Flavors : charged[f] \in Nat
  <2>1. \A n \in 0..FlavorLimit : n \in Nat
    BY FlavorFacts
  <2> QED
    BY <2>1 DEF RouteTyped
<1>2. SumFunctionOnSet(charged, Route!Flavors) \in Nat
  BY ONLY <1>1, FlavorFacts, SumNat
<1>3. \A n \in Nat : n \in Int
  OBVIOUS
<1> QED
  BY <1>1, <1>2, <1>3

\* The charge of one flavor is what the stage counter grows by.
LEMMA StageCharge ==
    ASSUME RouteTyped, NEW f \in Route!Flavors, NEW n \in 0..FlavorLimit,
           charged' = [charged EXCEPT ![f] = n]
    PROVE  SumFunctionOnSet(charged', Route!Flavors)
             = SumFunctionOnSet(charged, Route!Flavors) - charged[f] + n
<1>1. \A g \in Route!Flavors : charged[g] \in Int
  BY ChargedSum
<1>2. n \in Int
  BY FlavorFacts
<1>3. charged'[f] = n /\ \A g \in Route!Flavors \ {f} : charged'[g] = charged[g]
  BY DEF RouteTyped
<1>4. \A g \in Route!Flavors : charged[g] \in Int /\ charged'[g] \in Int
  BY <1>1, <1>2, <1>3
<1>5. \A g \in Route!Flavors \ {f} : charged[g] = charged'[g]
  BY <1>3
<1>6. SumFunctionOnSet(charged', Route!Flavors)
        = SumFunctionOnSet(charged, Route!Flavors) - charged[f] + charged'[f]
  <2> DEFINE F == Route!Flavors
             c == charged'
  <2>1. IsFiniteSet(F) /\ f \in F
    BY FlavorFacts
  <2>2. \A g \in F : charged[g] \in Int /\ c[g] \in Int
    BY <1>4
  <2>3. \A g \in F \ {f} : charged[g] = c[g]
    BY <1>5
  <2>4. SumFunctionOnSet(c, F) = SumFunctionOnSet(charged, F) - charged[f] + c[f]
    <3> HIDE DEF F, c
    <3> QED
      BY <2>1, <2>2, <2>3, SumChange
  <2> QED
    BY <2>4
<1> QED
  BY <1>3, <1>6

\* A charge within what the stage has left keeps the counter, noted or not.
LEMMA ChargeKeeps ==
    ASSUME RouteTyped, StagePaid, NEW f \in Route!Flavors, outcome # "ok",
           spent[f] - charged[f] <= StageLimit - used,
           used' = used + (spent[f] - charged[f]), base' = base,
           \/ charged' = [charged EXCEPT ![f] = spent[f]]
           \/ ctxDone /\ charged' = charged
    PROVE  /\ used' \in Nat /\ used' <= StageLimit
           /\ base' + SumFunctionOnSet(charged', Route!Flavors) <= used'
           /\ ~ctxDone => used' = base' + SumFunctionOnSet(charged', Route!Flavors)
           /\ charged' \in [Route!Flavors -> 0..FlavorLimit]
           /\ \A g \in Route!Flavors : charged'[g] <= spent[g]
<1> DEFINE total == SumFunctionOnSet(charged, Route!Flavors)
           after == SumFunctionOnSet(charged', Route!Flavors)
           s == spent[f]
           c == charged[f]
<1>1. /\ total \in Nat /\ s \in Nat /\ c \in Nat /\ used \in Nat /\ base \in Nat
      /\ StageLimit \in Nat
  BY ChargedSum, RouteNumbers, FlavorFacts
<1>2. /\ base + total <= used /\ (~ctxDone => used = base + total) /\ c <= s
  BY DEF StagePaid
<1>3. spent[f] \in 0..FlavorLimit
  BY DEF RouteTyped
<1>4. charged' = [charged EXCEPT ![f] = spent[f]] => after = total - c + s
  BY <1>3, StageCharge
<1>5. used' = used + (s - c) /\ s - c <= StageLimit - used /\ base' = base
  OBVIOUS
<1>6. after = total - c + s \/ (ctxDone /\ after = total)
  BY <1>4
<1>7. /\ used' \in Nat /\ used' <= StageLimit /\ base' + after <= used'
      /\ ~ctxDone => used' = base' + after
  <2> HIDE DEF total, after, s, c
  <2> QED
    BY ONLY <1>1, <1>2, <1>5, <1>6
<1>8. charged' \in [Route!Flavors -> 0..FlavorLimit]
  BY <1>3 DEF RouteTyped
<1>9. \A g \in Route!Flavors : charged'[g] <= spent[g]
  <2>1. \A g \in Route!Flavors : charged'[g] = charged[g] \/ charged'[g] = spent[g]
    BY DEF RouteTyped
  <2>2. \A g \in Route!Flavors : charged[g] <= spent[g] /\ spent[g] <= spent[g]
    BY RouteNumbers DEF StagePaid
  <2> QED
    BY <2>1, <2>2
<1> QED
  BY <1>7, <1>8, <1>9

LEMMA RouteInit == ASSUME Route!Init PROVE RouteInv
<1>1. /\ plan \in [Route!Flavors -> Route!Plans] /\ base \in StageUsed /\ stage = "idle"
      /\ doing = [f \in Route!Flavors |-> "joined"]
      /\ spent = [f \in Route!Flavors |-> 0] /\ charged = [f \in Route!Flavors |-> 0]
      /\ seen = [f \in Route!Flavors |-> 0] /\ used = base
      /\ response = [f \in Route!Flavors |-> "none"]
      /\ stopped = FALSE /\ ctxDone = FALSE /\ sawDone = FALSE
      /\ routed = 0 /\ outcome = "none"
  BY DEF Route!Init, Route!NotBegun
<1>2. base \in Nat /\ base <= StageLimit /\ 0 \in 0..NFlavors /\ 0 \in 0..FlavorLimit
  BY <1>1, FlavorFacts
<1>3. RouteTyped
  BY <1>1, <1>2 DEF RouteTyped, Route!Results
<1>4. SumFunctionOnSet(charged, Route!Flavors) = 0
  <2>1. \A f \in Route!Flavors : charged[f] = 0
    BY <1>1
  <2> QED
    BY ONLY <2>1, SumZero, FlavorFacts
<1>5. StagePaid
  <2>1. \A f \in Route!Flavors :
          charged[f] = 0 /\ spent[f] = 0 /\ doing[f] = "joined"
    BY <1>1
  <2>2. used = base + SumFunctionOnSet(charged, Route!Flavors)
    BY <1>1, <1>2, <1>4
  <2> QED
    BY <1>1, <1>2, <2>1, <2>2 DEF StagePaid
<1>6. \A f \in Route!Flavors : Reported(f) /\ Justified(f)
  BY <1>1 DEF Reported, Justified
<1> QED
  BY <1>1, <1>3, <1>5, <1>6
  DEF RouteInv, StoppedFor, SelectedWell, Finalized, Route!Finalizing,
      Route!ScheduleIndependent

\* A step of one flavor's worker: nothing else moves.
LEMMA FlavorStep ==
    ASSUME RouteInv, NEW f \in Route!Flavors, stage = "routing",
           UNCHANGED <<stage, plan, base, stopped, ctxDone, sawDone, routed, outcome>>,
           \A g \in Route!Flavors \ {f} :
               /\ doing'[g] = doing[g] /\ spent'[g] = spent[g]
               /\ charged'[g] = charged[g] /\ response'[g] = response[g],
           response[f] = "panic" => response'[f] = "panic",
           RouteTyped', StagePaid', Reported(f)', Justified(f)'
    PROVE  RouteInv'
<1>1. \A g \in Route!Flavors \ {f} : Reported(g)' /\ Justified(g)'
  BY DEF RouteInv, Reported, Justified
<1>2. StoppedFor'
  BY DEF RouteInv, StoppedFor, Route!Flavors
<1>3. SelectedWell' /\ Finalized' /\ Route!ScheduleIndependent'
  BY DEF RouteInv, SelectedWell, Finalized, Route!Finalizing, Route!ScheduleIndependent
<1>4. \A g \in Route!Flavors : Reported(g)' /\ Justified(g)'
  BY <1>1
<1> QED
  BY <1>2, <1>3, <1>4 DEF RouteInv, Route!Flavors

LEMMA RouteSearch ==
    ASSUME RouteInv, NEW f \in Route!Flavors, Route!Search(f) PROVE RouteInv'
<1>1. PICK n \in 0..plan[f].work, r \in {"routes", "error", "panic", "context"} :
        /\ spent' = [spent EXCEPT ![f] = n] /\ response' = [response EXCEPT ![f] = r]
        /\ \/ /\ n = plan[f].work
              /\ r = CASE plan[f].kind = "routes" -> "routes"
                       [] plan[f].kind = "fails" -> "error"
                       [] plan[f].kind = "panics" -> "panic"
           \/ stopped /\ r = "context"
  <2>1. plan[f].kind \in {"routes", "fails", "panics"} /\ plan[f].work \in 0..plan[f].work
    BY PlanFacts DEF RouteInv, RouteTyped
  <2>2. CASE /\ spent' = [spent EXCEPT ![f] = plan[f].work]
             /\ Route!Respond(f, CASE plan[f].kind = "routes" -> "routes"
                                   [] plan[f].kind = "fails" -> "error"
                                   [] plan[f].kind = "panics" -> "panic")
    BY <2>1, <2>2 DEF Route!Respond
  <2>3. CASE /\ stopped
             /\ \E w \in 0..plan[f].work : spent' = [spent EXCEPT ![f] = w]
             /\ Route!Respond(f, "context")
    BY <2>3 DEF Route!Respond
  <2> QED
    BY <2>2, <2>3 DEF Route!Search
<1>2. /\ doing[f] = "search" /\ doing' = [doing EXCEPT ![f] = "charge"]
      /\ UNCHANGED <<stage, plan, base, stopped, ctxDone, sawDone, routed, outcome,
                     seen, charged, used>>
  BY DEF Route!Search, Route!Worker, Route!endVars
<1>3. stage = "routing" /\ charged[f] = 0 /\ response[f] = "none"
  BY <1>2 DEF RouteInv, Reported
<1>4. n \in 0..FlavorLimit
  <2>1. plan[f].work \in Nat /\ plan[f].work <= FlavorLimit
    BY PlanFacts DEF RouteInv, RouteTyped
  <2> QED
    BY <2>1, FlavorFacts
<1>5. RouteTyped'
  BY <1>1, <1>2, <1>4 DEF RouteInv, RouteTyped, Route!Results, Route!Failures,
     Route!Flavors, Route!Plans
<1>6. /\ doing'[f] = "charge" /\ spent'[f] = n /\ response'[f] = r
      /\ \A g \in Route!Flavors \ {f} :
           doing'[g] = doing[g] /\ spent'[g] = spent[g] /\ response'[g] = response[g]
  BY <1>1, <1>2 DEF RouteInv, RouteTyped
<1>7. StagePaid'
  <2>1. \A g \in Route!Flavors : doing'[g] = "swap" => g # f
    BY <1>6
  <2>2. \A g \in Route!Flavors :
          doing'[g] = "swap" => seen'[g] + spent'[g] - charged'[g] <= StageLimit
    BY <1>2, <1>6, <2>1 DEF RouteInv, StagePaid
  <2>3. charged'[f] <= spent'[f]
    <3>1. charged'[f] = 0 /\ spent'[f] = n /\ n \in Nat
      BY <1>2, <1>3, <1>4, <1>6, FlavorFacts
    <3> QED
      BY <3>1
  <2>4. \A g \in Route!Flavors : charged'[g] <= spent'[g]
    BY <1>2, <1>6, <2>3 DEF RouteInv, StagePaid
  <2> QED
    BY <1>2, <2>2, <2>4 DEF RouteInv, StagePaid, Route!Flavors
<1>8. Reported(f)'
  BY <1>1, <1>2, <1>3, <1>6 DEF Reported
<1>9. Justified(f)'
  <2>1. plan[f].kind \in {"routes", "fails", "panics"}
    BY PlanFacts DEF RouteInv, RouteTyped
  <2> QED
    BY <1>1, <1>2, <1>3, <1>6, <2>1 DEF Justified
<1> QED
  BY <1>2, <1>3, <1>5, <1>6, <1>7, <1>8, <1>9, FlavorStep

LEMMA RouteLoadStage ==
    ASSUME RouteInv, NEW f \in Route!Flavors, Route!LoadStage(f) PROVE RouteInv'
<1> DEFINE pending == spent[f] - charged[f]
<1>1. PICK to \in {"send", "swap"} :
        /\ doing[f] = "charge" /\ doing' = [doing EXCEPT ![f] = to]
        /\ to = "send" => /\ Route!FinishError(f, IF ctxDone THEN "context" ELSE "stage")
                          /\ UNCHANGED seen
        /\ to = "swap" => /\ pending <= StageLimit - used
                          /\ seen' = [seen EXCEPT ![f] = used] /\ UNCHANGED response
        /\ UNCHANGED <<stage, plan, base, stopped, ctxDone, sawDone, routed, outcome,
                       spent, charged, used>>
  BY DEF Route!LoadStage, Route!Worker, Route!endVars, Route!Pending
<1>2. stage = "routing" /\ charged[f] = 0 /\ response[f] # "none"
  BY <1>1 DEF RouteInv, Reported
<1>3. /\ doing'[f] = to
      /\ \A g \in Route!Flavors \ {f} : doing'[g] = doing[g] /\ response'[g] = response[g]
                                       /\ seen'[g] = seen[g]
  BY <1>1 DEF RouteInv, RouteTyped, Route!FinishError, Route!Respond
<1>4. /\ response'[f] = IF to = "send" /\ response[f] = "routes"
                        THEN (IF ctxDone THEN "context" ELSE "stage") ELSE response[f]
      /\ response' \in [Route!Flavors -> Route!Results]
  BY <1>1 DEF RouteInv, RouteTyped, Route!FinishError, Route!Respond, Route!Results,
     Route!Failures
<1>5. seen' \in [Route!Flavors -> Nat] /\ (to = "swap" => seen'[f] = used)
  BY <1>1 DEF RouteInv, RouteTyped
<1>6. RouteTyped'
  BY <1>1, <1>4, <1>5 DEF RouteInv, RouteTyped, Route!Results, Route!Failures,
     Route!Flavors, Route!Plans
<1>7. StagePaid'
  <2>1. \A g \in Route!Flavors : charged'[g] <= spent'[g]
    BY <1>1 DEF RouteInv, StagePaid
  <2>2. ASSUME to = "swap" PROVE seen'[f] + spent'[f] - charged'[f] <= StageLimit
    <3>1. /\ spent[f] \in Int /\ charged[f] \in Int /\ used \in Int /\ StageLimit \in Int
          /\ spent[f] - charged[f] <= StageLimit - used
      BY <1>1, <2>2, FlavorFacts DEF RouteInv, RouteTyped
    <3>2. used + spent[f] - charged[f] <= StageLimit
      BY ONLY <3>1
    <3> QED
      BY <1>1, <1>5, <2>2, <3>2
  <2>3. \A g \in Route!Flavors :
          doing'[g] = "swap" => seen'[g] + spent'[g] - charged'[g] <= StageLimit
    BY <1>1, <1>3, <2>2 DEF RouteInv, StagePaid
  <2> QED
    BY <1>1, <2>1, <2>3 DEF RouteInv, StagePaid, Route!Flavors
<1>8. Reported(f)'
  BY <1>1, <1>2, <1>3, <1>4 DEF Reported
<1>9. Justified(f)'
  <2>1. ctxDone => stopped
    BY DEF RouteInv, StoppedFor
  <2> QED
    BY <1>1, <1>2, <1>3, <1>4, <2>1 DEF RouteInv, Justified
<1> QED
  BY <1>1, <1>2, <1>3, <1>4, <1>6, <1>7, <1>8, <1>9, FlavorStep

\* What a flavor's charge adds to the counter is what it adds to the sum.
LEMMA RouteSwapStage ==
    ASSUME RouteInv, NEW f \in Route!Flavors, Route!SwapStage(f) PROVE RouteInv'
<1> DEFINE pending == spent[f] - charged[f]
<1>1. PICK to \in {"send", "charge"} :
        /\ doing[f] = "swap" /\ doing' = [doing EXCEPT ![f] = to]
        /\ to = "charge" => UNCHANGED <<used, charged, response>>
        /\ to = "send" => /\ used = seen[f] /\ used' = seen[f] + pending
                          /\ \/ charged' = [charged EXCEPT ![f] = spent[f]]
                             \/ ctxDone /\ charged' = charged
                          /\ IF stopped THEN Route!FinishError(f, "context")
                             ELSE UNCHANGED response
        /\ seen' = [seen EXCEPT ![f] = 0]
        /\ UNCHANGED <<stage, plan, base, stopped, ctxDone, sawDone, routed, outcome,
                       spent>>
  BY DEF Route!SwapStage, Route!Account, Route!Worker, Route!endVars, Route!Pending
<1>2. stage = "routing" /\ charged[f] = 0 /\ response[f] # "none"
  BY <1>1 DEF RouteInv, Reported
<1>3. /\ doing'[f] = to
      /\ \A g \in Route!Flavors \ {f} : doing'[g] = doing[g] /\ response'[g] = response[g]
                                       /\ seen'[g] = seen[g] /\ charged'[g] = charged[g]
  BY <1>1 DEF RouteInv, RouteTyped, Route!FinishError, Route!Respond
<1>4. /\ response'[f] = IF to = "send" /\ stopped /\ response[f] = "routes"
                        THEN "context" ELSE response[f]
      /\ response' \in [Route!Flavors -> Route!Results]
  BY <1>1 DEF RouteInv, RouteTyped, Route!FinishError, Route!Respond, Route!Results,
     Route!Failures
<1>5. /\ seen' \in [Route!Flavors -> Nat] /\ charged' \in [Route!Flavors -> 0..FlavorLimit]
      /\ to = "send" /\ ~ctxDone => charged'[f] = spent[f]
  BY <1>1 DEF RouteInv, RouteTyped
<1>6. /\ used' \in Nat /\ used' <= StageLimit
      /\ base' + SumFunctionOnSet(charged', Route!Flavors) <= used'
      /\ ~ctxDone => used' = base' + SumFunctionOnSet(charged', Route!Flavors)
      /\ \A g \in Route!Flavors : charged'[g] <= spent[g]
  <2>1. CASE to = "charge"
    BY <1>1, <2>1 DEF RouteInv, StagePaid, RouteTyped
  <2>2. CASE to = "send"
    <3>1. used' = used + (spent[f] - charged[f]) /\ seen[f] = used /\ base' = base
          /\ \/ charged' = [charged EXCEPT ![f] = spent[f]]
             \/ ctxDone /\ charged' = charged
      BY <1>1, <2>2
    <3>2. spent[f] - charged[f] <= StageLimit - used
      <4> DEFINE s == spent[f]
                 c == charged[f]
      <4>1. used + s - c <= StageLimit /\ s \in Nat /\ c \in Nat /\ used \in Nat
            /\ StageLimit \in Nat
        BY <1>1, <3>1, ChargedSum, RouteNumbers, FlavorFacts DEF RouteInv, StagePaid
      <4> HIDE DEF s, c
      <4>2. s - c <= StageLimit - used
        BY ONLY <4>1
      <4> QED
        BY <4>2 DEF s, c
    <3>3. outcome # "ok"
      BY <1>2 DEF RouteInv, Finalized
    <3> QED
      BY <3>1, <3>2, <3>3, ChargeKeeps DEF RouteInv
  <2> QED
    BY <2>1, <2>2
<1>7. RouteTyped'
  BY <1>1, <1>4, <1>5, <1>6 DEF RouteInv, RouteTyped, Route!Results, Route!Failures,
     Route!Flavors, Route!Plans
<1>8. StagePaid'
  <2>1. \A g \in Route!Flavors :
          doing'[g] = "swap" => seen'[g] + spent'[g] - charged'[g] <= StageLimit
    BY <1>1, <1>3 DEF RouteInv, StagePaid
  <2>2. outcome # "ok"
    BY <1>2 DEF RouteInv, Finalized
  <2> QED
    BY <1>1, <1>6, <2>1, <2>2 DEF StagePaid, Route!Flavors
<1>9. Reported(f)'
  BY <1>1, <1>2, <1>3, <1>4 DEF Reported
<1>10. Justified(f)'
  <2>1. ctxDone => stopped
    BY DEF RouteInv, StoppedFor
  <2> QED
    BY <1>1, <1>2, <1>3, <1>4, <1>5, <2>1 DEF RouteInv, Justified
<1> QED
  BY <1>1, <1>2, <1>3, <1>4, <1>7, <1>8, <1>9, <1>10, FlavorStep

LEMMA RouteReceive ==
    ASSUME RouteInv, NEW f \in Route!Flavors, Route!Receive(f) PROVE RouteInv'
<1>1. /\ doing[f] = "send" /\ doing' = [doing EXCEPT ![f] = "joined"]
      /\ stopped' = (stopped \/ response[f] = "panic")
      /\ UNCHANGED <<stage, plan, base, spent, seen, charged, response, used, ctxDone,
                     sawDone, routed, outcome>>
  BY DEF Route!Receive, Route!endVars
<1>2. stage = "routing"
  BY <1>1 DEF RouteInv, Reported
<1>3. /\ doing'[f] = "joined"
      /\ \A g \in Route!Flavors \ {f} : doing'[g] = doing[g]
  BY <1>1 DEF RouteInv, RouteTyped
<1>4. RouteTyped'
  BY <1>1 DEF RouteInv, RouteTyped, Route!Flavors, Route!Plans, Route!Results,
     Route!Failures
<1>5. StagePaid'
  <2>1. \A g \in Route!Flavors :
          doing'[g] = "swap" => seen'[g] + spent'[g] - charged'[g] <= StageLimit
    BY <1>1, <1>3 DEF RouteInv, StagePaid
  <2> QED
    BY <1>1, <2>1 DEF RouteInv, StagePaid, Route!Flavors
<1>6. \A g \in Route!Flavors : Reported(g)' /\ Justified(g)'
  <2>1. stopped => stopped'
    BY <1>1
  <2>2. \A g \in Route!Flavors :
          doing'[g] = doing[g] \/ (doing[g] = "send" /\ doing'[g] = "joined")
    BY <1>1, <1>3
  <2>3. \A g \in Route!Flavors : Reported(g)'
    BY <1>1, <1>2, <2>2 DEF RouteInv, Reported
  <2>4. \A g \in Route!Flavors : Justified(g)'
    <3> TAKE g \in Route!Flavors
    <3>1. Justified(g)
      BY DEF RouteInv
    <3>2. /\ stage' = stage /\ plan'[g] = plan[g] /\ response'[g] = response[g]
          /\ spent'[g] = spent[g] /\ charged'[g] = charged[g]
          /\ doing'[g] \in {"send", "joined"} <=> doing[g] \in {"send", "joined"}
      BY <1>1, <2>2
    <3> QED
      BY <2>1, <3>1, <3>2 DEF Justified
  <2> QED
    BY <2>3, <2>4
<1>7. StoppedFor'
  <2>1. stopped' <=> (stopped \/ response[f] = "panic")
    BY <1>1
  <2>2. \A g \in Route!Flavors : response'[g] = response[g]
    BY <1>1
  <2>3. ctxDone' => stopped'
    BY <1>1, <2>1 DEF RouteInv, StoppedFor
  <2>4. stopped' => ctxDone' \/ \E g \in Route!Flavors : response'[g] = "panic"
    BY <1>1, <2>1, <2>2 DEF RouteInv, StoppedFor
  <2> QED
    BY <2>3, <2>4 DEF StoppedFor, Route!Flavors
<1>8. SelectedWell' /\ Finalized' /\ Route!ScheduleIndependent'
  BY <1>1, <1>2 DEF RouteInv, SelectedWell, Finalized, Route!Finalizing,
     Route!ScheduleIndependent
<1> QED
  BY <1>4, <1>5, <1>6, <1>7, <1>8 DEF RouteInv, Route!Flavors

LEMMA RouteBegin == ASSUME RouteInv, Route!Begin PROVE RouteInv'
<1>1. /\ stage = "idle" /\ stage' = "routing"
      /\ doing' = [f \in Route!Flavors |-> "search"]
      /\ UNCHANGED <<plan, base, spent, seen, charged, response, used, stopped, ctxDone,
                     sawDone, routed, outcome>>
  BY DEF Route!Begin, Route!endVars
<1>2. RouteTyped'
  BY <1>1 DEF RouteInv, RouteTyped, Route!Flavors, Route!Plans, Route!Results,
     Route!Failures
<1>3. StagePaid'
  BY <1>1 DEF RouteInv, StagePaid, Route!Flavors
<1>4. \A g \in Route!Flavors : Reported(g)' /\ Justified(g)'
  BY <1>1 DEF RouteInv, Reported, Justified
<1>5. StoppedFor' /\ SelectedWell' /\ Finalized' /\ Route!ScheduleIndependent'
  BY <1>1 DEF RouteInv, StoppedFor, SelectedWell, Finalized, Route!Finalizing,
     Route!ScheduleIndependent, Route!Flavors
<1> QED
  BY <1>2, <1>3, <1>4, <1>5 DEF RouteInv, Route!Flavors

LEMMA RouteParentDone == ASSUME RouteInv, Route!ParentDone PROVE RouteInv'
<1>1. /\ stage \in {"routing"} \cup Route!Finalizing /\ ctxDone' = TRUE /\ stopped' = TRUE
      /\ UNCHANGED <<stage, plan, base, doing, spent, seen, charged, response, used,
                     sawDone, routed, outcome>>
  BY DEF Route!ParentDone, Route!workVars, Route!endVars
<1>2. RouteTyped'
  BY <1>1 DEF RouteInv, RouteTyped, Route!Flavors, Route!Plans, Route!Results,
     Route!Failures, Route!Finalizing
<1>3. StagePaid'
  BY <1>1 DEF RouteInv, StagePaid, Route!Flavors
<1>4. \A g \in Route!Flavors : Reported(g)' /\ Justified(g)'
  BY <1>1 DEF RouteInv, Reported, Justified
<1>5. StoppedFor' /\ SelectedWell'
  BY <1>1 DEF RouteInv, StoppedFor, SelectedWell, AllHaveRoutes, Route!Flavors,
     Route!Finalizing
<1>6. Finalized' /\ Route!ScheduleIndependent'
  <2>1. Route!Selected' = Route!Selected
    BY <1>1 DEF Route!Selected, Route!Best, Route!With, Route!Flavors
  <2> QED
    BY <1>1, <2>1 DEF RouteInv, Finalized, Route!Finalizing, Route!ScheduleIndependent,
       Route!Flavors
<1> QED
  BY <1>2, <1>3, <1>4, <1>5, <1>6 DEF RouteInv, Route!Flavors

\* When all flavors have joined, none was refused by the stage, and nobody was
\* cancelled, they all have routes, and all their work has been charged.
LEMMA AllRoutes ==
    ASSUME RouteInv, stage = "routing", ~ctxDone,
           \A f \in Route!Flavors : /\ doing[f] = "joined" /\ plan[f].kind # "fails"
                                    /\ response[f] \notin {"panic", "stage"}
    PROVE  /\ \A f \in Route!Flavors : plan[f].kind # "panics" /\ response[f] = "routes"
           /\ Route!With("routes") = Route!Flavors
           /\ ~(base + Route!Total([f \in Route!Flavors |-> plan[f].work]) > StageLimit)
<1>1. ~stopped
  BY DEF RouteInv, StoppedFor
<1>2. ASSUME NEW f \in Route!Flavors
      PROVE  /\ plan[f].kind # "panics" /\ response[f] = "routes"
             /\ charged[f] = plan[f].work
  <2>1. response[f] # "none"
    BY DEF RouteInv, Reported
  <2>2. response[f] \in {"routes", "panic", "error", "context", "stage"}
    BY <2>1 DEF RouteInv, RouteTyped, Route!Results, Route!Failures
  <2>3. plan[f].kind # "panics"
    BY <1>1, <2>1 DEF RouteInv, Justified
  <2>4. response[f] = "routes"
    BY <1>1, <2>2 DEF RouteInv, Justified
  <2>5. charged[f] = plan[f].work
    BY <2>4 DEF RouteInv, Justified
  <2> QED
    BY <2>3, <2>4, <2>5
<1>3. Route!With("routes") = Route!Flavors
  BY <1>2 DEF Route!With
<1>4. Route!Total([f \in Route!Flavors |-> plan[f].work])
        = SumFunctionOnSet(charged, Route!Flavors)
  <2> DEFINE work == [f \in Route!Flavors |-> plan[f].work]
  <2>1. \A f \in Route!Flavors : work[f] = charged[f]
    BY <1>2
  <2>2. SumFunctionOnSet(work, Route!Flavors) = SumFunctionOnSet(charged, Route!Flavors)
    <3> HIDE DEF work
    <3> QED
      BY ONLY <2>1, FlavorFacts, SumSame
  <2>3. Route!Total(work) = SumFunctionOnSet(work, Route!Flavors)
    BY RouteSums DEF Route!Total
  <2> QED
    BY <2>2, <2>3
<1>5. /\ base + SumFunctionOnSet(charged, Route!Flavors) <= used
      /\ used <= StageLimit
  BY DEF RouteInv, StagePaid
<1>6. ~(base + SumFunctionOnSet(charged, Route!Flavors) > StageLimit)
  <2> DEFINE total == SumFunctionOnSet(charged, Route!Flavors)
  <2>1. total \in Nat /\ base \in Nat /\ used \in Nat /\ StageLimit \in Nat
    BY ChargedSum, RouteNumbers, FlavorFacts DEF RouteInv
  <2>2. base + total <= used /\ used <= StageLimit
    BY <1>5
  <2>3. ~(base + total > StageLimit)
    <3> HIDE DEF total
    <3> QED
      BY <2>1, <2>2
  <2> QED
    BY <2>3
<1> QED
  BY <1>2, <1>3, <1>4, <1>6

\* The choice follows from the plans and from what the flavors have reported.
LEMMA SelectedStays ==
    ASSUME UNCHANGED <<plan, base, response, ctxDone>>
    PROVE  Route!Selected' = Route!Selected /\ (AllHaveRoutes => AllHaveRoutes')
<1>1. Route!Selected' = Route!Selected
  BY DEF Route!Selected, Route!Best, Route!With, Route!Flavors
<1>2. AllHaveRoutes => AllHaveRoutes'
  BY DEF AllHaveRoutes, Route!With, Route!Flavors, Route!Total
<1> QED
  BY <1>1, <1>2

LEMMA RouteSelect == ASSUME RouteInv, Route!Select PROVE RouteInv'
<1>1. /\ stage = "routing" /\ \A f \in Route!Flavors : doing[f] = "joined"
      /\ IF Route!Verdict = "ok" THEN stage' = "selected" /\ UNCHANGED outcome
         ELSE stage' = "returned" /\ outcome' = Route!Verdict
      /\ UNCHANGED <<plan, base, doing, spent, seen, charged, response, used, stopped,
                     ctxDone, sawDone, routed>>
  BY DEF Route!Select, Route!Return, Route!workVars
<1>2. Route!Verdict \in {"panic", "context", "stage", "error", "ok"}
  BY DEF Route!Verdict
<1>3. RouteTyped'
  BY <1>1, <1>2 DEF RouteInv, RouteTyped, Route!Flavors, Route!Plans, Route!Results,
     Route!Failures, Route!Finalizing
<1>4. StagePaid' /\ Finalized'
  <2>1. outcome # "ok" /\ outcome' # "ok"
    BY <1>1, <1>2 DEF RouteInv, Finalized
  <2>2. \A f \in Route!Flavors : response[f] = "routes" => charged[f] = spent[f]
    BY <1>1 DEF RouteInv, Justified
  <2>3. StagePaid'
    BY <1>1, <2>1 DEF RouteInv, StagePaid, Route!Flavors
  <2>4. Finalized'
    BY <1>1, <2>1, <2>2 DEF Finalized, Route!Flavors
  <2> QED
    BY <2>3, <2>4
<1>5. \A g \in Route!Flavors : Reported(g)' /\ Justified(g)'
  BY <1>1 DEF RouteInv, Reported, Justified
<1>6. StoppedFor'
  BY <1>1 DEF RouteInv, StoppedFor, Route!Flavors
<1>7. \A f \in Route!Flavors : response[f] # "none"
  BY <1>1 DEF RouteInv, Reported
<1>8. SelectedWell'
  <2> SUFFICES ASSUME Route!Verdict = "ok"
               PROVE  /\ \E f \in Route!Flavors : response[f] = "routes"
                      /\ AllHaveRoutes
    BY <1>1, SelectedStays DEF SelectedWell, Route!Finalizing, Route!Flavors
  <2>1. /\ \A f \in Route!Flavors : response[f] \notin {"panic", "stage"}
        /\ \E f \in Route!Flavors : response[f] = "routes"
    BY DEF Route!Verdict, Route!With
  <2>2. AllHaveRoutes
    BY <1>1, <2>1, AllRoutes DEF AllHaveRoutes
  <2> QED
    BY <2>1, <2>2
<1>9. Route!ScheduleIndependent'
  <2> DEFINE total == base + Route!Total([f \in Route!Flavors |-> plan[f].work])
             panics == \E f \in Route!Flavors : plan[f].kind = "panics"
  <2> SUFFICES ASSUME Route!Verdict # "ok", ~ctxDone,
                      \A f \in Route!Flavors : plan[f].kind # "fails"
               PROVE  /\ panics => Route!Verdict = "panic"
                      /\ ~panics /\ total > StageLimit => Route!Verdict = "stage"
    BY <1>1 DEF Route!ScheduleIndependent, Route!Flavors, Route!Best, Route!Total
  <2>1. ASSUME panics PROVE Route!Verdict = "panic"
    <3>1. PICK f \in Route!Flavors : plan[f].kind = "panics"
      BY <2>1
    <3>2. \E g \in Route!Flavors : response[g] = "panic"
      BY <1>7, <3>1 DEF RouteInv, Justified, StoppedFor
    <3> QED
      BY <3>2 DEF Route!Verdict, Route!With
  <2>2. ASSUME ~panics, total > StageLimit PROVE Route!Verdict = "stage"
    <3>1. \A f \in Route!Flavors : response[f] # "panic"
      BY <2>2 DEF RouteInv, Justified
    <3>2. \E f \in Route!Flavors : response[f] = "stage"
      <4> SUFFICES ASSUME \A f \in Route!Flavors : response[f] # "stage" PROVE FALSE
        OBVIOUS
      <4>1. ~(total > StageLimit)
        BY <1>1, <3>1, AllRoutes
      <4> QED
        BY <2>2, <4>1
    <3> QED
      BY <3>1, <3>2 DEF Route!Verdict, Route!With
  <2> QED
    BY <2>1, <2>2
<1> QED
  BY <1>3, <1>4, <1>5, <1>6, <1>8, <1>9 DEF RouteInv, Route!Flavors

\* The best of some flavors is one of them.
LEMMA BestIs ==
    ASSUME RouteTyped, NEW S \in SUBSET Route!Flavors, S # {}
    PROVE  Route!Best(S) \in S
<1> DEFINE d(f) == plan[f].distance
           Far == {d(f) : f \in S}
<1>1. \A f \in S : d(f) \in Nat
  <2>1. \A p \in Route!Plans : p.distance \in Distances \cup {0}
    BY DEF Route!Plans
  <2>2. Distances \cup {0} \subseteq Nat
    BY RouteAssumption
  <2>3. \A f \in S : plan[f] \in Route!Plans
    BY DEF RouteTyped
  <2> QED
    BY <2>1, <2>2, <2>3
<1>2. PICK n \in Far : \A m \in Far : n <= m
  <2>1. Far \subseteq Nat /\ Far # {}
    BY <1>1
  <2> HIDE DEF Far
  <2> QED
    BY <2>1, LeastNatural
<1>3. PICK f \in S : d(f) = n /\ \A g \in S : d(g) = n => f <= g
  <2> DEFINE T == {g \in S : d(g) = n}
  <2>1. T \subseteq Nat /\ T # {}
    <3>1. S \subseteq Nat
      BY FlavorFacts
    <3> QED
      BY <1>2, <3>1
  <2>2. PICK f \in T : \A g \in T : f <= g
    <3> HIDE DEF T
    <3> QED
      BY <2>1, LeastNatural
  <2> QED
    BY <2>2
<1>4. \A g \in S : d(f) < d(g) \/ (d(f) = d(g) /\ f <= g)
  <2> TAKE g \in S
  <2>1. n <= d(g) /\ d(g) \in Nat /\ n \in Nat
    BY <1>1, <1>2, <1>3
  <2> QED
    BY <1>3, <2>1
<1> QED
  BY <1>3, <1>4 DEF Route!Best

LEMMA SelectedIs ==
    ASSUME RouteInv, stage \in Route!Finalizing
    PROVE  /\ Route!Selected \in Route!Flavors /\ response[Route!Selected] = "routes"
           /\ outcome # "ok" /\ \A f \in Route!Flavors : doing[f] = "joined"
<1>1. Route!With("routes") # {} /\ Route!With("routes") \in SUBSET Route!Flavors
  BY DEF RouteInv, SelectedWell, Route!With
<1>2. Route!Selected \in Route!With("routes")
  BY <1>1, BestIs DEF RouteInv, Route!Selected
<1> QED
  BY <1>2 DEF RouteInv, Finalized, Reported, Route!Finalizing, Route!With

\* A step of the finalization: only the budgets, the stage counter and the outcome
\* move, and the routes committed are the selected ones.
LEMMA FinalizeStep ==
    ASSUME RouteInv, stage \in Route!Finalizing,
           UNCHANGED <<plan, base, doing, seen, response, stopped, ctxDone, sawDone>>,
           stage' \in Route!Finalizing \cup {"returned"},
           outcome' = "ok" => routed' = Route!Selected,
           RouteTyped', StagePaid', Finalized'
    PROVE  RouteInv'
<1>1. \A g \in Route!Flavors : Reported(g)' /\ Justified(g)'
  BY DEF RouteInv, Reported, Justified, Route!Finalizing
<1>2. StoppedFor'
  BY DEF RouteInv, StoppedFor, Route!Flavors
<1>3. AllHaveRoutes
  BY DEF RouteInv, SelectedWell
<1>4. SelectedWell'
  BY <1>3, SelectedStays DEF RouteInv, SelectedWell, Route!Flavors
<1>5. Route!ScheduleIndependent'
  <2> DEFINE total == base + Route!Total([g \in Route!Flavors |-> plan[g].work])
  <2> SUFFICES ASSUME ~ctxDone, \A g \in Route!Flavors : plan[g].kind # "fails"
               PROVE  /\ \A g \in Route!Flavors : plan[g].kind # "panics"
                      /\ ~(total > StageLimit)
                      /\ outcome' = "ok" => routed' = Route!Best(Route!Flavors)
    BY DEF Route!ScheduleIndependent, Route!Flavors, Route!Best, Route!Total
  <2>1. /\ \A g \in Route!Flavors : plan[g].kind # "panics"
        /\ Route!With("routes") = Route!Flavors /\ ~(total > StageLimit)
    BY <1>3 DEF AllHaveRoutes
  <2> QED
    BY <2>1 DEF Route!Selected
<1> QED
  BY <1>1, <1>2, <1>4, <1>5 DEF RouteInv, Route!Flavors

LEMMA RouteBind == ASSUME RouteInv, Route!Bind PROVE RouteInv'
<1>1. /\ stage = "selected" /\ stage \in Route!Finalizing
      /\ \/ stage' = "returned" /\ outcome' = "context"
         \/ stage' = "finalizing" /\ outcome' = outcome
      /\ UNCHANGED <<plan, base, doing, spent, seen, charged, response, used, stopped,
                     ctxDone, sawDone, routed>>
  BY DEF Route!Bind, Route!Return, Route!workVars, Route!Finalizing
<1>2. outcome' # "ok" /\ outcome # "ok"
  BY <1>1, SelectedIs
<1>3. RouteTyped'
  BY <1>1 DEF RouteInv, RouteTyped, Route!Flavors, Route!Plans, Route!Results,
     Route!Failures, Route!Finalizing
<1>4. StagePaid'
  BY <1>1, <1>2 DEF RouteInv, StagePaid, Route!Flavors
<1>5. Finalized'
  BY <1>1, <1>2, SelectedStays DEF RouteInv, Finalized, Route!Flavors
<1> QED
  BY <1>1, <1>2, <1>3, <1>4, <1>5, FinalizeStep DEF Route!Finalizing

\* What is spent is within the flavor's budget, and none of it is charged yet.
LEMMA RouteMaterialize ==
    ASSUME RouteInv, NEW w \in 0..FlavorLimit, Route!Materialize(w) PROVE RouteInv'
<1> DEFINE f == Route!Selected
<1>1. /\ stage = "finalizing" /\ stage \in Route!Finalizing
      /\ \/ stage' = "finishing" /\ outcome' = outcome
         \/ stage' = "unwinding" /\ outcome' \in {"context", "error"}
      /\ UNCHANGED <<plan, base, doing, seen, charged, response, used, stopped,
                     ctxDone, sawDone, routed>>
  BY DEF Route!Materialize, Route!Unwinding, Route!Finalizing
<1>2. PICK n \in 0..w : n <= FlavorLimit - spent[f] /\ spent' = [spent EXCEPT ![f] = @ + n]
  <2>1. w \in 0..w
    BY FlavorFacts
  <2> QED
    BY <2>1 DEF Route!Materialize
<1>3. f \in Route!Flavors /\ outcome # "ok" /\ outcome' # "ok"
      /\ \A g \in Route!Flavors : doing[g] = "joined"
  BY <1>1, SelectedIs
<1>4. spent[f] \in Nat /\ n \in Nat /\ FlavorLimit \in Nat
  <2> HIDE DEF f
  <2> QED
    BY <1>2, <1>3, RouteNumbers, FlavorFacts DEF RouteInv
<1>5. spent[f] + n \in 0..FlavorLimit
  <2> HIDE DEF f
  <2> QED
    BY <1>2, <1>4
<1>6. spent' = [spent EXCEPT ![f] = spent[f] + n] /\ spent' \in [Route!Flavors -> 0..FlavorLimit]
  <2> HIDE DEF f
  <2> QED
    BY <1>2, <1>5 DEF RouteInv, RouteTyped
<1>7. RouteTyped'
  BY <1>1, <1>6 DEF RouteInv, RouteTyped, Route!Flavors, Route!Plans, Route!Results,
     Route!Failures, Route!Finalizing
<1>8. \A g \in Route!Flavors : charged[g] <= spent'[g] /\ (g # f => spent'[g] = spent[g])
  <2> HIDE DEF f
  <2>1. spent'[f] = spent[f] + n /\ \A g \in Route!Flavors : g # f => spent'[g] = spent[g]
    BY <1>3, <1>6 DEF RouteInv, RouteTyped
  <2>2. charged[f] <= spent[f] + n
    <3>1. charged[f] \in Nat /\ charged[f] <= spent[f]
      BY <1>3, ChargedSum DEF RouteInv, StagePaid
    <3> QED
      BY <1>4, <3>1
  <2>3. \A g \in Route!Flavors : charged[g] <= spent[g]
    BY DEF RouteInv, StagePaid
  <2> QED
    BY <2>1, <2>2, <2>3
<1>9. StagePaid'
  BY <1>1, <1>3, <1>8 DEF RouteInv, StagePaid, Route!Flavors
<1>10. Finalized'
  <2>1. Route!Selected' = f
    BY <1>1, SelectedStays
  <2> QED
    BY <1>1, <1>3, <1>8, <2>1 DEF RouteInv, Finalized, Route!Flavors
<1> QED
  BY <1>1, <1>3, <1>7, <1>9, <1>10, FinalizeStep DEF Route!Finalizing

\* A finish of the selected flavor, the deferred one included.
LEMMA RouteCharge ==
    ASSUME RouteInv, stage \in Route!Finalizing, Route!Finish(Route!Selected),
           UNCHANGED <<plan, base, doing, spent, seen, response, stopped, ctxDone, sawDone>>,
           stage' \in Route!Finalizing \cup {"returned"},
           \/ outcome' \in Route!Failures \cup {"none"} /\ routed' = routed
           \/ /\ outcome' = "ok" /\ stage' = "returned" /\ routed' = Route!Selected
              /\ ~ctxDone
              /\ ~(Route!Pending(Route!Selected) > StageLimit - used)
    PROVE  RouteInv'
<1> DEFINE f == Route!Selected
<1>1. f \in Route!Flavors /\ outcome # "ok" /\ \A g \in Route!Flavors : doing[g] = "joined"
  BY SelectedIs
<1>2. CASE spent[f] - charged[f] > StageLimit - used
  <2>1. UNCHANGED <<used, charged>> /\ outcome' \in Route!Failures \cup {"none"}
        /\ outcome' # "ok" /\ routed' = routed
    BY <1>2 DEF Route!Finish, Route!Pending, Route!Failures
  <2>2. RouteTyped'
    BY <2>1 DEF RouteInv, RouteTyped, Route!Flavors, Route!Plans, Route!Results,
       Route!Failures, Route!Finalizing
  <2>3. StagePaid'
    BY <1>1, <2>1 DEF RouteInv, StagePaid, Route!Flavors
  <2>4. Finalized'
    BY <2>1, SelectedStays DEF RouteInv, Finalized, Route!Flavors
  <2> QED
    BY <2>1, <2>2, <2>3, <2>4, FinalizeStep
<1>3. CASE ~(spent[f] - charged[f] > StageLimit - used)
  <2>1. /\ used' = used + (spent[f] - charged[f])
        /\ \/ charged' = [charged EXCEPT ![f] = spent[f]]
           \/ ctxDone /\ charged' = charged
    BY <1>3 DEF Route!Finish, Route!Pending, Route!Account
  <2>2. spent[f] - charged[f] <= StageLimit - used
    <3> HIDE DEF f
    <3>1. spent[f] \in Nat /\ charged[f] \in Nat /\ used \in Nat /\ StageLimit \in Nat
      BY <1>1, ChargedSum, RouteNumbers, FlavorFacts DEF RouteInv
    <3> QED
      BY <1>3, <3>1
  <2>3. /\ used' \in Nat /\ used' <= StageLimit
        /\ base' + SumFunctionOnSet(charged', Route!Flavors) <= used'
        /\ ~ctxDone => used' = base' + SumFunctionOnSet(charged', Route!Flavors)
        /\ charged' \in [Route!Flavors -> 0..FlavorLimit]
        /\ \A g \in Route!Flavors : charged'[g] <= spent[g]
    <3> HIDE DEF f
    <3> QED
      BY <1>1, <2>1, <2>2, ChargeKeeps DEF RouteInv
  <2>4. routed' \in 0..NFlavors
    <3> HIDE DEF f
    <3>1. f \in 0..NFlavors
      BY <1>1, FlavorFacts
    <3>2. routed' \in {routed, f}
      BY DEF f
    <3> QED
      BY <3>1, <3>2 DEF RouteInv, RouteTyped
  <2>5. RouteTyped'
    BY <2>3, <2>4 DEF RouteInv, RouteTyped, Route!Flavors, Route!Plans, Route!Results,
       Route!Failures, Route!Finalizing
  <2>6. StagePaid'
    BY <1>1, <2>3 DEF RouteInv, StagePaid, Route!Flavors, Route!Failures
  <2>7. Finalized'
    <3>1. Route!Selected' = f
      BY SelectedStays
    <3>2. \A g \in Route!Flavors : g # f => charged'[g] = charged[g]
      <4> HIDE DEF f
      <4> QED
        BY <2>1 DEF RouteInv, RouteTyped
    <3>3. outcome' = "ok" => stage' = "returned" /\ charged'[f] = spent[f]
      <4>1. charged \in [Route!Flavors -> 0..FlavorLimit]
        BY DEF RouteInv, RouteTyped
      <4> QED
        BY <1>1, <2>1, <4>1 DEF Route!Failures
    <3> QED
      BY <3>1, <3>2, <3>3 DEF RouteInv, Finalized, Route!Flavors
  <2> QED
    BY <2>5, <2>6, <2>7, FinalizeStep DEF Route!Failures
<1> QED
  BY <1>2, <1>3

LEMMA RouteCommit == ASSUME RouteInv, Route!Commit PROVE RouteInv'
<1>1. /\ stage \in Route!Finalizing /\ Route!Finish(Route!Selected)
      /\ UNCHANGED <<plan, base, doing, spent, seen, response, stopped, ctxDone, sawDone>>
  BY DEF Route!Commit, Route!Finalizing
<1>2. \/ stage' = "unwinding" /\ outcome' \in {"context", "stage"} /\ routed' = routed
      \/ /\ outcome' = "ok" /\ stage' = "returned" /\ routed' = Route!Selected
         /\ ~ctxDone
         /\ ~(Route!Pending(Route!Selected) > StageLimit - used)
  BY DEF Route!Commit, Route!Unwinding, Route!Return
<1> QED
  BY <1>1, <1>2, RouteCharge DEF Route!Finalizing, Route!Failures

LEMMA RouteUnwind == ASSUME RouteInv, Route!Unwind PROVE RouteInv'
<1>1. /\ stage \in Route!Finalizing /\ Route!Finish(Route!Selected)
      /\ UNCHANGED <<plan, base, doing, spent, seen, response, stopped, ctxDone, sawDone,
                     routed>>
      /\ stage' = "returned" /\ outcome' = outcome
  BY DEF Route!Unwind, Route!Return, Route!Finalizing
<1>2. outcome \in Route!Failures \cup {"none"}
  BY <1>1, SelectedIs DEF RouteInv, RouteTyped
<1> QED
  BY <1>1, <1>2, RouteCharge

LEMMA RouteStep == ASSUME RouteInv, [Route!Next]_routeState PROVE RouteInv'
<1>1. CASE \/ UNCHANGED routeState
           \/ Route!SeeDone
  <2>1. /\ UNCHANGED <<stage, plan, base, doing, spent, seen, charged, response, used,
                       stopped, ctxDone, routed, outcome>>
        /\ sawDone' \in {TRUE, sawDone}
    BY <1>1 DEF routeState, Route!SeeDone, Route!workVars, Route!endVars
  <2>2. RouteTyped'
    BY <2>1 DEF RouteInv, RouteTyped, Route!Flavors, Route!Plans, Route!Results,
       Route!Failures, Route!Finalizing
  <2>3. \A g \in Route!Flavors : Reported(g)' /\ Justified(g)'
    BY <2>1 DEF RouteInv, Reported, Justified
  <2>4. StagePaid' /\ StoppedFor' /\ SelectedWell' /\ Finalized'
    BY <2>1, SelectedStays
    DEF RouteInv, StagePaid, StoppedFor, SelectedWell, Finalized, Route!Finalizing,
        Route!Flavors
  <2>5. Route!ScheduleIndependent'
    BY <2>1 DEF RouteInv, Route!ScheduleIndependent, Route!Flavors, Route!Best, Route!Total
  <2> QED
    BY <2>2, <2>3, <2>4, <2>5 DEF RouteInv, Route!Flavors
<1>2. ASSUME NEW f \in Route!Flavors, Route!WorkerStep(f) \/ Route!Receive(f)
      PROVE  RouteInv'
  BY <1>2, RouteSearch, RouteLoadStage, RouteSwapStage, RouteReceive DEF Route!WorkerStep
<1>3. CASE Route!Finalize
  BY <1>3, RouteBind, RouteMaterialize, RouteCommit, RouteUnwind DEF Route!Finalize
<1> QED
  BY <1>1, <1>2, <1>3, RouteBegin, RouteParentDone, RouteSelect
  DEF Route!Next, Route!Step, Route!Coordinate

\* What the invariant of the routing says of its properties.
LEMMA RouteFacts == ASSUME RouteInv PROVE Route!TypeOK /\ Route!StageCounterExact
<1>1. Route!Total(charged) = SumFunctionOnSet(charged, Route!Flavors)
  BY RouteSums DEF Route!Total
<1>2. Route!TypeOK
  BY DEF RouteInv, RouteTyped, Route!TypeOK
<1>3. Route!StageCounterExact
  BY <1>1 DEF RouteInv, StagePaid, Finalized, Route!StageCounterExact, Route!With
<1> QED
  BY <1>2, <1>3

-----------------------------------------------------------------------------
(* The parts side by side.                                                   *)

SessionInv == IInv /\ BytesInv /\ RestTyped /\ Apart

\* Each part's invariant, of which no other part's variables are.
PartsInv == SessionInv /\ CacheInv /\ BundleInv /\ BundleBudget /\ BundleExplained
            /\ RouteInv

LEMMA SessionInit == Init => SessionInv
<1>1. Init => RestTyped /\ Apart
  BY LimitAssumption DEF Init, RestTyped, Apart, Range, Tables
<1> QED
  BY <1>1, InitIInv, InitBytes DEF SessionInv

LEMMA SessionStep == SessionInv /\ [Next]_vars => SessionInv'
  BY IInvStep, BytesStep, RestTypedStep, ApartStep DEF SessionInv

LEMMA PartsBegin ==
    PartsInit => Init /\ Cache!Init /\ Bundle!Init /\ Route!Init
  BY DEF PartsInit

LEMMA PartsMove ==
    [PartsNext]_partVars =>
        /\ [Next]_vars /\ [Cache!Next]_imageState
        /\ [Bundle!Next]_bundleState /\ [Route!Next]_routeState
  BY DEF PartsNext, partVars

LEMMA PartsInvInit == PartsInit => PartsInv
  BY PartsBegin, SessionInit, CacheInit, BundleInit, BudgetInit,
     ExplainedInit, RouteInit DEF PartsInv

LEMMA PartsInvStep == PartsInv /\ [PartsNext]_partVars => PartsInv'
  BY PartsMove, SessionStep, CacheStep, BundleStep, BudgetStep,
     ExplainedStep, RouteStep DEF PartsInv

LEMMA PartsInvAlways == PartsSpec => []PartsInv
  BY PartsInvInit, PartsInvStep, PTL DEF PartsSpec

-----------------------------------------------------------------------------
(* Theorems                                                                  *)

\* The parts share nothing: what one does is a behaviour of it alone, so that what
\* is said of a part by itself holds of it here.
THEOREM PartsAreIndependent ==
    PartsSpec => /\ Spec /\ Cache!Init /\ [][Cache!Next]_imageState
                 /\ Bundle!Init /\ [][Bundle!Next]_bundleState
                 /\ Route!Init /\ [][Route!Next]_routeState
  BY PartsBegin, PartsMove, PTL DEF PartsSpec, Spec

\* Every part keeps its types.
THEOREM PartsTypeCorrect == PartsSpec => []PartsTypeOK
<1>1. IInv /\ BytesInv /\ RestTyped /\ Apart => TypeOK
  BY TypesFollow
<1>2. PartsInv => PartsTypeOK
  BY <1>1, CacheFacts, BundleFacts, RouteFacts DEF PartsInv, SessionInv, PartsTypeOK
<1> QED
  BY <1>2, PartsInvAlways, PTL

\* The limits of the parts hold at every step, however their goroutines race: the
\* counters of the render session (session.go), of the image cache (imageasset.go) and
\* of the bundler (reserveBundled) are what they count, that of the routing stage
\* (route_stage_guard.go) is at least the sum of what was charged, and no more than
\* that unless the caller cancels; none is ever above what it may be.
THEOREM LimitsHoldAlways == PartsSpec => []LimitsHold
<1>1. IInv /\ BytesInv => CountsBounded /\ BytesBounded /\ LoadsAdmitted
  BY LimitsFollow
<1>2. PartsInv => LimitsHold
  BY <1>1, CacheFacts, BundleFacts, RouteFacts DEF PartsInv, SessionInv, LimitsHold
<1> QED
  BY <1>2, PartsInvAlways, PTL

\* What a reader gets from the image cache is what the last download stored, and no
\* name has two entries (MemoryCache.Put removes what it replaces, also when the
\* new image is too large to be kept).
THEOREM NoStaleImageHolds == PartsSpec => []NoStaleImage
<1>1. PartsInv => NoStaleImage
  BY CacheFacts DEF PartsInv, NoStaleImage
<1> QED
  BY <1>1, PartsInvAlways, PTL

\* A bundling without an error has replaced every reference, and one in which only
\* images failed still returns all that was resolved (BundleWithResolver applies
\* the replacements whatever has failed before).
THEOREM PartialOutputKeptHolds == PartsSpec => []PartialOutputKept
<1>1. PartsInv => PartialOutputKept
  BY DEF PartsInv, BundleInv, PartialOutputKept
<1> QED
  BY <1>1, PartsInvAlways, PTL

\* The error of a bundling is one that happened, to a reference or to the caller's
\* context, and never the cancellation that a failure caused in another worker
\* (context.Cause keeps the first; a reference that failed is never resolved).
THEOREM FailureExplainedHolds == PartsSpec => []FailureExplained
<1>1. PartsInv => FailureExplained
  BY BundleSums DEF PartsInv, BundleExplained, FailureExplained
<1> QED
  BY <1>1, PartsInvAlways, PTL

\* Whether routing fails, and with which flavor's routes it succeeds, follows from
\* how the flavors would fare alone, for any number of them, and not from the order
\* in which they finish (generateRouteFlavorResponsesWith, selectRouteFlavor).
THEOREM ScheduleIndependentHolds == PartsSpec => []ScheduleIndependent
<1>1. PartsInv => ScheduleIndependent
  BY DEF PartsInv, RouteInv, ScheduleIndependent
<1> QED
  BY <1>1, PartsInvAlways, PTL

=============================================================================
