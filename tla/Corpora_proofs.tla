-------------------------- MODULE Corpora_proofs ---------------------------
(***************************************************************************)
(* Proofs about CorpusReads, for every number of searching threads, every  *)
(* set of callers, scopes and query texts, every history of the collection,*)
(* every size of the caches, page size, record ceiling and time to live;   *)
(* and about StructuredQuery, which asks its questions of such corpora,    *)
(* for every state of the index and every conversation.                    *)
(*                                                                         *)
(* Both caches are sequences that a filter rewrites. What a filter picks   *)
(* would be an induction over the sequence; here it follows from counting  *)
(* the positions picked, and from there being a first of the positions     *)
(* where a claim fails. So does what a scan comes to, of its pages, and    *)
(* how many items the first pages of a list hold, of their ranks.          *)
(***************************************************************************)
EXTENDS CorpusReads, StructuredQuery, FiniteSetTheorems, SequenceTheorems, WellFoundedInduction, TLAPS

-----------------------------------------------------------------------------
(* Positions in their order *)

(* The smaller of two naturals comes first in an order in which every set  *)
(* of naturals has a first one.                                            *)
LEMMA NatOrder ==
  \E R : IsWellFoundedOn(R, Nat) /\ \A x, y \in Nat : y < x => <<y, x>> \in R
<1> DEFINE Less == OpToRel(<, Nat)
<1>1. IsWellFoundedOn(Less, Nat)
  BY NatLessThanWellFounded
<1>2. \A x, y \in Nat : y < x => <<y, x>> \in Less
  BY DEF OpToRel
<1> HIDE DEF Less
<1>3. QED
  BY <1>1, <1>2

(* Any set of naturals has a least one: instead of an induction, the       *)
(* proofs below look at the first position where a claim would fail.       *)
LEMMA Smallest ==
  ASSUME NEW T \in SUBSET Nat, T # {}
  PROVE  \E m \in T : \A n \in T : m <= n
<1>1. PICK R : IsWellFoundedOn(R, Nat) /\ \A x, y \in Nat : y < x => <<y, x>> \in R
  BY NatOrder
<1>2. PICK m \in T : \A y \in T : <<y, m>> \notin R
  BY <1>1, WFMin
<1>3. ASSUME NEW n \in T
      PROVE  m <= n
  <2>1. ~(n < m)
    BY <1>1, <1>2
  <2>2. QED
    BY <2>1
<1>4. QED
  BY <1>3

(* Any set of positions has a last one. *)
LEMMA Greatest ==
  ASSUME NEW n \in Nat, NEW I \in SUBSET (1..n), I # {}
  PROVE  \E i \in I : \A k \in I : k <= i
<1> DEFINE T == {n - i : i \in I}
<1>1. T \in SUBSET Nat /\ T # {}
  <2>1. \A i \in I : i \in 1..n /\ n - i \in Nat
    OBVIOUS
  <2>2. PICK i \in I : TRUE
    OBVIOUS
  <2>3. n - i \in T
    OBVIOUS
  <2> QED
    BY <2>1, <2>3
<1>2. PICK m \in T : \A t \in T : m <= t
  BY <1>1, Smallest
<1>3. PICK i \in I : m = n - i
  OBVIOUS
<1>4. \A k \in I : k <= i
  <2> SUFFICES ASSUME NEW k \in I
               PROVE  k <= i
    OBVIOUS
  <2>1. n - i <= n - k
    BY <1>2, <1>3
  <2> QED
    BY <2>1
<1> HIDE DEF T
<1>5. QED
  BY <1>4

(* Min gives a member of its set. *)
LEMMA LeastOf ==
    ASSUME NEW I \in SUBSET Nat, I # {}
    PROVE  Min(I) \in I
BY Smallest DEF Min

(* How far into a set of positions one of them is. *)
RankIn(I, i) == Cardinality({j \in I : j <= i})

(* A position of a set of positions comes after as many of them as its     *)
(* rank says, and a later one has a greater rank.                          *)
LEMMA RankFacts ==
    ASSUME NEW n \in Nat, NEW I \in SUBSET (1..n)
    PROVE  /\ IsFiniteSet(I) /\ Cardinality(I) \in Nat
           /\ \A i \in I : RankIn(I, i) \in 1..Cardinality(I)
           /\ \A i, j \in I : i < j => RankIn(I, i) < RankIn(I, j)
<1>1. IsFiniteSet(I) /\ Cardinality(I) \in Nat
  <2>1. IsFiniteSet(1..n)
    BY FS_Interval
  <2>2. IsFiniteSet(I)
    BY <2>1, FS_Subset
  <2> QED
    BY <2>2, FS_CardinalityType
<1>2. ASSUME NEW i \in I
      PROVE  RankIn(I, i) \in 1..Cardinality(I)
  <2> DEFINE R == {j \in I : j <= i}
  <2>1. R \in SUBSET I /\ i \in R
    OBVIOUS
  <2>2. IsFiniteSet(R) /\ Cardinality(R) <= Cardinality(I)
    BY <1>1, <2>1, FS_Subset
  <2>3. Cardinality(R) \in Nat /\ Cardinality(R) # 0
    BY <2>1, <2>2, FS_CardinalityType, FS_EmptySet
  <2> QED
    BY <1>1, <2>2, <2>3 DEF RankIn
<1>3. ASSUME NEW i \in I, NEW j \in I, i < j
      PROVE  RankIn(I, i) < RankIn(I, j)
  <2> DEFINE R == {k \in I : k <= i}
  <2> DEFINE S == {k \in I : k <= j}
  <2>1. i \in Nat /\ j \in Nat /\ I \subseteq Nat
    OBVIOUS
  <2>2. R \in SUBSET S /\ R # S /\ S \in SUBSET I
    <3>1. j \in S /\ j \notin R
      BY <1>3, <2>1
    <3>2. \A k \in I : k <= i => k <= j
      BY <1>3, <2>1
    <3> QED
      BY <3>1, <3>2
  <2>3. IsFiniteSet(S)
    BY <1>1, <2>2, FS_Subset
  <2>4. Cardinality(R) <= Cardinality(S) /\ Cardinality(R) # Cardinality(S)
    BY <2>2, <2>3, FS_Subset
  <2>5. Cardinality(R) \in Nat /\ Cardinality(S) \in Nat
    BY <2>2, <2>3, FS_Subset, FS_CardinalityType
  <2> QED
    BY <2>4, <2>5 DEF RankIn
<1> QED
  BY <1>1, <1>2, <1>3

(* Nth gives the position of the given rank: were there none, there would  *)
(* be a first rank without one, and the position after that of the rank    *)
(* before would have it.                                                   *)
LEMMA NthFacts ==
    ASSUME NEW n \in Nat, NEW I \in SUBSET (1..n), NEW k \in 1..Cardinality(I)
    PROVE  Nth(I, k) \in I /\ RankIn(I, Nth(I, k)) = k
<1>1. /\ IsFiniteSet(I) /\ Cardinality(I) \in Nat
      /\ \A i \in I : RankIn(I, i) \in 1..Cardinality(I)
      /\ \A i, j \in I : i < j => RankIn(I, i) < RankIn(I, j)
  BY RankFacts
<1> DEFINE T == {i \in I : RankIn(I, i) >= k}
<1>2. T \in SUBSET Nat /\ T # {}
  <2>1. I # {}
    BY FS_EmptySet
  <2>2. PICK m \in I : \A j \in I : j <= m
    BY <2>1, Greatest
  <2>3. {j \in I : j <= m} = I
    BY <2>2
  <2>4. RankIn(I, m) = Cardinality(I)
    BY <2>3 DEF RankIn
  <2>5. m \in T
    BY <1>1, <2>4
  <2>6. I \subseteq Nat
    OBVIOUS
  <2> QED
    BY <2>5, <2>6
<1>3. PICK m \in T : \A i \in T : m <= i
  BY <1>2, Smallest
<1>4. RankIn(I, m) = k
  <2> SUFFICES ASSUME RankIn(I, m) # k
               PROVE  FALSE
    OBVIOUS
  <2>1. RankIn(I, m) \in Nat /\ RankIn(I, m) > k
    BY <1>1, <1>3
  <2> DEFINE B == {j \in I : j <= m} \ {m}
  <2>2. {j \in I : j <= m} \in SUBSET I /\ m \in {j \in I : j <= m}
    BY <1>3
  <2>3. IsFiniteSet(B) /\ Cardinality(B) = RankIn(I, m) - 1
    BY <1>1, <2>2, FS_Subset, FS_RemoveElement DEF RankIn
  <2>4. B # {} /\ B \in SUBSET (1..n)
    <3>1. Cardinality(B) # 0
      BY <2>1, <2>3
    <3>2. B # {}
      BY <3>1, FS_EmptySet
    <3> QED
      BY <3>2
  <2>5. PICK g \in B : \A j \in B : j <= g
    BY <2>4, Greatest
  <2>6. {j \in I : j <= g} = B
    <3>1. g < m /\ g \in I
      BY <1>3, <2>5
    <3>2. \A j \in I : j \in B <=> j < m
      BY <1>3
    <3>3. \A j \in I : j <= g <=> j < m
      BY <2>5, <3>1, <3>2
    <3> QED
      BY <3>2, <3>3
  <2>7. g \in T /\ g < m
    BY <1>3, <2>1, <2>3, <2>5, <2>6 DEF RankIn
  <2> QED
    BY <1>3, <2>7
<1> QED
  BY <1>3, <1>4 DEF Nth, RankIn

-----------------------------------------------------------------------------
(* What a filter picks *)

(* p holds the elements of s at the positions I, each position once. *)
IsPicked(S, s, I, p) ==
    /\ p \in Seq(S) /\ Len(p) = Cardinality(I) /\ DOMAIN p = 1..Len(p)
    /\ \A k \in 1..Len(p) : Nth(I, k) \in I /\ p[k] = s[Nth(I, k)]
    /\ \A k, l \in 1..Len(p) : Nth(I, k) = Nth(I, l) => k = l
    /\ \A i \in I : \E k \in 1..Len(p) : Nth(I, k) = i

(* Picked picks what is at the positions, nothing else and nothing twice. *)
LEMMA PickedFacts ==
    ASSUME NEW S, NEW s \in Seq(S), NEW I \in SUBSET DOMAIN s
    PROVE  IsPicked(S, s, I, Picked(s, I))
<1> DEFINE n == Len(s)
<1> DEFINE p == Picked(s, I)
<1>1. n \in Nat /\ DOMAIN s = 1..n /\ I \in SUBSET (1..n) /\ \A i \in 1..n : s[i] \in S
  BY LenProperties, ElementOfSeq
<1>2. /\ IsFiniteSet(I) /\ Cardinality(I) \in Nat
      /\ \A i \in I : RankIn(I, i) \in 1..Cardinality(I)
      /\ \A i, j \in I : i < j => RankIn(I, i) < RankIn(I, j)
  BY <1>1, RankFacts
<1>3. \A k \in 1..Cardinality(I) : Nth(I, k) \in I /\ RankIn(I, Nth(I, k)) = k
  BY <1>1, NthFacts
<1>4. p = [k \in 1..Cardinality(I) |-> s[Nth(I, k)]]
  BY DEF Picked
<1>5. p \in Seq(S) /\ Len(p) = Cardinality(I)
  <2>1. \A k \in 1..Cardinality(I) : s[Nth(I, k)] \in S
    BY <1>1, <1>3
  <2> QED
    BY <1>2, <1>4, <2>1
<1>6. \A k \in 1..Len(p) : Nth(I, k) \in I /\ p[k] = s[Nth(I, k)]
  BY <1>3, <1>4, <1>5
<1>7. \A k, l \in 1..Len(p) : Nth(I, k) = Nth(I, l) => k = l
  BY <1>3, <1>5
<1>8. ASSUME NEW i \in I
      PROVE  \E k \in 1..Len(p) : Nth(I, k) = i
  <2>1. RankIn(I, i) \in 1..Cardinality(I)
    BY <1>2
  <2> DEFINE j == Nth(I, RankIn(I, i))
  <2>2. j \in I /\ RankIn(I, j) = RankIn(I, i)
    BY <1>3, <2>1
  <2>3. i \in Nat /\ j \in Nat /\ RankIn(I, i) \in Nat
    BY <1>1, <2>1, <2>2
  <2>4. ~(i < j) /\ ~(j < i)
    BY <1>2, <2>2, <2>3
  <2>5. j = i
    BY <2>3, <2>4
  <2> QED
    BY <1>5, <2>1, <2>5
<1>9. DOMAIN p = 1..Len(p)
  BY <1>4, <1>5
<1> QED
  BY <1>5, <1>6, <1>7, <1>8, <1>9 DEF IsPicked

-----------------------------------------------------------------------------
(* Sequences of query texts *)

(* A filter of a sequence of distinct texts leaves distinct texts: those   *)
(* at the positions picked.                                                *)
LEMMA PickedText ==
    ASSUME NEW s \in Seq(Texts), IsInjective(s), NEW I \in SUBSET DOMAIN s
    PROVE  LET p == Picked(s, I)
           IN  /\ p \in Seq(Texts) /\ IsInjective(p)
               /\ \A v : Contains(p, v) => \E i \in I : s[i] = v
               /\ \A i \in I : Contains(p, s[i])
<1> DEFINE p == Picked(s, I)
<1>1. /\ p \in Seq(Texts) /\ DOMAIN p = 1..Len(p)
      /\ \A k \in 1..Len(p) : Nth(I, k) \in I /\ p[k] = s[Nth(I, k)]
      /\ \A k, l \in 1..Len(p) : Nth(I, k) = Nth(I, l) => k = l
      /\ \A i \in I : \E k \in 1..Len(p) : Nth(I, k) = i
  BY PickedFacts DEF IsPicked
<1> HIDE DEF p
<1>2. IsInjective(p)
  <2> SUFFICES ASSUME NEW k \in 1..Len(p), NEW l \in 1..Len(p), p[k] = p[l]
               PROVE  k = l
    BY <1>1 DEF IsInjective
  <2>1. s[Nth(I, k)] = s[Nth(I, l)] /\ Nth(I, k) \in DOMAIN s /\ Nth(I, l) \in DOMAIN s
    BY <1>1
  <2>2. Nth(I, k) = Nth(I, l)
    BY <2>1 DEF IsInjective
  <2> QED
    BY <1>1, <2>2
<1>3. \A v : Contains(p, v) => \E i \in I : s[i] = v
  BY <1>1 DEF Contains
<1>4. \A i \in I : Contains(p, s[i])
  BY <1>1 DEF Contains
<1> QED
  BY <1>1, <1>2, <1>3, <1>4 DEF p

(* Those of the texts that are keys of the cache. *)
Known(c, s) == Selected(s, LAMBDA v : Contains(c, v))

(* The texts of a call divide into those that the cache holds and those    *)
(* that it lacks.                                                          *)
LEMMA SelectedTexts ==
    ASSUME NEW c \in Seq(Texts), NEW s \in Seq(Texts), IsInjective(s)
    PROVE  /\ NotIn(c, s) \in Seq(Texts) /\ IsInjective(NotIn(c, s))
           /\ \A v : Contains(NotIn(c, s), v) <=> Contains(s, v) /\ ~Contains(c, v)
           /\ Known(c, s) \in Seq(Texts) /\ IsInjective(Known(c, s))
           /\ \A v : Contains(Known(c, s), v) <=> Contains(s, v) /\ Contains(c, v)
<1> DEFINE I == {i \in DOMAIN s : ~Contains(c, s[i])}
<1> DEFINE J == {i \in DOMAIN s : Contains(c, s[i])}
<1>1. NotIn(c, s) = Picked(s, I) /\ Known(c, s) = Picked(s, J)
  BY DEF NotIn, Known, Selected
<1>2. DOMAIN s = 1..Len(s)
  BY LenProperties
<1>3. I \in SUBSET DOMAIN s /\ J \in SUBSET DOMAIN s
  OBVIOUS
<1>4. (\A i \in I : ~Contains(c, s[i])) /\ (\A i \in DOMAIN s \ I : Contains(c, s[i]))
  OBVIOUS
<1>5. (\A i \in J : Contains(c, s[i])) /\ (\A i \in DOMAIN s \ J : ~Contains(c, s[i]))
  OBVIOUS
<1> HIDE DEF I, J
<1>6. /\ NotIn(c, s) \in Seq(Texts) /\ IsInjective(NotIn(c, s))
      /\ \A v : Contains(NotIn(c, s), v) => \E i \in I : s[i] = v
      /\ \A i \in I : Contains(NotIn(c, s), s[i])
  BY <1>1, <1>3, PickedText
<1>7. /\ Known(c, s) \in Seq(Texts) /\ IsInjective(Known(c, s))
      /\ \A v : Contains(Known(c, s), v) => \E i \in J : s[i] = v
      /\ \A i \in J : Contains(Known(c, s), s[i])
  BY <1>1, <1>3, PickedText
<1>8. ASSUME NEW v
      PROVE  Contains(NotIn(c, s), v) <=> Contains(s, v) /\ ~Contains(c, v)
  <2>1. ASSUME Contains(NotIn(c, s), v)
        PROVE  Contains(s, v) /\ ~Contains(c, v)
    <3>1. PICK i \in I : s[i] = v
      BY <1>6, <2>1
    <3>2. i \in 1..Len(s) /\ ~Contains(c, s[i])
      BY <1>2, <1>3, <1>4
    <3>3. Contains(s, v)
      BY <3>1, <3>2 DEF Contains
    <3> QED
      BY <3>1, <3>2, <3>3
  <2>2. ASSUME Contains(s, v), ~Contains(c, v)
        PROVE  Contains(NotIn(c, s), v)
    <3>1. PICK i \in 1..Len(s) : s[i] = v
      BY <2>2 DEF Contains
    <3>2. i \in I
      BY <1>2, <1>4, <2>2, <3>1
    <3> QED
      BY <1>6, <3>1, <3>2
  <2> QED
    BY <2>1, <2>2
<1>9. ASSUME NEW v
      PROVE  Contains(Known(c, s), v) <=> Contains(s, v) /\ Contains(c, v)
  <2>1. ASSUME Contains(Known(c, s), v)
        PROVE  Contains(s, v) /\ Contains(c, v)
    <3>1. PICK i \in J : s[i] = v
      BY <1>7, <2>1
    <3>2. i \in 1..Len(s) /\ Contains(c, s[i])
      BY <1>2, <1>3, <1>5
    <3>3. Contains(s, v)
      BY <3>1, <3>2 DEF Contains
    <3> QED
      BY <3>1, <3>2, <3>3
  <2>2. ASSUME Contains(s, v), Contains(c, v)
        PROVE  Contains(Known(c, s), v)
    <3>1. PICK i \in 1..Len(s) : s[i] = v
      BY <2>2 DEF Contains
    <3>2. i \in J
      BY <1>2, <1>5, <2>2, <3>1
    <3> QED
      BY <1>7, <3>1, <3>2
  <2> QED
    BY <2>1, <2>2
<1> QED
  BY <1>6, <1>7, <1>8, <1>9

(* One sequence of texts after another holds the texts of both, each once  *)
(* when they share none.                                                   *)
LEMMA JoinedTexts ==
    ASSUME NEW p \in Seq(Texts), NEW q \in Seq(Texts)
    PROVE  /\ p \o q \in Seq(Texts) /\ Len(p \o q) = Len(p) + Len(q)
           /\ \A v : Contains(p \o q, v) <=> Contains(p, v) \/ Contains(q, v)
           /\ (IsInjective(p) /\ IsInjective(q) /\ \A v : ~(Contains(p, v) /\ Contains(q, v)))
                => IsInjective(p \o q)
<1> DEFINE j == p \o q
<1>1. /\ j \in Seq(Texts) /\ Len(j) = Len(p) + Len(q) /\ Len(p) \in Nat /\ Len(q) \in Nat
      /\ \A i \in 1 .. Len(p) + Len(q) : j[i] = IF i <= Len(p) THEN p[i] ELSE q[i - Len(p)]
  BY ConcatProperties, LenProperties
<1>2. DOMAIN p = 1..Len(p) /\ DOMAIN q = 1..Len(q) /\ DOMAIN j = 1..Len(j)
  BY <1>1, LenProperties
<1> HIDE DEF j
<1>3. ASSUME NEW v
      PROVE  Contains(j, v) <=> Contains(p, v) \/ Contains(q, v)
  <2>1. ASSUME NEW i \in 1..Len(j), j[i] = v
        PROVE  Contains(p, v) \/ Contains(q, v)
    <3>1. CASE i <= Len(p)
      BY <1>1, <2>1, <3>1 DEF Contains
    <3>2. CASE ~(i <= Len(p))
      <4>1. i - Len(p) \in 1..Len(q) /\ q[i - Len(p)] = v
        BY <1>1, <2>1, <3>2
      <4> QED
        BY <4>1 DEF Contains
    <3> QED
      BY <3>1, <3>2
  <2>2. ASSUME NEW i \in 1..Len(p), p[i] = v
        PROVE  Contains(j, v)
    <3>1. i \in 1..Len(j) /\ i \in 1 .. Len(p) + Len(q) /\ i <= Len(p)
      BY <1>1
    <3> QED
      BY <1>1, <2>2, <3>1 DEF Contains
  <2>3. ASSUME NEW i \in 1..Len(q), q[i] = v
        PROVE  Contains(j, v)
    <3>1. /\ Len(p) + i \in 1..Len(j) /\ Len(p) + i \in 1 .. Len(p) + Len(q)
          /\ ~(Len(p) + i <= Len(p)) /\ Len(p) + i - Len(p) = i
      BY <1>1
    <3>2. j[Len(p) + i] = v
      BY <1>1, <2>3, <3>1
    <3> QED
      BY <3>1, <3>2 DEF Contains
  <2> QED
    BY <2>1, <2>2, <2>3 DEF Contains
<1>4. ASSUME IsInjective(p), IsInjective(q), \A v : ~(Contains(p, v) /\ Contains(q, v)),
             NEW i \in 1..Len(j), NEW k \in 1..Len(j), j[i] = j[k]
      PROVE  i = k
  <2>1. CASE i <= Len(p) /\ k <= Len(p)
    BY <1>1, <1>2, <1>4, <2>1 DEF IsInjective
  <2>2. CASE ~(i <= Len(p)) /\ ~(k <= Len(p))
    <3>1. /\ i - Len(p) \in 1..Len(q) /\ k - Len(p) \in 1..Len(q)
          /\ q[i - Len(p)] = q[k - Len(p)]
      BY <1>1, <1>4, <2>2
    <3>2. i - Len(p) = k - Len(p)
      BY <1>2, <1>4, <3>1 DEF IsInjective
    <3> QED
      BY <1>1, <3>2
  <2>3. ASSUME NEW a \in 1..Len(j), NEW b \in 1..Len(j), a <= Len(p), ~(b <= Len(p)), j[a] = j[b]
        PROVE  FALSE
    <3>1. a \in 1..Len(p) /\ p[a] = j[a] /\ b - Len(p) \in 1..Len(q) /\ q[b - Len(p)] = j[a]
      BY <1>1, <2>3
    <3> QED
      BY <1>4, <3>1 DEF Contains
  <2> QED
    BY <1>4, <2>1, <2>2, <2>3
<1>5. (IsInjective(p) /\ IsInjective(q) /\ \A v : ~(Contains(p, v) /\ Contains(q, v)))
                => IsInjective(j)
  BY <1>2, <1>4 DEF IsInjective
<1> QED
  BY <1>1, <1>3, <1>5 DEF j

(* _evict_locked leaves a cache within its bound as it is, and a larger    *)
(* one full.                                                               *)
LEMMA EvictedTexts ==
    ASSUME NEW c \in Seq(Texts), IsInjective(c)
    PROVE  /\ Evicted(c) \in Seq(Texts) /\ IsInjective(Evicted(c))
           /\ Len(c) <= CacheEntries => Evicted(c) = c
           /\ Len(c) > CacheEntries => Len(Evicted(c)) = CacheEntries
<1>1. Len(c) \in Nat /\ DOMAIN c = 1..Len(c) /\ CacheEntries \in Nat \ {0}
  BY LenProperties, CacheAssumption
<1>2. CASE Len(c) <= CacheEntries
  <2>1. ~(Len(c) > CacheEntries)
    BY <1>1, <1>2
  <2>2. Evicted(c) = c
    BY <2>1 DEF Evicted
  <2> QED
    BY <2>1, <2>2
<1>3. CASE Len(c) > CacheEntries
  <2> DEFINE from == Len(c) - CacheEntries + 1
  <2> DEFINE e == SubSeq(c, from, Len(c))
  <2>1. from \in 1 .. Len(c) + 1 /\ from <= Len(c) /\ Len(c) - from + 1 = CacheEntries
    BY <1>1, <1>3
  <2>2. \A i \in from..Len(c) : c[i] \in Texts
    BY <2>1, ElementOfSeq
  <2>3. /\ e \in Seq(Texts) /\ Len(e) = Len(c) - from + 1
        /\ \A i \in 1 .. Len(c) - from + 1 : e[i] = c[from + i - 1]
    BY <1>1, <2>1, <2>2, SubSeqProperties
  <2>4. Evicted(c) = e
    BY <1>3 DEF Evicted
  <2> HIDE DEF e
  <2>5. IsInjective(e)
    <3>1. DOMAIN e = 1..CacheEntries
      BY <2>1, <2>3, LenProperties
    <3> SUFFICES ASSUME NEW i \in 1..CacheEntries, NEW k \in 1..CacheEntries, e[i] = e[k]
                 PROVE  i = k
      BY <3>1 DEF IsInjective
    <3>2. c[from + i - 1] = c[from + k - 1]
      BY <2>1, <2>3
    <3>3. from + i - 1 \in 1..Len(c) /\ from + k - 1 \in 1..Len(c)
      BY <1>1, <2>1
    <3>4. from + i - 1 = from + k - 1
      BY <1>1, <3>2, <3>3 DEF IsInjective
    <3> QED
      BY <1>1, <2>1, <3>4
  <2> QED
    BY <1>1, <1>3, <2>1, <2>3, <2>4, <2>5
<1> QED
  BY <1>1, <1>2, <1>3

(* Two sequences of distinct texts that hold the same texts are of the     *)
(* same length.                                                            *)
LEMMA SameTextsSameLength ==
    ASSUME NEW p \in Seq(Texts), NEW q \in Seq(Texts), IsInjective(p), IsInjective(q),
           \A v : Contains(p, v) <=> Contains(q, v)
    PROVE  Len(p) = Len(q)
<1>1. ASSUME NEW s \in Seq(Texts), IsInjective(s)
      PROVE  LET E == {v \in Texts : Contains(s, v)} IN IsFiniteSet(E) /\ Cardinality(E) = Len(s)
  <2> DEFINE E == {v \in Texts : Contains(s, v)}
  <2>1. Len(s) \in Nat /\ DOMAIN s = 1..Len(s) /\ s \in [1..Len(s) -> Texts]
    BY LenProperties
  <2>2. \A i \in 1..Len(s) : s[i] \in E
    BY <2>1 DEF Contains
  <2>3. \A v \in E : \E i \in 1..Len(s) : s[i] = v
    BY DEF Contains
  <2> HIDE DEF E
  <2>4. s \in [1..Len(s) -> E]
    BY <2>1, <2>2
  <2>5. s \in Surjection(1..Len(s), E)
    BY <2>3, <2>4 DEF Surjection
  <2>6. s \in Injection(1..Len(s), E)
    BY <1>1, <2>4 DEF Injection
  <2>7. ExistsBijection(1..Len(s), E)
    BY <2>5, <2>6 DEF ExistsBijection, Bijection
  <2>8. IsFiniteSet(1..Len(s)) /\ Cardinality(1..Len(s)) = Len(s)
    <3>1. 1 \in Int /\ Len(s) \in Int
      BY <2>1
    <3>2. IsFiniteSet(1..Len(s)) /\ Cardinality(1..Len(s)) = IF 1 > Len(s) THEN 0 ELSE Len(s) - 1 + 1
      BY <3>1, FS_Interval, Zenon
    <3> QED
      BY <2>1, <3>2
  <2>9. IsFiniteSet(E) /\ Cardinality(E) = Cardinality(1..Len(s))
    BY <2>7, <2>8, FS_Bijection
  <2> QED
    BY <2>8, <2>9 DEF E
<1>2. {v \in Texts : Contains(p, v)} = {v \in Texts : Contains(q, v)}
  OBVIOUS
<1> QED
  BY <1>1, <1>2

-----------------------------------------------------------------------------
(* The embedding cache *)

(* The cache is at its bound. *)
Full(c) == Len(c) = CacheEntries

(* The OrderedDict: distinct keys, within the bound. *)
Keys(c) == c \in Seq(Texts) /\ IsInjective(c) /\ Len(c) <= CacheEntries

(* From c to d no key is lost unless the cache is full, and a full cache   *)
(* stays full.                                                             *)
Keeps(c, d) == /\ Full(c) => Full(d)
               /\ \A v : Contains(c, v) => Contains(d, v) \/ Full(d)

(* Storing the vectors of a call keeps the cache a set of keys within its  *)
(* bound; a text stored is in the cache afterwards, or the cache is full.  *)
LEMMA InsertedKeeps ==
    ASSUME NEW c, Keys(c), NEW s \in Seq(Texts), IsInjective(s)
    PROVE  LET d == Evicted(Inserted(c, s))
           IN  Keys(d) /\ Keeps(c, d) /\ \A v : Contains(s, v) => Contains(d, v) \/ Full(d)
<1> DEFINE new == NotIn(c, s)
<1> DEFINE all == c \o new
<1>1. c \in Seq(Texts) /\ IsInjective(c) /\ Len(c) <= CacheEntries /\ Len(c) \in Nat
  BY LenProperties DEF Keys
<1>2. /\ new \in Seq(Texts) /\ IsInjective(new) /\ Len(new) \in Nat
      /\ \A v : Contains(new, v) <=> Contains(s, v) /\ ~Contains(c, v)
  BY <1>1, SelectedTexts, LenProperties
<1> HIDE DEF new
<1>3. /\ all \in Seq(Texts) /\ IsInjective(all) /\ Len(all) = Len(c) + Len(new)
      /\ \A v : Contains(all, v) <=> Contains(c, v) \/ Contains(new, v)
  BY <1>1, <1>2, JoinedTexts
<1>4. Inserted(c, s) = all
  BY DEF Inserted, new
<1> DEFINE d == Evicted(all)
<1> HIDE DEF all
<1>5. /\ d \in Seq(Texts) /\ IsInjective(d)
      /\ Len(all) <= CacheEntries => d = all
      /\ Len(all) > CacheEntries => Len(d) = CacheEntries
  BY <1>3, EvictedTexts
<1> HIDE DEF d
<1>6. CacheEntries \in Nat
  BY CacheAssumption
<1>7. CASE Len(all) <= CacheEntries
  <2>1. d = all
    BY <1>5, <1>7
  <2>2. Full(c) => Full(d)
    BY <1>1, <1>2, <1>3, <1>6, <1>7, <2>1 DEF Full
  <2>3. \A v : Contains(c, v) \/ Contains(s, v) => Contains(d, v)
    BY <1>2, <1>3, <2>1, Zenon
  <2>4. Keys(d)
    BY <1>3, <1>7, <2>1 DEF Keys
  <2> QED
    BY <1>4, <2>2, <2>3, <2>4 DEF Keeps, d
<1>8. CASE Len(all) > CacheEntries
  <2>1. Full(d) /\ Keys(d)
    BY <1>5, <1>6, <1>8 DEF Full, Keys
  <2> QED
    BY <1>4, <2>1 DEF Keeps, d
<1> QED
  BY <1>1, <1>2, <1>3, <1>6, <1>7, <1>8

(* move_to_end keeps the cache a set of keys within its bound, and all of  *)
(* them.                                                                   *)
LEMMA TouchedKeeps ==
    ASSUME NEW c, Keys(c), NEW s \in Seq(Texts), IsInjective(s)
    PROVE  LET d == Evicted(Touched(c, s)) IN Keys(d) /\ Keeps(c, d)
<1> DEFINE rest == NotIn(s, c)
<1> DEFINE found == Known(c, s)
<1> DEFINE all == rest \o found
<1>1. c \in Seq(Texts) /\ IsInjective(c) /\ Len(c) <= CacheEntries /\ Len(c) \in Nat
  BY LenProperties DEF Keys
<1>2. /\ rest \in Seq(Texts) /\ IsInjective(rest)
      /\ \A v : Contains(rest, v) <=> Contains(c, v) /\ ~Contains(s, v)
  BY <1>1, SelectedTexts
<1>3. /\ found \in Seq(Texts) /\ IsInjective(found)
      /\ \A v : Contains(found, v) <=> Contains(s, v) /\ Contains(c, v)
  BY <1>1, SelectedTexts
<1>4. Touched(c, s) = all
  BY DEF Touched, Known
<1> HIDE DEF rest, found
<1>5. \A v : ~(Contains(rest, v) /\ Contains(found, v))
  BY <1>2, <1>3, Zenon
<1>6. /\ all \in Seq(Texts) /\ IsInjective(all)
      /\ \A v : Contains(all, v) <=> Contains(rest, v) \/ Contains(found, v)
  BY <1>2, <1>3, <1>5, JoinedTexts
<1> HIDE DEF all
<1>7. \A v : Contains(all, v) <=> Contains(c, v)
  BY <1>2, <1>3, <1>6, Zenon
<1>8. Len(all) = Len(c)
  BY <1>1, <1>6, <1>7, SameTextsSameLength
<1>9. Evicted(all) = all
  BY <1>1, <1>6, <1>8, EvictedTexts
<1> QED
  BY <1>1, <1>4, <1>6, <1>7, <1>8, <1>9 DEF Keys, Keeps, Full

(* Where a call of embed_queries may be. *)
Places == {"idle", "encode", "recheck", "encode_absent", "read"}

(* A text of a call under way is in the cache, or is still to be encoded,  *)
(* unless the cache is full: only a full cache evicts. This is what makes  *)
(* FailsOnlyWhenFull provable.                                             *)
EmbedInv ==
    /\ Keys(cache)
    /\ pc \in [Threads -> Places]
    /\ texts \in [Threads -> Seq(Texts)] /\ todo \in [Threads -> Seq(Texts)]
    /\ failed \in [Threads -> BOOLEAN]
    /\ \A t \in Threads :
          /\ IsInjective(texts[t]) /\ IsInjective(todo[t])
          /\ pc[t] \notin {"encode", "encode_absent"} => todo[t] = <<>>
          /\ \A v : Contains(texts[t], v) =>
                Contains(cache, v) \/ Contains(todo[t], v) \/ Full(cache)

(* A call without texts. *)
LEMMA NoTexts == <<>> \in Seq(Texts) /\ IsInjective(<<>>) /\ \A v : ~Contains(<<>>, v)
<1>1. <<>> \in Seq(Texts) /\ Len(<<>>) = 0 /\ DOMAIN <<>> = {}
  OBVIOUS
<1> QED
  BY <1>1 DEF IsInjective, Contains

(* EmbedInv holds of an empty cache. *)
LEMMA EmbedInvInit == EmbedInit => EmbedInv
<1>1. CacheEntries \in Nat /\ Len(<<>>) = 0
  BY CacheAssumption
<1> QED
  BY <1>1, NoTexts DEF EmbedInit, EmbedInv, Keys, Places

(* The texts of a call are distinct. *)
LEMMA LookupTexts ==
    ASSUME NEW s \in Lookups
    PROVE  s \in Seq(Texts) /\ IsInjective(s)
BY CacheAssumption DEF Lookups

(* The critical sections that look for what is missing keep EmbedInv: what *)
(* they find missing is to be encoded.                                     *)
LEMMA EmbedInvFind ==
    ASSUME EmbedInv, NEW t \in Threads, FindMissing(t) \/ FindAbsent(t)
    PROVE  EmbedInv'
<1>1. PICK s \in Seq(Texts) :
         /\ IsInjective(s) /\ texts' = [texts EXCEPT ![t] = s]
         /\ todo' = [todo EXCEPT ![t] = NotIn(cache, s)]
         /\ failed' \in [Threads -> BOOLEAN] /\ cache' = cache
         /\ pc' \in [Threads -> Places]
         /\ \A u \in Threads \ {t} : pc'[u] = pc[u]
         /\ pc'[t] \notin {"encode", "encode_absent"} => todo'[t] = <<>>
  <2>1. CASE FindMissing(t)
    <3>1. PICK s \in Lookups :
             /\ texts' = [texts EXCEPT ![t] = s]
             /\ todo' = [todo EXCEPT ![t] = NotIn(cache, s)]
             /\ At(t, "idle", IF todo'[t] = <<>> THEN "recheck" ELSE "encode")
      BY <2>1 DEF FindMissing
    <3>2. s \in Seq(Texts) /\ IsInjective(s)
      BY LookupTexts
    <3> QED
      BY <2>1, <3>1, <3>2 DEF FindMissing, At, EmbedInv, Places
  <2>2. CASE FindAbsent(t)
    <3>1. texts[t] \in Seq(Texts) /\ IsInjective(texts[t]) /\ texts' = [texts EXCEPT ![t] = texts[t]]
      BY <2>2 DEF EmbedInv, FindAbsent
    <3> QED
      BY <2>2, <3>1 DEF FindAbsent, At, EmbedInv, Places
  <2> QED
    BY <2>1, <2>2
<1>2. cache \in Seq(Texts)
  BY DEF EmbedInv, Keys
<1>3. /\ NotIn(cache, s) \in Seq(Texts) /\ IsInjective(NotIn(cache, s))
      /\ \A v : Contains(NotIn(cache, s), v) <=> Contains(s, v) /\ ~Contains(cache, v)
  BY <1>1, <1>2, SelectedTexts
<1>4. texts'[t] = s /\ todo'[t] = NotIn(cache, s)
  BY <1>1 DEF EmbedInv
<1>5. \A u \in Threads \ {t} : texts'[u] = texts[u] /\ todo'[u] = todo[u]
  BY <1>1 DEF EmbedInv
<1>6. texts' \in [Threads -> Seq(Texts)] /\ todo' \in [Threads -> Seq(Texts)]
  BY <1>1, <1>3 DEF EmbedInv
<1>7. \A v : Contains(texts'[t], v) => Contains(cache, v) \/ Contains(todo'[t], v)
  BY <1>3, <1>4, Zenon
<1>8. ASSUME NEW u \in Threads
      PROVE  /\ IsInjective(texts'[u]) /\ IsInjective(todo'[u])
             /\ pc'[u] \notin {"encode", "encode_absent"} => todo'[u] = <<>>
             /\ \A v : Contains(texts'[u], v) =>
                   Contains(cache, v) \/ Contains(todo'[u], v) \/ Full(cache)
  <2>1. CASE u = t
    BY <1>1, <1>3, <1>4, <1>7, <2>1
  <2>2. CASE u # t
    BY <1>1, <1>5, <2>2 DEF EmbedInv
  <2> QED
    BY <2>1, <2>2
<1> QED
  BY <1>1, <1>6, <1>8 DEF EmbedInv

(* The steps that store, touch or fail keep EmbedInv: what a thread stores *)
(* is in the cache or has filled it, and what the others wait for is kept  *)
(* or the cache is full.                                                   *)
LEMMA EmbedInvCache ==
    ASSUME EmbedInv, NEW t \in Threads, Encode(t) \/ ReadVectors(t) \/ EncodeFails(t)
    PROVE  EmbedInv'
<1>1. /\ Keys(cache) /\ texts[t] \in Seq(Texts) /\ IsInjective(texts[t])
      /\ todo[t] \in Seq(Texts) /\ IsInjective(todo[t])
  BY DEF EmbedInv
<1>2. /\ Keys(cache') /\ Keeps(cache, cache')
      /\ Encode(t) => \A v : Contains(todo[t], v) => Contains(cache', v) \/ Full(cache')
  <2>1. CASE Encode(t)
    BY <1>1, <2>1, InsertedKeeps DEF Encode
  <2>2. CASE ReadVectors(t)
    <3>1. ~Encode(t)
      BY <2>2 DEF ReadVectors, Encode, At
    <3> QED
      BY <1>1, <2>2, <3>1, TouchedKeeps DEF ReadVectors
  <2>3. CASE EncodeFails(t)
    <3>1. cache' = cache /\ ~Encode(t)
      BY <2>3 DEF EncodeFails, Encode, At, EmbedInv
    <3> QED
      BY <1>1, <3>1 DEF Keeps
  <2> QED
    BY <2>1, <2>2, <2>3
<1>3. /\ texts' \in [Threads -> Seq(Texts)] /\ todo' \in [Threads -> Seq(Texts)]
      /\ failed' \in [Threads -> BOOLEAN] /\ pc' \in [Threads -> Places]
      /\ \A u \in Threads \ {t} : texts'[u] = texts[u] /\ todo'[u] = todo[u] /\ pc'[u] = pc[u]
      /\ todo'[t] = <<>> /\ IsInjective(texts'[t])
      /\ Encode(t) => texts'[t] = texts[t]
      /\ ~Encode(t) => texts'[t] = <<>>
  <2>1. CASE Encode(t)
    <3> QED
      BY <1>1, <2>1, NoTexts DEF Encode, At, EmbedInv, Places
  <2>2. CASE ReadVectors(t)
    <3>1. ~Encode(t)
      BY <2>2 DEF ReadVectors, Encode, At
    <3>2. todo[t] = <<>> /\ todo' = todo
      BY <2>2 DEF ReadVectors, At, EmbedInv
    <3> QED
      BY <2>2, <3>1, <3>2, NoTexts DEF ReadVectors, At, EmbedInv, Places
  <2>3. CASE EncodeFails(t)
    <3>1. ~Encode(t)
      BY <2>3 DEF EncodeFails, Encode, At, EmbedInv
    <3> QED
      BY <2>3, <3>1, NoTexts DEF EncodeFails, At, EmbedInv, Places
  <2> QED
    BY <2>1, <2>2, <2>3
<1>4. ASSUME NEW u \in Threads
      PROVE  /\ IsInjective(texts'[u]) /\ IsInjective(todo'[u])
             /\ pc'[u] \notin {"encode", "encode_absent"} => todo'[u] = <<>>
             /\ \A v : Contains(texts'[u], v) =>
                   Contains(cache', v) \/ Contains(todo'[u], v) \/ Full(cache')
  <2>1. \A v : Contains(texts[u], v) =>
                   Contains(cache, v) \/ Contains(todo[u], v) \/ Full(cache)
    BY DEF EmbedInv
  <2>2. CASE u # t
    BY <1>2, <1>3, <2>1, <2>2 DEF EmbedInv, Keeps
  <2>3. CASE u = t /\ Encode(t)
    BY <1>2, <1>3, <2>1, <2>3, NoTexts DEF Keeps
  <2>4. CASE u = t /\ ~Encode(t)
    BY <1>3, <2>4, NoTexts
  <2> QED
    BY <2>2, <2>3, <2>4
<1> QED
  BY <1>2, <1>3, <1>4 DEF EmbedInv

(* Every step keeps EmbedInv. *)
LEMMA EmbedInvStep == EmbedInv /\ [Next]_vars => EmbedInv'
<1> SUFFICES ASSUME EmbedInv, [Next]_vars
             PROVE  EmbedInv'
  OBVIOUS
<1>1. CASE UNCHANGED embedVars
  BY <1>1 DEF embedVars, EmbedInv, Keys, Full
<1>2. ASSUME NEW t \in Threads, Embed(t)
      PROVE  EmbedInv'
  BY <1>2, EmbedInvFind, EmbedInvCache DEF Embed
<1>3. ASSUME NEW t \in Threads, Begin(t) \/ SearchDense(t) \/ LookUpCorpus(t) \/ Fetch(t) \/ Leave(t)
      PROVE  UNCHANGED embedVars
  BY <1>3 DEF Begin, SearchDense, LookUpCorpus, Fetch, Leave
<1>4. Environment \/ Ended \/ UNCHANGED vars => UNCHANGED embedVars
  BY DEF Environment, Ended, vars
<1> QED
  BY <1>1, <1>2, <1>3, <1>4 DEF Next

-----------------------------------------------------------------------------
(* A page of records *)

(* The records of one type, as ReadPage reads them. *)
StoredOf(x, type) == Picked(x, {i \in DOMAIN x : x[i].type = type})

(* No two records with one id. *)
DistinctIds(x) == \A i, j \in 1..Len(x) : x[i].id = x[j].id => i = j

(* st holds the records of x of one type, and repeats none that x does not *)
(* repeat.                                                                 *)
IsStored(S, x, type, st) ==
    /\ st \in Seq(S)
    /\ \A k \in 1..Len(st) : \E i \in 1..Len(x) : st[k] = x[i] /\ x[i].type = type
    /\ \A i \in 1..Len(x) : x[i].type = type => \E k \in 1..Len(st) : st[k] = x[i]
    /\ DistinctIds(x) => DistinctIds(st)

(* Chroma's filter by type gives the records of the type. *)
LEMMA StoredFacts ==
    ASSUME NEW S, NEW x \in Seq(S), NEW type, NEW st, st = StoredOf(x, type)
    PROVE  IsStored(S, x, type, st)
<1> DEFINE I == {i \in DOMAIN x : x[i].type = type}
<1>1. st = Picked(x, I)
  BY DEF StoredOf
<1>2. DOMAIN x = 1..Len(x)
  BY LenProperties
<1>3. I \in SUBSET DOMAIN x /\ \A i \in I : x[i].type = type
  OBVIOUS
<1>4. \A i \in 1..Len(x) : x[i].type = type => i \in I
  BY <1>2
<1> HIDE DEF I
<1>5. /\ st \in Seq(S)
      /\ \A k \in 1..Len(st) : Nth(I, k) \in I /\ st[k] = x[Nth(I, k)]
      /\ \A k, l \in 1..Len(st) : Nth(I, k) = Nth(I, l) => k = l
      /\ \A i \in I : \E k \in 1..Len(st) : Nth(I, k) = i
  <2> DEFINE p == Picked(x, I)
  <2>1. IsPicked(S, x, I, p)
    BY <1>3, PickedFacts
  <2>2. /\ p \in Seq(S)
        /\ \A k \in 1..Len(p) : Nth(I, k) \in I /\ p[k] = x[Nth(I, k)]
        /\ \A k, l \in 1..Len(p) : Nth(I, k) = Nth(I, l) => k = l
        /\ \A i \in I : \E k \in 1..Len(p) : Nth(I, k) = i
    <3> HIDE DEF p
    <3> QED
      BY <2>1 DEF IsPicked
  <2> HIDE DEF p
  <2>3. st = p
    BY <1>1 DEF p
  <2> QED
    BY <2>2, <2>3
<1>6. \A k \in 1..Len(st) : \E i \in 1..Len(x) : st[k] = x[i] /\ x[i].type = type
  BY <1>2, <1>3, <1>5
<1>7. \A i \in 1..Len(x) : x[i].type = type => \E k \in 1..Len(st) : st[k] = x[i]
  BY <1>4, <1>5
<1>8. ASSUME DistinctIds(x), NEW k \in 1..Len(st), NEW l \in 1..Len(st), st[k].id = st[l].id
      PROVE  k = l
  <2>1. /\ Nth(I, k) \in 1..Len(x) /\ Nth(I, l) \in 1..Len(x)
        /\ x[Nth(I, k)].id = x[Nth(I, l)].id
    BY <1>2, <1>3, <1>5, <1>8
  <2>2. Nth(I, k) = Nth(I, l)
    BY <1>8, <2>1 DEF DistinctIds
  <2> QED
    BY <1>5, <2>2
<1> QED
  BY <1>5, <1>6, <1>7, <1>8 DEF DistinctIds, IsStored

(* The lesser of two naturals. *)
LEMMA LesserFacts ==
    ASSUME NEW a \in Nat, NEW b \in Nat
    PROVE  Lesser(a, b) \in Nat /\ Lesser(a, b) <= a /\ Lesser(a, b) <= b
           /\ (Lesser(a, b) = a \/ Lesser(a, b) = b)
BY DEF Lesser

(* A page of the stored records. *)
PageOf(st, offset, limit) == SubSeq(st, offset + 1, Lesser(offset + limit, Len(st)))

(* The page holds the records after the offset, in their order, and is     *)
(* shorter than its limit only at their end.                               *)
IsPage(S, st, offset, limit, page) ==
    /\ page \in Seq(S) /\ Len(page) <= limit
    /\ \A k \in 1..Len(page) : offset + k \in 1..Len(st) /\ page[k] = st[offset + k]
    /\ offset <= Len(st) =>
          /\ offset + Len(page) <= Len(st)
          /\ Len(page) = limit \/ offset + Len(page) = Len(st)

(* A page is a run of the stored records. *)
LEMMA PageFacts ==
    ASSUME NEW S, NEW st \in Seq(S), NEW offset \in Nat, NEW limit \in Nat,
           NEW page, page = PageOf(st, offset, limit)
    PROVE  IsPage(S, st, offset, limit, page)
<1> DEFINE last == Lesser(offset + limit, Len(st))
<1>1. Len(st) \in Nat /\ last \in Nat /\ last <= offset + limit /\ last <= Len(st)
      /\ (last = offset + limit \/ last = Len(st))
  <2>1. Len(st) \in Nat /\ offset + limit \in Nat
    BY LenProperties
  <2> QED
    BY <2>1 DEF Lesser
<1>2. page = SubSeq(st, offset + 1, last)
  BY DEF PageOf
<1> HIDE DEF last
<1>3. CASE offset + 1 <= last
  <2>1. offset + 1 \in 1 .. Len(st) + 1 /\ last <= Len(st) /\ offset + 1 \in Nat
    BY <1>1, <1>3
  <2>2. \A i \in offset + 1 .. last : st[i] \in S
    BY <1>1, <2>1, ElementOfSeq
  <2>3. /\ page \in Seq(S)
        /\ Len(page) = IF offset + 1 <= last THEN last - (offset + 1) + 1 ELSE 0
        /\ \A i \in 1 .. last - (offset + 1) + 1 : page[i] = st[offset + 1 + i - 1]
    BY <1>1, <1>2, <2>1, <2>2, SubSeqProperties, SMTT(30)
  <2>4. Len(page) = last - offset /\ last - (offset + 1) + 1 = last - offset
    BY <1>1, <1>3, <2>3
  <2>5. \A k \in 1..Len(page) : offset + k \in 1..Len(st) /\ page[k] = st[offset + k]
    <3> SUFFICES ASSUME NEW k \in 1..Len(page)
                 PROVE  offset + k \in 1..Len(st) /\ page[k] = st[offset + k]
      OBVIOUS
    <3>1. k \in 1 .. last - (offset + 1) + 1 /\ offset + 1 + k - 1 = offset + k
      BY <1>1, <1>3, <2>4
    <3> QED
      BY <1>1, <2>3, <2>4, <3>1
  <2> QED
    BY <1>1, <1>2, <1>3, <2>3, <2>4, <2>5 DEF IsPage
<1>4. CASE ~(offset + 1 <= last)
  <2>1. page = <<>> /\ Len(page) = 0
    BY <1>1, <1>2, <1>4
  <2>2. <<>> \in Seq(S)
    BY EmptySeq
  <2>3. offset <= Len(st) => offset + 0 <= Len(st) /\ (0 = limit \/ offset + 0 = Len(st))
    BY <1>1, <1>4
  <2> QED
    BY <1>1, <1>2, <2>1, <2>2, <2>3 DEF IsPage
<1> QED
  BY <1>3, <1>4

(* q holds the records of the page that documents are built of, all of     *)
(* them if all are compatible.                                             *)
IsAdmitted(S, page, q) ==
    /\ q \in Seq(S)
    /\ \A k \in 1..Len(q) : \E i \in 1..Len(page) : q[k] = page[i] /\ page[i].compatible
    /\ DistinctIds(page) => DistinctIds(q)
    /\ (\A i \in 1..Len(page) : page[i].compatible) =>
          /\ Len(q) = Len(page)
          /\ \A i \in 1..Len(page) : \E k \in 1..Len(q) : q[k] = page[i]

(* Admitted drops the incompatible records and nothing else. *)
LEMMA AdmittedFacts ==
    ASSUME NEW S, NEW page \in Seq(S), NEW q, q = Admitted(page)
    PROVE  IsAdmitted(S, page, q)
<1> DEFINE I == {i \in DOMAIN page : page[i].compatible}
<1>1. DOMAIN page = 1..Len(page) /\ Len(page) \in Nat
  BY LenProperties
<1>2. I \in SUBSET DOMAIN page /\ \A i \in I : page[i].compatible
  OBVIOUS
<1>3. (\A i \in 1..Len(page) : page[i].compatible) => I = 1..Len(page)
  BY <1>1
<1>4. q = Picked(page, I)
  BY DEF Admitted, Selected
<1> HIDE DEF I
<1>5. /\ q \in Seq(S) /\ Len(q) = Cardinality(I)
      /\ \A k \in 1..Len(q) : Nth(I, k) \in I /\ q[k] = page[Nth(I, k)]
      /\ \A k, l \in 1..Len(q) : Nth(I, k) = Nth(I, l) => k = l
      /\ \A i \in I : \E k \in 1..Len(q) : Nth(I, k) = i
  <2> DEFINE p == Picked(page, I)
  <2>1. IsPicked(S, page, I, p)
    BY <1>2, PickedFacts
  <2>2. /\ p \in Seq(S) /\ Len(p) = Cardinality(I)
        /\ \A k \in 1..Len(p) : Nth(I, k) \in I /\ p[k] = page[Nth(I, k)]
        /\ \A k, l \in 1..Len(p) : Nth(I, k) = Nth(I, l) => k = l
        /\ \A i \in I : \E k \in 1..Len(p) : Nth(I, k) = i
    <3> HIDE DEF p
    <3> QED
      BY <2>1 DEF IsPicked
  <2> HIDE DEF p
  <2>3. q = p
    BY <1>4 DEF p
  <2> QED
    BY <2>2, <2>3
<1>6. \A k \in 1..Len(q) : \E i \in 1..Len(page) : q[k] = page[i] /\ page[i].compatible
  BY <1>1, <1>2, <1>5
<1>7. ASSUME DistinctIds(page), NEW k \in 1..Len(q), NEW l \in 1..Len(q), q[k].id = q[l].id
      PROVE  k = l
  <2>1. /\ Nth(I, k) \in 1..Len(page) /\ Nth(I, l) \in 1..Len(page)
        /\ page[Nth(I, k)].id = page[Nth(I, l)].id
    BY <1>1, <1>2, <1>5, <1>7
  <2>2. Nth(I, k) = Nth(I, l)
    BY <1>7, <2>1 DEF DistinctIds
  <2> QED
    BY <1>5, <2>2
<1>8. ASSUME \A i \in 1..Len(page) : page[i].compatible
      PROVE  Len(q) = Len(page) /\ \A i \in 1..Len(page) : \E k \in 1..Len(q) : q[k] = page[i]
  <2>1. I = 1..Len(page)
    BY <1>3, <1>8
  <2>2. Cardinality(1..Len(page)) = Len(page)
    <3>1. 1 \in Int /\ Len(page) \in Int
      BY <1>1
    <3>2. Cardinality(1..Len(page)) = IF 1 > Len(page) THEN 0 ELSE Len(page) - 1 + 1
      BY <3>1, FS_Interval, Zenon
    <3> QED
      BY <1>1, <3>2
  <2> QED
    BY <1>5, <2>1, <2>2
<1> QED
  BY <1>4, <1>5, <1>6, <1>7, <1>8 DEF DistinctIds, IsAdmitted

-----------------------------------------------------------------------------
(* A page of a scan *)

(* The source types that a scan has still to read. *)
Left(scan) == {scan.left[k] : k \in 1..Len(scan.left)}

(* The page that ReadPage reads. *)
PageAhead(x, scan, pageSize, max) ==
    PageOf(StoredOf(x, Head(scan.left)), scan.offset, Lesser(pageSize, max - Len(scan.records)))
(* The records of the scan after it. *)
RecordsAfter(x, scan, pageSize, max) == scan.records \o Admitted(PageAhead(x, scan, pageSize, max))

(* A scan is well-formed: the types left are types of the scope, each      *)
(* once; its records are of U; and while types are left the ceiling is not *)
(* reached.                                                                *)
ScanTyped(scan, scope, U, max) ==
    /\ scan.left \in Seq(scope)
    /\ \A i, j \in 1..Len(scan.left) : scan.left[i] = scan.left[j] => i = j
    /\ scan.offset \in Nat
    /\ scan.records \in Seq(U)
    /\ scan.left # <<>> => Len(scan.records) < max

(* ReadPage in its three cases: the ceiling reached, a partition at its    *)
(* end, a partition with more to read.                                     *)
LEMMA ReadPageIs ==
    ASSUME NEW x, NEW scan, NEW pageSize, NEW max
    PROVE  LET s == ReadPage(x, scan, pageSize, max)
               page == PageAhead(x, scan, pageSize, max)
               records == RecordsAfter(x, scan, pageSize, max)
           IN  /\ s.records = records
               /\ Len(records) >= max => s.left = <<>> /\ s.offset = 0
               /\ ~(Len(records) >= max) /\ Len(page) < pageSize => s.left = Tail(scan.left) /\ s.offset = 0
               /\ ~(Len(records) >= max) /\ ~(Len(page) < pageSize) =>
                     s.left = scan.left /\ s.offset = scan.offset + Len(page)
<1> DEFINE page == PageAhead(x, scan, pageSize, max)
<1> DEFINE records == RecordsAfter(x, scan, pageSize, max)
<1>1. ReadPage(x, scan, pageSize, max) =
        CASE Len(records) >= max -> [left |-> << >>, offset |-> 0, records |-> records]
          [] ~(Len(records) >= max) /\ Len(page) < pageSize ->
                [left |-> Tail(scan.left), offset |-> 0, records |-> records]
          [] OTHER ->
                [left |-> scan.left, offset |-> scan.offset + Len(page), records |-> records]
  BY DEF ReadPage, Ceiling, RecordsAfter, PageAhead, PageOf, StoredOf, Selected
<1> HIDE DEF page, records
<1>2. CASE Len(records) >= max
  BY <1>1, <1>2 DEF page, records
<1>3. CASE ~(Len(records) >= max) /\ Len(page) < pageSize
  BY <1>1, <1>3 DEF page, records
<1>4. CASE ~(Len(records) >= max) /\ ~(Len(page) < pageSize)
  BY <1>1, <1>4 DEF page, records
<1> QED
  BY <1>2, <1>3, <1>4

(* The page is of the first type left, and it is short only because of the *)
(* page size, the ceiling or the end of the partition.                     *)
IsNextPage(S, x, scope, scan, pageSize, max, st, page) ==
    /\ st \in Seq(S) /\ page \in Seq(S) /\ Head(scan.left) \in scope
    /\ \A k \in 1..Len(page) :
          scan.offset + k \in 1..Len(st) /\ page[k] = st[scan.offset + k]
    /\ scan.offset <= Len(st) =>
          /\ scan.offset + Len(page) <= Len(st)
          /\ \/ Len(page) = pageSize
             \/ Len(scan.records) + Len(page) = max
             \/ scan.offset + Len(page) = Len(st)
    /\ \A k \in 1..Len(page) : \E i \in 1..Len(x) :
          page[k] = x[i] /\ x[i].type = Head(scan.left)

(* What the next page of a well-formed scan holds. *)
LEMMA NextPageFacts ==
    ASSUME NEW S, NEW x \in Seq(S), NEW scope, NEW U, NEW scan,
           NEW pageSize \in Nat, NEW max \in Nat,
           ScanTyped(scan, scope, U, max), scan.left # <<>>,
           NEW st, st = StoredOf(x, Head(scan.left)),
           NEW page, page = PageAhead(x, scan, pageSize, max)
    PROVE  IsNextPage(S, x, scope, scan, pageSize, max, st, page)
<1> DEFINE limit == Lesser(pageSize, max - Len(scan.records))
<1>1. Len(scan.records) \in Nat /\ Len(scan.records) < max /\ scan.offset \in Nat
  BY LenProperties DEF ScanTyped
<1>2. max - Len(scan.records) \in Nat
  BY <1>1
<1>3. limit \in Nat /\ (limit = pageSize \/ limit = max - Len(scan.records))
  BY <1>2, LesserFacts
<1>4. st \in Seq(S) /\ \A k \in 1..Len(st) : \E i \in 1..Len(x) :
        st[k] = x[i] /\ x[i].type = Head(scan.left)
  <2> DEFINE type == Head(scan.left)
  <2> HIDE DEF type
  <2>1. st = StoredOf(x, type)
    BY DEF type
  <2>2. IsStored(S, x, type, st)
    BY <2>1, StoredFacts
  <2>3. /\ st \in Seq(S)
        /\ \A k \in 1..Len(st) : \E i \in 1..Len(x) : st[k] = x[i] /\ x[i].type = type
    BY <2>2 DEF IsStored
  <2> QED
    BY <2>3, Zenon DEF type
<1>5. Head(scan.left) \in scope
  BY HeadTailProperties DEF ScanTyped
<1>6. page = PageOf(st, scan.offset, limit)
  BY DEF PageAhead
<1> HIDE DEF limit
<1>7. /\ page \in Seq(S) /\ Len(page) <= limit
      /\ \A k \in 1..Len(page) : /\ scan.offset + k \in 1..Len(st)
                                 /\ page[k] = st[scan.offset + k]
      /\ scan.offset <= Len(st) =>
            /\ scan.offset + Len(page) <= Len(st)
            /\ Len(page) = limit \/ scan.offset + Len(page) = Len(st)
  <2> DEFINE offset == scan.offset
  <2> HIDE DEF offset
  <2>1. offset \in Nat /\ st \in Seq(S) /\ limit \in Nat
    BY <1>1, <1>3, <1>4 DEF offset
  <2>2. page = PageOf(st, offset, limit)
    BY <1>6 DEF offset
  <2>3. IsPage(S, st, offset, limit, page)
    BY <2>1, <2>2, PageFacts
  <2> QED
    BY <2>3, Zenon DEF IsPage, offset
<1>8. Len(page) \in Nat /\ Len(st) \in Nat
  BY <1>4, <1>7, LenProperties
<1>9. scan.offset <= Len(st) => \/ Len(page) = pageSize
                                \/ Len(scan.records) + Len(page) = max
                                \/ scan.offset + Len(page) = Len(st)
  <2>1. Len(page) = limit => \/ Len(page) = pageSize
                             \/ Len(scan.records) + Len(page) = max
    BY <1>1, <1>3, <1>8
  <2> QED
    BY <1>7, <2>1
<1>10. \A k \in 1..Len(page) : \E i \in 1..Len(x) :
           page[k] = x[i] /\ x[i].type = Head(scan.left)
  <2> SUFFICES ASSUME NEW k \in 1..Len(page)
               PROVE  \E i \in 1..Len(x) : page[k] = x[i] /\ x[i].type = Head(scan.left)
    OBVIOUS
  <2>1. scan.offset + k \in 1..Len(st) /\ page[k] = st[scan.offset + k]
    BY <1>7
  <2>2. \E i \in 1..Len(x) :
           st[scan.offset + k] = x[i] /\ x[i].type = Head(scan.left)
    BY <1>4, <2>1, Zenon
  <2> QED
    BY <2>1, <2>2, Zenon
<1> QED
  BY <1>4, <1>5, <1>7, <1>9, <1>10 DEF IsNextPage

(* Without its first type, a sequence of distinct types is the other       *)
(* types.                                                                  *)
LEMMA TailFacts ==
    ASSUME NEW S, NEW s \in Seq(S), s # <<>>, \A i, j \in 1..Len(s) : s[i] = s[j] => i = j
    PROVE  /\ Tail(s) \in Seq(S)
           /\ \A i, j \in 1..Len(Tail(s)) : Tail(s)[i] = Tail(s)[j] => i = j
           /\ {Tail(s)[k] : k \in 1..Len(Tail(s))} = {s[k] : k \in 1..Len(s)} \ {Head(s)}
<1>1. /\ Tail(s) \in Seq(S) /\ Len(Tail(s)) = Len(s) - 1 /\ Head(s) = s[1]
      /\ \A i \in 1..Len(Tail(s)) : Tail(s)[i] = s[i + 1]
  BY HeadTailProperties
<1>2. Len(s) \in Nat /\ Len(s) >= 1
  BY LenProperties, EmptySeq
<1>3. ASSUME NEW i \in 1..Len(Tail(s)), NEW j \in 1..Len(Tail(s)), Tail(s)[i] = Tail(s)[j]
      PROVE  i = j
  <2>1. i + 1 \in 1..Len(s) /\ j + 1 \in 1..Len(s)
    BY <1>1, <1>2
  <2> QED
    BY <1>1, <1>3, <2>1
<1>4. ASSUME NEW k \in 1..Len(Tail(s))
      PROVE  \E l \in 1..Len(s) : Tail(s)[k] = s[l] /\ s[l] # Head(s)
  <2>1. k + 1 \in 1..Len(s) /\ 1 \in 1..Len(s) /\ k + 1 # 1
    BY <1>1, <1>2
  <2> QED
    BY <1>1, <2>1
<1>5. ASSUME NEW l \in 1..Len(s), s[l] # Head(s)
      PROVE  \E k \in 1..Len(Tail(s)) : Tail(s)[k] = s[l]
  <2>1. l - 1 \in 1..Len(Tail(s)) /\ (l - 1) + 1 = l
    BY <1>1, <1>2, <1>5
  <2> QED
    BY <1>1, <2>1
<1> QED
  BY <1>1, <1>3, <1>4, <1>5

(* Whatever the collection holds by now, ReadPage keeps a scan well-       *)
(* formed: it adds only compatible records of a type of the scope.         *)
LEMMA ReadPageTyped ==
    ASSUME NEW S, NEW x \in Seq(S), NEW scope, NEW U, NEW scan,
           NEW pageSize \in Nat, NEW max \in Nat,
           ScanTyped(scan, scope, U, max), scan.left # <<>>,
           \A r \in S : r.compatible /\ r.type \in scope => r \in U
    PROVE  ScanTyped(ReadPage(x, scan, pageSize, max), scope, U, max)
<1> DEFINE s == ReadPage(x, scan, pageSize, max)
<1> DEFINE page == PageAhead(x, scan, pageSize, max)
<1> DEFINE q == Admitted(page)
<1> DEFINE records == RecordsAfter(x, scan, pageSize, max)
<1>1. /\ s.records = records
      /\ Len(records) >= max => s.left = <<>> /\ s.offset = 0
      /\ ~(Len(records) >= max) /\ Len(page) < pageSize => s.left = Tail(scan.left) /\ s.offset = 0
      /\ ~(Len(records) >= max) /\ ~(Len(page) < pageSize) =>
            s.left = scan.left /\ s.offset = scan.offset + Len(page)
  BY ReadPageIs
<1>2. /\ page \in Seq(S) /\ Head(scan.left) \in scope
      /\ \A k \in 1..Len(page) : \E i \in 1..Len(x) :
            page[k] = x[i] /\ x[i].type = Head(scan.left)
  <2> DEFINE st == StoredOf(x, Head(scan.left))
  <2>1. st = StoredOf(x, Head(scan.left)) /\ page = PageAhead(x, scan, pageSize, max)
    OBVIOUS
  <2> HIDE DEF st, page
  <2>2. IsNextPage(S, x, scope, scan, pageSize, max, st, page)
    BY <2>1, NextPageFacts
  <2> QED
    BY <2>2, Zenon DEF IsNextPage
<1>3. records = scan.records \o q
  BY DEF RecordsAfter
<1> HIDE DEF s, page, records
<1>4. q = Admitted(page)
  OBVIOUS
<1> HIDE DEF q
<1>5. q \in Seq(S) /\ \A k \in 1..Len(q) : \E i \in 1..Len(page) : q[k] = page[i] /\ page[i].compatible
  <2>1. IsAdmitted(S, page, q)
    BY <1>2, <1>4, AdmittedFacts
  <2> QED
    BY <2>1, Zenon DEF IsAdmitted
<1>6. \A k \in 1..Len(q) : q[k] \in U
  <2> SUFFICES ASSUME NEW k \in 1..Len(q) PROVE q[k] \in U
    OBVIOUS
  <2>1. PICK i \in 1..Len(page) : q[k] = page[i] /\ page[i].compatible
    BY <1>5
  <2>2. page[i].type = Head(scan.left)
    BY <1>2, <2>1
  <2>3. q[k] \in S
    BY <1>5, ElementOfSeq
  <2> QED
    BY <1>2, <2>1, <2>2, <2>3
<1>7. q \in Seq(U)
  BY <1>5, <1>6, SeqDef, LenProperties
<1>8. scan.records \in Seq(U) /\ scan.left \in Seq(scope) /\ scan.offset \in Nat
      /\ \A i, j \in 1..Len(scan.left) : scan.left[i] = scan.left[j] => i = j
  BY DEF ScanTyped
<1>9. records \in Seq(U)
  BY <1>3, <1>7, <1>8, ConcatProperties
<1>10. Len(records) \in Nat /\ Len(page) \in Nat
  BY <1>2, <1>9, LenProperties
<1>11. CASE Len(records) >= max
  <2>1. s.left = <<>> /\ s.offset = 0 /\ Len(s.left) = 0
    BY <1>1, <1>11
  <2>2. s.left \in Seq(scope)
    BY <2>1, EmptySeq
  <2> QED
    BY <1>1, <1>9, <2>1, <2>2 DEF ScanTyped, s
<1>12. CASE ~(Len(records) >= max) /\ Len(page) < pageSize
  <2>1. s.left = Tail(scan.left) /\ s.offset = 0
    BY <1>1, <1>12
  <2>2. s.left \in Seq(scope) /\ \A i, j \in 1..Len(s.left) : s.left[i] = s.left[j] => i = j
    BY <1>8, <2>1, TailFacts
  <2>3. Len(s.records) < max
    BY <1>1, <1>10, <1>12
  <2> QED
    BY <1>1, <1>9, <2>1, <2>2, <2>3 DEF ScanTyped, s
<1>13. CASE ~(Len(records) >= max) /\ ~(Len(page) < pageSize)
  <2>1. s.left = scan.left /\ s.offset = scan.offset + Len(page)
    BY <1>1, <1>13
  <2>2. Len(s.records) < max /\ s.offset \in Nat
    BY <1>1, <1>8, <1>10, <1>13, <2>1
  <2> QED
    BY <1>1, <1>8, <1>9, <2>1, <2>2 DEF ScanTyped, s
<1> QED
  BY <1>11, <1>12, <1>13

(* The elements of a sequence. *)
Elements(s) == {s[k] : k \in 1..Len(s)}

(* What a scan has read of an index: the types that are done, and of the   *)
(* type at hand what is before the offset.                                 *)
TakenOf(x, scan, scope) ==
    {r \in Elements(x) : r.type \in scope /\ r.type \notin Left(scan)}
        \cup IF scan.left = <<>> THEN {}
             ELSE {StoredOf(x, Head(scan.left))[j] : j \in 1..scan.offset}

(* A scan holds what it has read, all of it and nothing that x does not    *)
(* repeat twice.                                                           *)
Exact(x, scan, scope) ==
    /\ DistinctIds(x) => DistinctIds(scan.records)
    /\ Elements(scan.records) = TakenOf(x, scan, scope)
    /\ scan.left # <<>> => scan.offset <= Len(StoredOf(x, Head(scan.left)))

(* One sequence after another has the elements of both. *)
LEMMA ConcatElements ==
    ASSUME NEW S, NEW a \in Seq(S), NEW b \in Seq(S)
    PROVE  Elements(a \o b) = Elements(a) \cup Elements(b)
<1>1. /\ Len(a) \in Nat /\ Len(b) \in Nat /\ Len(a \o b) = Len(a) + Len(b)
      /\ \A i \in 1..(Len(a) + Len(b)) :
            (a \o b)[i] = IF i <= Len(a) THEN a[i] ELSE b[i - Len(a)]
  BY LenProperties, ConcatProperties
<1> DEFINE c == a \o b
<1> HIDE DEF c
<1>2. ASSUME NEW i \in 1..Len(c)
      PROVE  c[i] \in Elements(a) \cup Elements(b)
  <2>1. CASE i <= Len(a)
    <3>1. i \in 1..Len(a) /\ c[i] = a[i]
      BY <1>1, <1>2, <2>1 DEF c
    <3> QED
      BY <3>1 DEF Elements
  <2>2. CASE ~(i <= Len(a))
    <3>1. i - Len(a) \in 1..Len(b) /\ c[i] = b[i - Len(a)]
      BY <1>1, <1>2, <2>2 DEF c
    <3> QED
      BY <3>1 DEF Elements
  <2> QED
    BY <2>1, <2>2
<1>3. ASSUME NEW i \in 1..Len(a)
      PROVE  a[i] \in Elements(c)
  <2>1. i \in 1..Len(c) /\ c[i] = a[i]
    BY <1>1, <1>3 DEF c
  <2> QED
    BY <2>1 DEF Elements
<1>4. ASSUME NEW i \in 1..Len(b)
      PROVE  b[i] \in Elements(c)
  <2>1. i + Len(a) \in 1..Len(c) /\ ~(i + Len(a) <= Len(a)) /\ (i + Len(a)) - Len(a) = i
    BY <1>1, <1>4 DEF c
  <2>2. c[i + Len(a)] = b[i]
    BY <1>1, <2>1 DEF c
  <2> QED
    BY <2>1, <2>2 DEF Elements
<1>5. Elements(c) \subseteq Elements(a) \cup Elements(b)
  BY <1>2 DEF Elements
<1>6. Elements(a) \subseteq Elements(c)
  BY <1>3 DEF Elements
<1>7. Elements(b) \subseteq Elements(c)
  BY <1>4 DEF Elements
<1> QED
  BY <1>5, <1>6, <1>7 DEF c

(* One sequence of distinct ids after another, that share none, has        *)
(* distinct ids.                                                           *)
LEMMA ConcatDistinct ==
    ASSUME NEW S, NEW a \in Seq(S), NEW b \in Seq(S), DistinctIds(a), DistinctIds(b),
           \A i \in 1..Len(a) : \A j \in 1..Len(b) : a[i].id # b[j].id
    PROVE  DistinctIds(a \o b)
<1>1. /\ Len(a) \in Nat /\ Len(b) \in Nat /\ Len(a \o b) = Len(a) + Len(b)
      /\ \A i \in 1..(Len(a) + Len(b)) :
            (a \o b)[i] = IF i <= Len(a) THEN a[i] ELSE b[i - Len(a)]
  BY LenProperties, ConcatProperties
<1> DEFINE c == a \o b
<1> HIDE DEF c
<1>2. ASSUME NEW i \in 1..Len(c)
      PROVE  \/ i \in 1..Len(a) /\ c[i] = a[i]
             \/ i - Len(a) \in 1..Len(b) /\ c[i] = b[i - Len(a)]
  <2>1. CASE i <= Len(a)
    BY <1>1, <1>2, <2>1 DEF c
  <2>2. CASE ~(i <= Len(a))
    BY <1>1, <1>2, <2>2 DEF c
  <2> QED
    BY <2>1, <2>2
<1>3. ASSUME NEW i \in 1..Len(c), NEW j \in 1..Len(c), c[i].id = c[j].id
      PROVE  i = j
  <2>1. CASE i \in 1..Len(a) /\ c[i] = a[i] /\ j \in 1..Len(a) /\ c[j] = a[j]
    BY <1>3, <2>1 DEF DistinctIds
  <2>2. CASE /\ i - Len(a) \in 1..Len(b) /\ c[i] = b[i - Len(a)]
             /\ j - Len(a) \in 1..Len(b) /\ c[j] = b[j - Len(a)]
    <3>1. i - Len(a) = j - Len(a)
      BY <1>3, <2>2 DEF DistinctIds
    <3> QED
      BY <1>1, <1>3, <3>1
  <2>3. CASE i \in 1..Len(a) /\ c[i] = a[i] /\ j - Len(a) \in 1..Len(b) /\ c[j] = b[j - Len(a)]
    BY <1>3, <2>3
  <2>4. CASE j \in 1..Len(a) /\ c[j] = a[j] /\ i - Len(a) \in 1..Len(b) /\ c[i] = b[i - Len(a)]
    BY <1>3, <2>4
  <2> QED
    BY <1>2, <2>1, <2>2, <2>3, <2>4
<1> QED
  BY <1>3 DEF c, DistinctIds

(* The page is admitted whole, and repeats no record that the scan has. *)
IsWholePage(S, x, scan, page, q) ==
    /\ q \in Seq(S) /\ Len(q) = Len(page)
    /\ Elements(q) = Elements(page)
    /\ DistinctIds(x) =>
          /\ DistinctIds(q)
          /\ \A i \in 1..Len(scan.records) : \A j \in 1..Len(q) : scan.records[i].id # q[j].id

(* A page of compatible records leaves nothing out and repeats nothing: a  *)
(* record that the scan has is of a type that is done, or before the       *)
(* offset.                                                                 *)
LEMMA PageAdmitted ==
    ASSUME NEW S, NEW x \in Seq(S), NEW scope, NEW U, NEW scan,
           NEW pageSize \in Nat, NEW max \in Nat,
           ScanTyped(scan, scope, U, max), scan.left # <<>>,
           \A i \in 1..Len(x) : x[i].type \in scope => x[i].compatible,
           Exact(x, scan, scope),
           NEW page, page = PageAhead(x, scan, pageSize, max),
           NEW q, q = Admitted(page)
    PROVE  IsWholePage(S, x, scan, page, q)
<1> DEFINE st == StoredOf(x, Head(scan.left))
<1>1. /\ st \in Seq(S) /\ page \in Seq(S) /\ Head(scan.left) \in scope
      /\ \A k \in 1..Len(page) : scan.offset + k \in 1..Len(st) /\ page[k] = st[scan.offset + k]
      /\ scan.offset <= Len(st) =>
            /\ scan.offset + Len(page) <= Len(st)
            /\ \/ Len(page) = pageSize
               \/ Len(scan.records) + Len(page) = max
               \/ scan.offset + Len(page) = Len(st)
      /\ \A k \in 1..Len(page) : \E i \in 1..Len(x) :
            page[k] = x[i] /\ x[i].type = Head(scan.left)
  <2>1. st = StoredOf(x, Head(scan.left)) /\ page = PageAhead(x, scan, pageSize, max)
    OBVIOUS
  <2> HIDE DEF st
  <2>2. IsNextPage(S, x, scope, scan, pageSize, max, st, page)
    BY <2>1, NextPageFacts
  <2> QED
    BY <2>2, Zenon DEF IsNextPage
<1>2. DistinctIds(x) => DistinctIds(st)
  <2>1. IsStored(S, x, Head(scan.left), st)
    BY StoredFacts
  <2> QED
    BY <2>1 DEF IsStored
<1>4. scan.offset \in Nat /\ scan.offset <= Len(st)
      /\ Elements(scan.records) = TakenOf(x, scan, scope)
  BY DEF ScanTyped, Exact
<1>5. /\ q \in Seq(S)
      /\ \A k \in 1..Len(q) : \E i \in 1..Len(page) : q[k] = page[i] /\ page[i].compatible
      /\ DistinctIds(page) => DistinctIds(q)
      /\ (\A i \in 1..Len(page) : page[i].compatible) =>
            /\ Len(q) = Len(page)
            /\ \A i \in 1..Len(page) : \E k \in 1..Len(q) : q[k] = page[i]
  <2>1. IsAdmitted(S, page, q)
    BY <1>1, AdmittedFacts
  <2> QED
    BY <2>1, Zenon DEF IsAdmitted
<1> HIDE DEF st
<1>6. Len(st) \in Nat /\ Len(page) \in Nat
  BY <1>1, LenProperties
<1>7. DistinctIds(x) => DistinctIds(page)
  <2> SUFFICES ASSUME DistinctIds(x),
                      NEW i \in 1..Len(page), NEW j \in 1..Len(page), page[i].id = page[j].id
               PROVE  i = j
    BY DEF DistinctIds
  <2>1. /\ scan.offset + i \in 1..Len(st) /\ page[i] = st[scan.offset + i]
        /\ scan.offset + j \in 1..Len(st) /\ page[j] = st[scan.offset + j]
    BY <1>1
  <2>2. scan.offset + i = scan.offset + j
    BY <1>2, <2>1 DEF DistinctIds
  <2> QED
    BY <1>4, <1>6, <2>2
<1>8. \A i \in 1..Len(page) : page[i].compatible
  <2> SUFFICES ASSUME NEW i \in 1..Len(page) PROVE page[i].compatible
    OBVIOUS
  <2>1. PICK l \in 1..Len(x) : page[i] = x[l] /\ x[l].type = Head(scan.left)
    BY <1>1
  <2> QED
    BY <1>1, <2>1
<1>9. Elements(q) = Elements(page)
  <2>1. Elements(q) \subseteq Elements(page)
    BY <1>5 DEF Elements
  <2>2. \A i \in 1..Len(page) : \E k \in 1..Len(q) : q[k] = page[i]
    BY <1>5, <1>8
  <2>3. Elements(page) \subseteq Elements(q)
    BY <2>2 DEF Elements
  <2> QED
    BY <2>1, <2>3
<1>10. ASSUME DistinctIds(x),
              NEW i \in 1..Len(scan.records), NEW j \in 1..Len(q), scan.records[i].id = q[j].id
       PROVE  FALSE
  <2>1. PICK p \in 1..Len(page) : q[j] = page[p]
    BY <1>5
  <2>2. PICK l \in 1..Len(x) : page[p] = x[l] /\ x[l].type = Head(scan.left)
    BY <1>1
  <2>3. scan.records[i] \in TakenOf(x, scan, scope)
    BY <1>4 DEF Elements
  <2>4. CASE scan.records[i] \in Elements(x) /\ scan.records[i].type \notin Left(scan)
    <3>1. PICK m \in 1..Len(x) : scan.records[i] = x[m]
      BY <2>4 DEF Elements
    <3>2. m = l
      BY <1>10, <2>1, <2>2, <3>1 DEF DistinctIds
    <3>3. Head(scan.left) \in Left(scan)
      <4>1. Len(scan.left) \in Nat /\ Len(scan.left) # 0 /\ Head(scan.left) = scan.left[1]
        BY LenProperties, EmptySeq, HeadTailProperties DEF ScanTyped
      <4>2. 1 \in 1..Len(scan.left)
        BY <4>1
      <4> QED
        BY <4>1, <4>2 DEF Left
    <3> QED
      BY <2>2, <2>4, <3>1, <3>2, <3>3
  <2>5. CASE \E n \in 1..scan.offset : scan.records[i] = st[n]
    <3>1. PICK n \in 1..scan.offset : scan.records[i] = st[n]
      BY <2>5
    <3>2. st[n].id = st[scan.offset + p].id /\ scan.offset + p \in 1..Len(st)
      BY <1>1, <1>10, <2>1, <3>1
    <3>3. n \in 1..Len(st) /\ n # scan.offset + p
      BY <1>4, <1>6, <3>1, SMTT(30)
    <3> QED
      BY <1>2, <1>10, <3>2, <3>3 DEF DistinctIds
  <2> QED
    BY <2>3, <2>4, <2>5 DEF TakenOf, st
<1> QED
  BY <1>5, <1>7, <1>8, <1>9, <1>10 DEF IsWholePage

(* An index that holds still is read without loss or repetition, as long   *)
(* as every record of the scope is compatible and the ceiling is not       *)
(* reached.                                                                *)
LEMMA ReadPageExact ==
    ASSUME NEW S, NEW x \in Seq(S), NEW scope, NEW U, NEW scan,
           NEW pageSize \in Nat, NEW max \in Nat,
           ScanTyped(scan, scope, U, max), scan.left # <<>>, U \subseteq S,
           \A i \in 1..Len(x) : x[i].type \in scope => x[i].compatible,
           Exact(x, scan, scope),
           Len(ReadPage(x, scan, pageSize, max).records) < max
    PROVE  Exact(x, ReadPage(x, scan, pageSize, max), scope)
<1> DEFINE s == ReadPage(x, scan, pageSize, max)
<1> DEFINE st == StoredOf(x, Head(scan.left))
<1> DEFINE page == PageAhead(x, scan, pageSize, max)
<1> DEFINE q == Admitted(page)
<1> DEFINE records == RecordsAfter(x, scan, pageSize, max)
<1>1. /\ s.records = records
      /\ ~(Len(records) >= max) /\ Len(page) < pageSize => s.left = Tail(scan.left) /\ s.offset = 0
      /\ ~(Len(records) >= max) /\ ~(Len(page) < pageSize) =>
            s.left = scan.left /\ s.offset = scan.offset + Len(page)
  BY ReadPageIs
<1>2. /\ st \in Seq(S) /\ page \in Seq(S) /\ Head(scan.left) \in scope
      /\ \A k \in 1..Len(page) : scan.offset + k \in 1..Len(st) /\ page[k] = st[scan.offset + k]
      /\ scan.offset <= Len(st) =>
            /\ scan.offset + Len(page) <= Len(st)
            /\ \/ Len(page) = pageSize
               \/ Len(scan.records) + Len(page) = max
               \/ scan.offset + Len(page) = Len(st)
      /\ \A k \in 1..Len(page) : \E i \in 1..Len(x) :
            page[k] = x[i] /\ x[i].type = Head(scan.left)
  <2>1. st = StoredOf(x, Head(scan.left)) /\ page = PageAhead(x, scan, pageSize, max)
    OBVIOUS
  <2> HIDE DEF st, page
  <2>2. IsNextPage(S, x, scope, scan, pageSize, max, st, page)
    BY <2>1, NextPageFacts
  <2> QED
    BY <2>2, Zenon DEF IsNextPage
<1>3. /\ \A k \in 1..Len(st) : \E i \in 1..Len(x) : st[k] = x[i] /\ x[i].type = Head(scan.left)
      /\ \A i \in 1..Len(x) : x[i].type = Head(scan.left) => \E k \in 1..Len(st) : st[k] = x[i]
  <2> DEFINE type == Head(scan.left)
  <2>1. st = StoredOf(x, type)
    OBVIOUS
  <2> HIDE DEF type, st
  <2>2. IsStored(S, x, type, st)
    BY <2>1, StoredFacts
  <2> QED
    BY <2>2, Zenon DEF IsStored, type
<1>4. page = PageAhead(x, scan, pageSize, max) /\ q = Admitted(page)
  OBVIOUS
<1>5. records = scan.records \o q
  BY DEF RecordsAfter
<1>6. /\ scan.offset \in Nat /\ scan.offset <= Len(st)
      /\ DistinctIds(x) => DistinctIds(scan.records)
      /\ Elements(scan.records) = TakenOf(x, scan, scope)
  BY DEF ScanTyped, Exact
<1>7. {x[i] : i \in {j \in 1..Len(x) : x[j].type = Head(scan.left)}} = Elements(st)
  <2>1. Elements(st) \subseteq {x[i] : i \in {j \in 1..Len(x) : x[j].type = Head(scan.left)}}
    <3> SUFFICES ASSUME NEW k \in 1..Len(st)
                 PROVE  \E i \in 1..Len(x) : st[k] = x[i] /\ x[i].type = Head(scan.left)
      BY DEF Elements
    <3> QED
      BY <1>3, Zenon
  <2>2. ASSUME NEW i \in 1..Len(x), x[i].type = Head(scan.left)
        PROVE  \E k \in 1..Len(st) : st[k] = x[i]
    BY <1>3, <2>2, Zenon
  <2> HIDE DEF st
  <2>3. {x[i] : i \in {j \in 1..Len(x) : x[j].type = Head(scan.left)}} \subseteq Elements(st)
    BY <2>2 DEF Elements
  <2> QED
    BY <2>1, <2>3
<1>8. /\ q \in Seq(S) /\ Len(q) = Len(page)
      /\ Elements(q) = Elements(page)
      /\ DistinctIds(x) =>
            /\ DistinctIds(q)
            /\ \A i \in 1..Len(scan.records) : \A j \in 1..Len(q) : scan.records[i].id # q[j].id
  <2> HIDE DEF page, q
  <2>1. IsWholePage(S, x, scan, page, q)
    BY <1>4, PageAdmitted
  <2> QED
    BY <2>1, Zenon DEF IsWholePage
<1>9. Len(s.records) < max
  OBVIOUS
<1>10. TakenOf(x, scan, scope) =
         {r \in Elements(x) : r.type \in scope /\ r.type \notin Left(scan)}
           \cup {st[j] : j \in 1..scan.offset}
  BY DEF TakenOf
<1>11. TakenOf(x, s, scope) =
         {r \in Elements(x) : r.type \in scope /\ r.type \notin Left(s)}
           \cup IF s.left = <<>> THEN {} ELSE {StoredOf(x, Head(s.left))[j] : j \in 1..s.offset}
  BY DEF TakenOf
<1> HIDE DEF s, page, records, q
<1>12. scan.records \in Seq(S)
  <2>1. scan.records \in Seq(U)
    BY DEF ScanTyped
  <2> QED
    BY <2>1, SeqDef
<1>13. /\ Len(scan.records) \in Nat /\ Len(page) \in Nat /\ Len(st) \in Nat
       /\ Len(records) = Len(scan.records) + Len(page)
  <2> HIDE DEF st
  <2>1. Len(scan.records) \in Nat /\ Len(page) \in Nat /\ Len(st) \in Nat
    BY <1>2, <1>12, LenProperties
  <2>2. Len(scan.records \o q) = Len(scan.records) + Len(q)
    BY <1>8, <1>12, ConcatProperties, ZenonT(30)
  <2> QED
    BY <1>5, <1>8, <2>1, <2>2
<1>14. (DistinctIds(x) => DistinctIds(records)) /\ Elements(records) = Elements(scan.records) \cup Elements(page)
  <2>1. DistinctIds(x) => DistinctIds(scan.records \o q)
    BY <1>6, <1>8, <1>12, ConcatDistinct
  <2>2. Elements(scan.records \o q) = Elements(scan.records) \cup Elements(q)
    BY <1>8, <1>12, ConcatElements
  <2> QED
    BY <1>5, <1>8, <2>1, <2>2
<1>15. Elements(scan.records) \cup Elements(page) =
         {r \in Elements(x) : r.type \in scope /\ r.type \notin Left(scan)}
           \cup {st[j] : j \in 1..(scan.offset + Len(page))}
  <2>1. {st[j] : j \in 1..(scan.offset + Len(page))} =
          {st[j] : j \in 1..scan.offset} \cup Elements(page)
    <3>1. ASSUME NEW j \in 1..(scan.offset + Len(page))
          PROVE  st[j] \in {st[l] : l \in 1..scan.offset} \cup Elements(page)
      <4>1. CASE j <= scan.offset
        <5>1. j \in 1..scan.offset
          BY <1>6, <1>13, <4>1
        <5> QED
          BY <5>1
      <4>2. CASE ~(j <= scan.offset)
        <5>1. j - scan.offset \in 1..Len(page) /\ scan.offset + (j - scan.offset) = j
          BY <1>6, <1>13, <4>2, SMTT(30)
        <5>2. page[j - scan.offset] = st[j]
          BY <1>2, <5>1
        <5> QED
          BY <5>1, <5>2 DEF Elements
      <4> QED
        BY <4>1, <4>2
    <3>2. ASSUME NEW k \in 1..Len(page)
          PROVE  page[k] \in {st[j] : j \in 1..(scan.offset + Len(page))}
      <4>1. scan.offset + k \in 1..(scan.offset + Len(page)) /\ page[k] = st[scan.offset + k]
        BY <1>2, <1>6, <1>13
      <4> QED
        BY <4>1
    <3>3. 1..scan.offset \subseteq 1..(scan.offset + Len(page))
      BY <1>6, <1>13
    <3> HIDE DEF st
    <3>4. {st[j] : j \in 1..scan.offset} \subseteq {st[j] : j \in 1..(scan.offset + Len(page))}
      BY <3>3
    <3>5. {st[j] : j \in 1..(scan.offset + Len(page))}
             \subseteq {st[j] : j \in 1..scan.offset} \cup Elements(page)
      BY <3>1
    <3>6. Elements(page) \subseteq {st[j] : j \in 1..(scan.offset + Len(page))}
      BY <3>2 DEF Elements
    <3> QED
      BY <3>4, <3>5, <3>6
  <2> HIDE DEF st
  <2> QED
    BY <1>6, <1>10, <2>1
<1>16. CASE Len(page) < pageSize
  <2>1. s.left = Tail(scan.left) /\ s.offset = 0
    BY <1>1, <1>9, <1>13, <1>16
  <2>2. scan.offset + Len(page) = Len(st)
    BY <1>1, <1>2, <1>6, <1>9, <1>13, <1>16
  <2>3. Left(s) = Left(scan) \ {Head(scan.left)} /\ Head(scan.left) \in Left(scan)
    <3>1. scan.left \in Seq(scope) /\ \A i, j \in 1..Len(scan.left) : scan.left[i] = scan.left[j] => i = j
      BY DEF ScanTyped
    <3>2. {Tail(scan.left)[k] : k \in 1..Len(Tail(scan.left))} =
            {scan.left[k] : k \in 1..Len(scan.left)} \ {Head(scan.left)}
      BY <3>1, TailFacts
    <3>3. Len(scan.left) \in Nat /\ Len(scan.left) # 0 /\ Head(scan.left) = scan.left[1]
      BY <3>1, LenProperties, EmptySeq, HeadTailProperties
    <3>4. 1 \in 1..Len(scan.left)
      BY <3>3
    <3> QED
      BY <2>1, <3>2, <3>3, <3>4 DEF Left
  <2>4. {st[j] : j \in 1..(scan.offset + Len(page))} = Elements(st)
    BY <2>2 DEF Elements
  <2>5. {r \in Elements(x) : r.type \in scope /\ r.type \notin Left(s)} =
          {r \in Elements(x) : r.type \in scope /\ r.type \notin Left(scan)} \cup Elements(st)
    <3>1. Elements(st) = {r \in Elements(x) : r.type = Head(scan.left)}
      BY <1>7 DEF Elements
    <3> HIDE DEF st
    <3> QED
      BY <1>2, <2>3, <3>1
  <2>6. 1..0 = {}
    OBVIOUS
  <2>7. TakenOf(x, s, scope) = {r \in Elements(x) : r.type \in scope /\ r.type \notin Left(s)}
    BY <1>11, <2>1, <2>6
  <2>8. Elements(records) = TakenOf(x, s, scope)
    BY <1>14, <1>15, <2>4, <2>5, <2>7
  <2>9. s.left # <<>> => s.offset <= Len(StoredOf(x, Head(s.left)))
    <3>1. Len(StoredOf(x, Head(s.left))) \in Nat
      <4> DEFINE r == StoredOf(x, Head(s.left))
      <4>1. IsStored(S, x, Head(s.left), r)
        BY StoredFacts
      <4>2. r \in Seq(S)
        BY <4>1 DEF IsStored
      <4> HIDE DEF r
      <4>3. Len(r) \in Nat
        BY <4>2, LenProperties
      <4> QED
        BY <4>3 DEF r
    <3> QED
      BY <2>1, <3>1
  <2> QED
    BY <1>1, <1>14, <2>8, <2>9 DEF Exact, s
<1>17. CASE ~(Len(page) < pageSize)
  <2>1. s.left = scan.left /\ s.offset = scan.offset + Len(page)
    BY <1>1, <1>9, <1>13, <1>17
  <2>2. Left(s) = Left(scan) /\ StoredOf(x, Head(s.left)) = st /\ s.left # <<>>
    BY <2>1 DEF Left
  <2>3. s.offset <= Len(st)
    BY <1>2, <1>6, <2>1
  <2>4. TakenOf(x, s, scope) =
          {r \in Elements(x) : r.type \in scope /\ r.type \notin Left(s)}
            \cup {st[j] : j \in 1..s.offset}
    BY <1>11, <2>2
  <2>5. Elements(records) = TakenOf(x, s, scope)
    BY <1>14, <1>15, <2>1, <2>2, <2>4
  <2> QED
    BY <1>1, <1>14, <2>2, <2>3, <2>5 DEF Exact, s
<1> QED
  BY <1>16, <1>17 DEF s

-----------------------------------------------------------------------------
(* The collection, as a caller reads it *)

(* A record of the collection as a caller reads it. *)
Fields(d, c) == [id |-> d.id, type |-> d.type, policy |-> d.policy,
                 schema |-> d.schema, compatible |-> d.schema = c.schema]
(* All that a caller ever reads. *)
ReadBy(c) == {Fields(d, c) : d \in {e \in Documents : e.policy \in c.policies}}
(* Of that, what a caller can use in a scope. *)
UsableBy(c, scope) == {r \in ReadBy(c) : r.compatible /\ r.type \in scope}
(* IndexFor, of a given state of the collection. *)
IndexAt(c, v) ==
    LET index == Selected(Indexes[v], LAMBDA r : r.policy \in c.policies)
    IN  [i \in DOMAIN index |-> Fields(index[i], c)]
(* The collection holds no record of the scope that the caller would drop. *)
AllUsable(c, scope, v) ==
    \A i \in 1..Len(IndexAt(c, v)) : IndexAt(c, v)[i].type \in scope => IndexAt(c, v)[i].compatible

(* The partitions of a scope are its source types, each once. *)
LEMMA PartitionFacts ==
    ASSUME NEW scope \in SUBSET SourceTypes
    PROVE  /\ Partitions(scope) \in Seq(scope)
           /\ \A i, j \in 1..Len(Partitions(scope)) : Partitions(scope)[i] = Partitions(scope)[j] => i = j
           /\ {Partitions(scope)[k] : k \in 1..Len(Partitions(scope))} = scope
<1> DEFINE s == <<"PAGE", "ATTACHMENT", "ISSUE", "CODE">>
<1> DEFINE I == {i \in DOMAIN s : s[i] \in scope}
<1> DEFINE p == Partitions(scope)
<1>1. p = Picked(s, I)
  BY DEF Partitions, Selected
<1>2. /\ s \in Seq(SourceTypes) /\ DOMAIN s = 1..4
      /\ s[1] = "PAGE" /\ s[2] = "ATTACHMENT" /\ s[3] = "ISSUE" /\ s[4] = "CODE"
  BY DEF SourceTypes
<1>3. \A i, j \in 1..4 : s[i] = s[j] => i = j
  BY <1>2
<1>4. \A t \in scope : \E i \in 1..4 : s[i] = t
  <2> SUFFICES ASSUME NEW t \in scope PROVE \E i \in 1..4 : s[i] = t
    OBVIOUS
  <2>1. t = s[1] \/ t = s[2] \/ t = s[3] \/ t = s[4]
    BY <1>2 DEF SourceTypes
  <2>2. 1 \in 1..4 /\ 2 \in 1..4 /\ 3 \in 1..4 /\ 4 \in 1..4
    OBVIOUS
  <2> HIDE DEF s
  <2> QED
    BY <2>1, <2>2
<1> HIDE DEF s
<1>5. I \in SUBSET DOMAIN s /\ (\A i \in I : s[i] \in scope) /\ \A i \in 1..4 : s[i] \in scope => i \in I
  BY <1>2
<1> HIDE DEF I, p
<1>6. IsPicked(SourceTypes, s, I, p)
  BY <1>1, <1>2, <1>5, PickedFacts
<1>7. /\ p \in Seq(SourceTypes)
      /\ \A k \in 1..Len(p) : Nth(I, k) \in I /\ p[k] = s[Nth(I, k)]
      /\ \A k, l \in 1..Len(p) : Nth(I, k) = Nth(I, l) => k = l
      /\ \A i \in I : \E k \in 1..Len(p) : Nth(I, k) = i
  BY <1>6 DEF IsPicked
<1>8. \A k \in 1..Len(p) : p[k] \in scope
  BY <1>5, <1>7
<1>9. p \in Seq(scope)
  BY <1>7, <1>8, SeqDef, LenProperties
<1>10. ASSUME NEW k \in 1..Len(p), NEW l \in 1..Len(p), p[k] = p[l]
       PROVE  k = l
  <2>1. Nth(I, k) \in 1..4 /\ Nth(I, l) \in 1..4
    BY <1>2, <1>5, <1>7
  <2> QED
    BY <1>3, <1>7, <1>10, <2>1
<1>11. \A t \in scope : \E k \in 1..Len(p) : p[k] = t
  <2> SUFFICES ASSUME NEW t \in scope PROVE \E k \in 1..Len(p) : p[k] = t
    OBVIOUS
  <2>1. PICK i \in 1..4 : s[i] = t
    BY <1>4
  <2>2. i \in I
    BY <1>5, <2>1
  <2> QED
    BY <1>7, <2>1, <2>2
<1>12. {p[k] : k \in 1..Len(p)} = scope
  BY <1>8, <1>11
<1> QED
  BY <1>9, <1>10, <1>12 DEF p

(* A scan that begins has read nothing, and all of it. *)
LEMMA ScanBegins ==
    ASSUME NEW S, NEW x \in Seq(S), NEW scope \in SUBSET SourceTypes, NEW U, NEW max \in Nat \ {0},
           NEW scan, scan = [left |-> Partitions(scope), offset |-> 0, records |-> <<>>]
    PROVE  ScanTyped(scan, scope, U, max) /\ Exact(x, scan, scope) /\ Left(scan) = scope
<1>1. /\ scan.left \in Seq(scope)
      /\ \A i, j \in 1..Len(scan.left) : scan.left[i] = scan.left[j] => i = j
      /\ Left(scan) = scope
  <2> DEFINE p == Partitions(scope)
  <2>1. /\ p \in Seq(scope) /\ \A i, j \in 1..Len(p) : p[i] = p[j] => i = j
        /\ {p[k] : k \in 1..Len(p)} = scope
    BY PartitionFacts
  <2>2. scan.left = p
    OBVIOUS
  <2> HIDE DEF p
  <2> QED
    BY <2>1, <2>2 DEF Left
<1>2. scan.offset = 0 /\ scan.records = <<>> /\ Len(scan.records) = 0 /\ 0 < max
  OBVIOUS
<1>3. scan.records \in Seq(U)
  BY <1>2, EmptySeq
<1>4. ScanTyped(scan, scope, U, max)
  BY <1>1, <1>2, <1>3 DEF ScanTyped
<1>5. 1..0 = {}
  OBVIOUS
<1>6. DistinctIds(scan.records) /\ Elements(scan.records) = {}
  BY <1>2, <1>5 DEF DistinctIds, Elements
<1>7. TakenOf(x, scan, scope) = {}
  BY <1>1, <1>2, <1>5 DEF TakenOf
<1>8. scan.offset <= Len(StoredOf(x, Head(scan.left)))
  <2> DEFINE r == StoredOf(x, Head(scan.left))
  <2>1. IsStored(S, x, Head(scan.left), r)
    BY StoredFacts
  <2> HIDE DEF r
  <2>2. Len(r) \in Nat
    BY <2>1, LenProperties DEF IsStored
  <2> QED
    BY <1>2, <2>2 DEF r
<1> QED
  BY <1>1, <1>4, <1>6, <1>7, <1>8 DEF Exact

(* A scan that has ended below the ceiling has read all of its scope. *)
LEMMA ScanEnds ==
    ASSUME NEW x, NEW scope, NEW scan, Exact(x, scan, scope), scan.left = <<>>
    PROVE  Elements(scan.records) = {r \in Elements(x) : r.type \in scope}
<1>1. Left(scan) = {}
  <2>1. 1..0 = {} /\ Len(<<>>) = 0
    OBVIOUS
  <2> QED
    BY <2>1 DEF Left
<1>2. TakenOf(x, scan, scope) = {r \in Elements(x) : r.type \in scope}
  BY <1>1 DEF TakenOf
<1> QED
  BY <1>2 DEF Exact

(* x is what the collection holds that the caller may see, each record     *)
(* once.                                                                   *)
IsIndex(c, v, x) ==
    /\ x \in Seq(ReadBy(c)) /\ DistinctIds(x)
    /\ Elements(x) = {Fields(d, c) : d \in {e \in Elements(Indexes[v]) : e.policy \in c.policies}}

(* The filter by policies gives what the caller may see. *)
LEMMA IndexFacts ==
    ASSUME NEW c, NEW v \in 1..Len(Indexes)
    PROVE  IsIndex(c, v, IndexAt(c, v))
<1> DEFINE s == Indexes[v]
<1> DEFINE I == {i \in DOMAIN s : s[i].policy \in c.policies}
<1> DEFINE p == Picked(s, I)
<1> DEFINE x == IndexAt(c, v)
<1>1. s \in Seq(Documents) /\ v \in DOMAIN Indexes
  BY IndexesAssumption, ElementOfSeq, LenProperties
<1>2. x = [i \in DOMAIN p |-> Fields(p[i], c)]
  BY DEF IndexAt, Selected
<1> HIDE DEF x
<1>3. \A i, j \in DOMAIN s : s[i].id = s[j].id => i = j
  BY <1>1, IndexesAssumption
<1> HIDE DEF s
<1>4. DOMAIN s = 1..Len(s) /\ \A i \in 1..Len(s) : s[i] \in Documents
  BY <1>1, LenProperties, ElementOfSeq
<1>5. I \in SUBSET DOMAIN s /\ (\A i \in I : s[i].policy \in c.policies)
      /\ \A i \in DOMAIN s : s[i].policy \in c.policies => i \in I
  OBVIOUS
<1> HIDE DEF I
<1>6. IsPicked(Documents, s, I, p)
  BY <1>1, <1>5, PickedFacts
<1> HIDE DEF p
<1>7. /\ p \in Seq(Documents) /\ DOMAIN p = 1..Len(p)
      /\ \A k \in 1..Len(p) : Nth(I, k) \in I /\ p[k] = s[Nth(I, k)]
      /\ \A k, l \in 1..Len(p) : Nth(I, k) = Nth(I, l) => k = l
      /\ \A i \in I : \E k \in 1..Len(p) : Nth(I, k) = i
  BY <1>6 DEF IsPicked
<1>8. Len(p) \in Nat
  BY <1>7, LenProperties
<1>9. \A k \in 1..Len(p) : p[k] \in Documents /\ p[k].policy \in c.policies
  BY <1>4, <1>5, <1>7
<1>10. \A k \in 1..Len(p) : Fields(p[k], c) \in ReadBy(c)
  BY <1>9 DEF ReadBy
<1>11. x \in Seq(ReadBy(c)) /\ Len(x) = Len(p) /\ \A k \in 1..Len(x) : x[k] = Fields(p[k], c)
  BY <1>2, <1>7, <1>8, <1>10
<1>12. DistinctIds(x)
  <2> SUFFICES ASSUME NEW k \in 1..Len(x), NEW l \in 1..Len(x), x[k].id = x[l].id
               PROVE  k = l
    BY DEF DistinctIds
  <2>1. x[k] = Fields(p[k], c) /\ x[l] = Fields(p[l], c)
    BY <1>11
  <2>2. Fields(p[k], c).id = p[k].id /\ Fields(p[l], c).id = p[l].id
    BY DEF Fields
  <2>3. p[k].id = p[l].id
    BY <2>1, <2>2
  <2>4. Nth(I, k) \in DOMAIN s /\ Nth(I, l) \in DOMAIN s
        /\ p[k] = s[Nth(I, k)] /\ p[l] = s[Nth(I, l)]
    BY <1>5, <1>7, <1>11
  <2>5. Nth(I, k) = Nth(I, l)
    BY <1>3, <2>3, <2>4
  <2> QED
    BY <1>7, <1>11, <2>5
<1>13. \A k \in 1..Len(x) : \E i \in 1..Len(s) : x[k] = Fields(s[i], c) /\ s[i].policy \in c.policies
  BY <1>4, <1>5, <1>7, <1>11
<1>14. \A i \in 1..Len(s) : s[i].policy \in c.policies => \E k \in 1..Len(x) : x[k] = Fields(s[i], c)
  <2> SUFFICES ASSUME NEW i \in 1..Len(s), s[i].policy \in c.policies
               PROVE  \E k \in 1..Len(x) : x[k] = Fields(s[i], c)
    OBVIOUS
  <2>1. i \in I
    BY <1>4, <1>5
  <2>2. PICK k \in 1..Len(p) : Nth(I, k) = i
    BY <1>7, <2>1
  <2> QED
    BY <1>7, <1>11, <2>2
<1>15. Elements(x) = {Fields(d, c) : d \in {e \in Elements(s) : e.policy \in c.policies}}
  <2>1. Elements(x) \subseteq {Fields(d, c) : d \in {e \in Elements(s) : e.policy \in c.policies}}
    BY <1>13 DEF Elements
  <2>2. {Fields(d, c) : d \in {e \in Elements(s) : e.policy \in c.policies}} \subseteq Elements(x)
    BY <1>14 DEF Elements
  <2> QED
    BY <2>1, <2>2
<1> QED
  BY <1>11, <1>12, <1>15 DEF IsIndex, x, s

(* IndexFor is of the collection as it is. *)
LEMMA IndexForIs == \A c : IndexFor(c) = IndexAt(c, version)
  BY DEF IndexFor, IndexAt, Fields

(* A sequence of distinct ids is as long as it has ids. *)
LEMMA DistinctCardinality ==
    ASSUME NEW S, NEW s \in Seq(S), DistinctIds(s)
    PROVE  Len(s) = Cardinality({r.id : r \in Elements(s)})
<1> DEFINE H == {r.id : r \in Elements(s)}
<1> DEFINE f == [i \in 1..Len(s) |-> s[i].id]
<1>1. Len(s) \in Nat
  BY LenProperties
<1>2. f \in [1..Len(s) -> H]
  BY DEF Elements
<1>3. \A i, j \in 1..Len(s) : f[i] = f[j] => i = j
  BY DEF DistinctIds
<1>4. \A h \in H : \E i \in 1..Len(s) : f[i] = h
  BY DEF Elements
<1> HIDE DEF f, H
<1>5. f \in Bijection(1..Len(s), H)
  BY <1>2, <1>3, <1>4 DEF Bijection, Injection, Surjection, IsInjective
<1>6. IsFiniteSet(1..Len(s)) /\ Cardinality(1..Len(s)) = Len(s)
  <2>1. 1 \in Int /\ Len(s) \in Int
    BY <1>1
  <2>2. IsFiniteSet(1..Len(s)) /\ Cardinality(1..Len(s)) = IF 1 > Len(s) THEN 0 ELSE Len(s) - 1 + 1
    BY <2>1, FS_Interval, Zenon
  <2> QED
    BY <1>1, <2>2
<1>7. Cardinality(1..Len(s)) = Cardinality(H)
  <2>1. ExistsBijection(1..Len(s), H)
    BY <1>5 DEF ExistsBijection
  <2> QED
    BY <1>6, <2>1, FS_Bijection
<1> QED
  BY <1>6, <1>7 DEF H

-----------------------------------------------------------------------------
(* Fetches and cached corpora *)

(* A fetch under way, of a collection now at version v: its records are    *)
(* such as its caller may see and use, and if the collection held still    *)
(* and held no record that is dropped, it has all that it read, each once. *)
FetchOf(f, v) ==
    /\ f = [caller |-> f.caller, scope |-> f.scope, began |-> f.began, version |-> f.version,
            torn |-> f.torn, scan |-> f.scan]
    /\ f.caller \in Callers /\ f.scope \in CorpusScopes
    /\ f.began \in Nat /\ f.version \in 1..Len(Indexes) /\ f.torn \in BOOLEAN
    /\ ScanTyped(f.scan, f.scope, UsableBy(f.caller, f.scope), MaxRecords)
    /\ ~f.torn => f.version = v
    /\ (~f.torn /\ Len(f.scan.records) < MaxRecords /\ AllUsable(f.caller, f.scope, f.version))
          => Exact(IndexAt(f.caller, f.version), f.scan, f.scope)

(* A cached corpus of a caller and a scope: its records are such as the    *)
(* caller may see and use, and if it is complete and not torn, of a        *)
(* collection without a record that is dropped, it is all that the caller  *)
(* may see.                                                                *)
CorpusOf(e, c, scope) ==
    /\ e.key = Key(c, scope)
    /\ e.records \in Seq(UsableBy(c, scope))
    /\ (e.complete /\ ~e.torn /\ AllUsable(c, scope, e.version)) =>
          /\ DistinctIds(e.records)
          /\ Elements(e.records) = {r \in Elements(IndexAt(c, e.version)) : r.type \in scope}

(* The corpora that may be cached: each is some caller's, and expires a    *)
(* time to live after its fetch began.                                     *)
Entries ==
    {e \in [key : {Key(c, scope) : c \in Callers, scope \in CorpusScopes}, expires : Nat,
            records : Seq(UNION {ReadBy(c) : c \in Callers}), complete : BOOLEAN,
            torn : BOOLEAN, version : 1..Len(Indexes), began : Nat] :
        /\ e.expires = e.began + CorpusTtl
        /\ \E c \in Callers, scope \in CorpusScopes : CorpusOf(e, c, scope)}

(* Every fetch under way is of the collection as it is, or torn. *)
FetchesInv == \A t \in Readers : reading[t] # NoFetch => FetchOf(reading[t], version)

(* The inductive invariant of the corpus cache. OwnCorpus is about the     *)
(* entries, and an entry is as good as the fetch that it is made of, so    *)
(* the invariant is about the fetches under way too.                       *)
CorpusInv ==
    /\ clock \in Nat /\ version \in 1..Len(Indexes)
    /\ age \in Int /\ FreshWithinTtl
    /\ corpora \in Seq(Entries)
    /\ DOMAIN reading = Readers
    /\ FetchesInv

(* A fetch that begins has read nothing, and all of it. *)
LEMMA FetchBegins ==
    ASSUME CorpusInv, NEW c \in Callers, NEW scope \in CorpusScopes
    PROVE  FetchOf([caller |-> c, scope |-> scope, began |-> clock, version |-> version,
                    torn |-> FALSE,
                    scan |-> [left |-> Partitions(scope), offset |-> 0, records |-> <<>>]], version)
<1> DEFINE scan == [left |-> Partitions(scope), offset |-> 0, records |-> <<>>]
<1> DEFINE f == [caller |-> c, scope |-> scope, began |-> clock, version |-> version,
                 torn |-> FALSE, scan |-> scan]
<1> DEFINE x == IndexAt(c, version)
<1>1. scope \in SUBSET SourceTypes
  BY ScopesAssumption
<1>4. /\ f.caller = c /\ f.scope = scope /\ f.began = clock /\ f.version = version
      /\ f.torn = FALSE /\ f.scan = scan
      /\ f = [caller |-> f.caller, scope |-> f.scope, began |-> f.began, version |-> f.version,
              torn |-> f.torn, scan |-> f.scan]
  OBVIOUS
<1>5. clock \in Nat /\ version \in 1..Len(Indexes) /\ MaxRecords \in Nat \ {0}
  BY BoundsAssumption DEF CorpusInv
<1>6. x \in Seq(ReadBy(c))
  BY <1>5, IndexFacts DEF IsIndex
<1>7. scan = [left |-> Partitions(scope), offset |-> 0, records |-> <<>>]
  OBVIOUS
<1> HIDE DEF f, scan, x
<1>8. ScanTyped(scan, scope, UsableBy(c, scope), MaxRecords) /\ Exact(x, scan, scope)
  BY <1>1, <1>5, <1>6, <1>7, ScanBegins
<1>9. FetchOf(f, version)
  BY <1>4, <1>5, <1>8 DEF FetchOf, x
<1> QED
  BY <1>9 DEF f, scan

(* A page read keeps FetchOf: ReadPageTyped always, ReadPageExact as long  *)
(* as the fetch is not torn.                                               *)
LEMMA FetchReads ==
    ASSUME CorpusInv, NEW f, FetchOf(f, version), f.scan.left # <<>>,
           NEW g, g = [f EXCEPT !.scan = ReadPage(IndexFor(f.caller), f.scan, PageSize, MaxRecords)]
    PROVE  FetchOf(g, version)
<1> DEFINE c == f.caller
<1> DEFINE scope == f.scope
<1> DEFINE x == IndexAt(c, version)
<1> DEFINE s == ReadPage(x, f.scan, PageSize, MaxRecords)
<1> DEFINE S == ReadBy(c)
<1> DEFINE U == UsableBy(c, scope)
<1>1. f = [caller |-> f.caller, scope |-> f.scope, began |-> f.began, version |-> f.version,
           torn |-> f.torn, scan |-> f.scan]
  BY DEF FetchOf
<1>2. g = [f EXCEPT !.scan = s]
  BY IndexForIs
<1> HIDE DEF s
<1>3. /\ g.caller = c /\ g.scope = scope /\ g.began = f.began /\ g.version = f.version
      /\ g.torn = f.torn /\ g.scan = s
      /\ g = [caller |-> g.caller, scope |-> g.scope, began |-> g.began, version |-> g.version,
              torn |-> g.torn, scan |-> g.scan]
  BY <1>1, <1>2
<1>4. /\ c \in Callers /\ scope \in CorpusScopes
      /\ f.began \in Nat /\ f.version \in 1..Len(Indexes) /\ f.torn \in BOOLEAN
      /\ ScanTyped(f.scan, scope, U, MaxRecords)
      /\ ~f.torn => f.version = version
  BY DEF FetchOf
<1>5. x \in Seq(S) /\ DistinctIds(x)
  BY IndexFacts DEF IsIndex, CorpusInv
<1>6. U \subseteq S /\ (\A r \in S : r.compatible /\ r.type \in scope => r \in U)
  BY DEF UsableBy
<1>7. PageSize \in Nat /\ MaxRecords \in Nat
  BY BoundsAssumption
<1> HIDE DEF U, S, x, scope, c
<1>8. f.scan.left # <<>>
  OBVIOUS
<1>9. ScanTyped(s, scope, U, MaxRecords)
  BY <1>4, <1>5, <1>6, <1>7, <1>8, ReadPageTyped DEF s
<1>10. ASSUME ~f.torn, Len(s.records) < MaxRecords, AllUsable(c, scope, f.version)
       PROVE  Exact(IndexAt(c, f.version), s, scope)
  <2>1. f.version = version /\ x = IndexAt(c, f.version)
    BY <1>4, <1>10 DEF x
  <2>2. \A i \in 1..Len(x) : x[i].type \in scope => x[i].compatible
    BY <1>10, <2>1 DEF AllUsable
  <2>3. Len(f.scan.records) < MaxRecords
    BY <1>4, <1>8 DEF ScanTyped
  <2>4. Exact(x, f.scan, scope)
    BY <1>10, <2>1, <2>3 DEF FetchOf, c, scope
  <2>5. Exact(x, s, scope)
    BY <1>4, <1>5, <1>6, <1>7, <1>8, <1>10, <2>2, <2>4, ReadPageExact DEF s
  <2> QED
    BY <2>1, <2>5
<1> QED
  <2>1. /\ g.caller \in Callers /\ g.scope \in CorpusScopes
        /\ g.began \in Nat /\ g.version \in 1..Len(Indexes) /\ g.torn \in BOOLEAN
        /\ ~g.torn => g.version = version
    BY <1>3, <1>4
  <2>2. ScanTyped(g.scan, g.scope, UsableBy(g.caller, g.scope), MaxRecords)
    BY <1>3, <1>9 DEF U
  <2>3. (~g.torn /\ Len(g.scan.records) < MaxRecords /\ AllUsable(g.caller, g.scope, g.version))
           => Exact(IndexAt(g.caller, g.version), g.scan, g.scope)
    BY <1>3, <1>10
  <2> QED
    BY <1>3, <2>1, <2>2, <2>3, Zenon DEF FetchOf

(* The entry of a fetch that has read every type is one of the corpora     *)
(* that may be cached.                                                     *)
LEMMA FetchIsKept ==
    ASSUME CorpusInv, NEW t \in Readers, reading[t] # NoFetch, reading[t].scan.left = <<>>,
           NEW e,
           e = [key |-> Key(reading[t].caller, reading[t].scope), expires |-> Expires(reading[t]),
                records |-> reading[t].scan.records,
                complete |-> ~Ceiling(reading[t].scan.records, MaxRecords),
                torn |-> reading[t].torn, version |-> reading[t].version,
                began |-> reading[t].began]
    PROVE  e \in Entries
<1> DEFINE f == reading[t]
<1> DEFINE c == f.caller
<1> DEFINE scope == f.scope
<1>1. FetchOf(f, version)
  BY DEF CorpusInv, FetchesInv
<1>2. /\ c \in Callers /\ scope \in CorpusScopes
      /\ f.began \in Nat /\ f.version \in 1..Len(Indexes) /\ f.torn \in BOOLEAN
      /\ ScanTyped(f.scan, scope, UsableBy(c, scope), MaxRecords)
      /\ (~f.torn /\ Len(f.scan.records) < MaxRecords /\ AllUsable(c, scope, f.version))
            => Exact(IndexAt(c, f.version), f.scan, scope)
  BY <1>1 DEF FetchOf
<1>3. f.scan.records \in Seq(UsableBy(c, scope)) /\ f.scan.offset \in Nat
  BY <1>2 DEF ScanTyped
<1>4. Len(f.scan.records) \in Nat /\ MaxRecords \in Nat /\ CorpusTtl \in Nat
  BY <1>3, LenProperties, BoundsAssumption
<1>5. e = [key |-> Key(c, scope), expires |-> f.began + CorpusTtl,
           records |-> f.scan.records, complete |-> ~(Len(f.scan.records) >= MaxRecords),
           torn |-> f.torn, version |-> f.version, began |-> f.began]
  BY DEF Expires, Ceiling
<1>6. f.scan.left = <<>>
  OBVIOUS
<1> HIDE DEF f
<1>7. UsableBy(c, scope) \subseteq UNION {ReadBy(d) : d \in Callers}
  BY <1>2 DEF UsableBy
<1>8. f.scan.records \in Seq(UNION {ReadBy(d) : d \in Callers})
  BY <1>3, <1>7, SeqDef
<1> HIDE DEF c, scope
<1>9. Key(c, scope) \in {Key(d, s) : d \in Callers, s \in CorpusScopes}
  BY <1>2
<1>10. f.began + CorpusTtl \in Nat /\ (~(Len(f.scan.records) >= MaxRecords)) \in BOOLEAN
  BY <1>2, <1>4
<1> DEFINE K == {Key(d, s) : d \in Callers, s \in CorpusScopes}
<1> DEFINE R == Seq(UNION {ReadBy(d) : d \in Callers})
<1> HIDE DEF K, R
<1>11. e \in [key : K, expires : Nat, records : R, complete : BOOLEAN,
              torn : BOOLEAN, version : 1..Len(Indexes), began : Nat]
  BY <1>2, <1>5, <1>8, <1>9, <1>10 DEF K, R
<1>12. CorpusOf(e, c, scope)
  <2>1. ASSUME e.complete, ~e.torn, AllUsable(c, scope, e.version)
        PROVE  /\ DistinctIds(e.records)
               /\ Elements(e.records) = {r \in Elements(IndexAt(c, e.version)) : r.type \in scope}
    <3>1. ~f.torn /\ Len(f.scan.records) < MaxRecords /\ AllUsable(c, scope, f.version)
          /\ e.version = f.version /\ e.records = f.scan.records
      <4>1. e.complete = ~(Len(f.scan.records) >= MaxRecords)
        BY <1>5
      <4>2. e.torn = f.torn /\ e.version = f.version /\ e.records = f.scan.records
        BY <1>5
      <4>3. ~(Len(f.scan.records) >= MaxRecords)
        BY <2>1, <4>1, Zenon
      <4>4. Len(f.scan.records) < MaxRecords
        BY <1>4, <4>3
      <4> QED
        BY <2>1, <4>2, <4>4
    <3>2. Exact(IndexAt(c, f.version), f.scan, scope)
      BY <1>2, <3>1
    <3>4. Elements(f.scan.records) = {r \in Elements(IndexAt(c, f.version)) : r.type \in scope}
      BY <1>6, <3>2, ScanEnds
    <3>5. DistinctIds(IndexAt(c, f.version))
      BY <1>2, IndexFacts DEF IsIndex
    <3> QED
      BY <3>1, <3>2, <3>4, <3>5 DEF Exact
  <2>2. e.key = Key(c, scope) /\ e.records \in Seq(UsableBy(c, scope))
    BY <1>3, <1>5
  <2> QED
    BY <2>1, <2>2 DEF CorpusOf
<1>13. e.expires = e.began + CorpusTtl
  BY <1>5
<1> QED
  BY <1>2, <1>11, <1>12, <1>13 DEF Entries, K, R

(* What a lookup finds is a cached entry. *)
LEMMA EntryFacts ==
    ASSUME NEW S, NEW entries \in Seq(S), NEW key, NEW found, found = Entry(entries, key)
    PROVE  found = <<>> \/ (found # <<>> /\ found[1] \in S)
<1> DEFINE I == {i \in 1..Len(entries) : entries[i].key = key}
<1> DEFINE at == SelectInSeq(entries, LAMBDA e : e.key = key)
<1>1. Len(entries) \in Nat
  BY LenProperties
<1>2. at = IF I # {} THEN Min(I) ELSE 0
  BY DEF SelectInSeq
<1>3. found = IF at = 0 THEN <<>> ELSE <<entries[at]>>
  BY DEF Entry
<1>4. I \in SUBSET Nat /\ I \subseteq 1..Len(entries)
  BY <1>1
<1> HIDE DEF I, at
<1>5. CASE at = 0
  BY <1>3, <1>5
<1>6. CASE at # 0
  <2>1. I # {} /\ at = Min(I)
    BY <1>2, <1>6
  <2>2. at \in 1..Len(entries)
    BY <1>4, <2>1, LeastOf
  <2>3. entries[at] \in S
    BY <2>2, ElementOfSeq
  <2> QED
    BY <1>3, <1>6, <2>3
<1> QED
  BY <1>5, <1>6

(* The cache without a key holds entries of the cache. *)
LEMMA WithoutFacts ==
    ASSUME NEW S, NEW entries \in Seq(S), NEW key
    PROVE  Without(entries, key) \in Seq(S)
<1> DEFINE I == {i \in DOMAIN entries : entries[i].key # key}
<1>1. I \in SUBSET DOMAIN entries
  OBVIOUS
<1>2. Without(entries, key) = Picked(entries, I)
  BY DEF Without, Selected
<1> HIDE DEF I
<1>3. IsPicked(S, entries, I, Picked(entries, I))
  BY <1>1, PickedFacts
<1> QED
  BY <1>2, <1>3 DEF IsPicked

(* The cache after a store holds entries of the cache and the new one. *)
LEMMA PutFacts ==
    ASSUME NEW S, NEW entries \in Seq(S), NEW e \in S
    PROVE  Put(entries, e) \in Seq(S)
<1> DEFINE all == Append(Without(entries, e.key), e)
<1>1. Without(entries, e.key) \in Seq(S)
  BY WithoutFacts
<1>2. all \in Seq(S) /\ all # <<>>
  BY <1>1, AppendProperties
<1>3. Put(entries, e) = IF Len(all) > MaxEntries THEN Tail(all) ELSE all
  BY DEF Put
<1> HIDE DEF all
<1>4. Tail(all) \in Seq(S)
  BY <1>2, HeadTailProperties
<1> QED
  BY <1>2, <1>3, <1>4

(* A step of one thread, with the collection as it was, keeps the fetches  *)
(* if that of the thread is kept.                                          *)
LEMMA FetchesMove ==
    ASSUME CorpusInv, version' = version, NEW t \in Readers, NEW f,
           reading' = [reading EXCEPT ![t] = f], f = NoFetch \/ FetchOf(f, version)
    PROVE  DOMAIN reading' = Readers /\ FetchesInv'
<1>1. DOMAIN reading' = Readers
  BY DEF CorpusInv
<1>2. \A u \in Readers : reading'[u] = IF u = t THEN f ELSE reading[u]
  BY DEF CorpusInv
<1>3. \A u \in Readers : reading'[u] # NoFetch => FetchOf(reading'[u], version')
  BY <1>2 DEF CorpusInv, FetchesInv
<1> QED
  BY <1>1, <1>3 DEF FetchesInv

(* A lookup keeps CorpusInv; a corpus that it gives has not expired, so it *)
(* is younger than the time to live.                                       *)
LEMMA CorpusInvFind ==
    ASSUME CorpusInv, NEW t \in Readers, NEW c \in Callers, NEW scope \in CorpusScopes,
           FindCorpus(t, c, scope)
    PROVE  CorpusInv'
<1> DEFINE key == Key(c, scope)
<1> DEFINE found == IF CorpusTtl = 0 THEN <<>> ELSE Entry(corpora, key)
<1> DEFINE fresh == found # <<>> /\ found[1].expires > clock
<1> DEFINE f == [caller |-> c, scope |-> scope, began |-> clock, version |-> version,
                 torn |-> FALSE,
                 scan |-> [left |-> Partitions(scope), offset |-> 0, records |-> <<>>]]
<1>1. /\ corpora' = IF found = <<>> THEN corpora ELSE Append(Without(corpora, key), found[1])
      /\ \/ fresh /\ age' = clock - found[1].began /\ UNCHANGED reading
         \/ ~fresh /\ reading' = [reading EXCEPT ![t] = f] /\ UNCHANGED age
      /\ UNCHANGED <<clock, version>>
  BY DEF FindCorpus
<1>2. FetchOf(f, version)
  BY FetchBegins
<1> HIDE DEF f
<1>3. /\ clock \in Nat /\ version \in 1..Len(Indexes)
      /\ age \in Int /\ FreshWithinTtl
      /\ corpora \in Seq(Entries)
      /\ DOMAIN reading = Readers
      /\ FetchesInv
  BY DEF CorpusInv
<1>4. found = <<>> \/ (found # <<>> /\ found[1] \in Entries)
  <2> DEFINE e == Entry(corpora, key)
  <2>1. e = Entry(corpora, key)
    OBVIOUS
  <2> HIDE DEF e, key
  <2>2. e = <<>> \/ (e # <<>> /\ e[1] \in Entries)
    BY <1>3, <2>1, EntryFacts
  <2> QED
    BY <2>1, <2>2
<1> HIDE DEF found, key
<1>5. corpora' \in Seq(Entries)
  <2>1. Without(corpora, key) \in Seq(Entries)
    BY <1>3, WithoutFacts
  <2>2. found # <<>> => Append(Without(corpora, key), found[1]) \in Seq(Entries)
    BY <1>4, <2>1, AppendProperties
  <2> QED
    BY <1>1, <1>3, <2>2
<1>6. clock' \in Nat /\ version' \in 1..Len(Indexes) /\ version' = version
  BY <1>1, <1>3
<1>7. CASE fresh /\ age' = clock - found[1].began /\ UNCHANGED reading
  <2>1. found[1] \in Entries
    BY <1>4, <1>7
  <2>2. found[1].expires = found[1].began + CorpusTtl /\ found[1].began \in Nat
    BY <2>1 DEF Entries
  <2>3. age' \in Int /\ age' < CorpusTtl
    BY <1>3, <1>7, <2>2, BoundsAssumption
  <2>4. FetchesInv' /\ DOMAIN reading' = Readers
    BY <1>3, <1>6, <1>7 DEF FetchesInv
  <2> QED
    BY <1>5, <1>6, <2>3, <2>4 DEF CorpusInv, FreshWithinTtl
<1>8. CASE reading' = [reading EXCEPT ![t] = f] /\ UNCHANGED age
  <2>1. DOMAIN reading' = Readers /\ FetchesInv'
    BY <1>2, <1>6, <1>8, FetchesMove
  <2>2. age' \in Int /\ FreshWithinTtl'
    BY <1>3, <1>8 DEF FreshWithinTtl
  <2> QED
    BY <1>5, <1>6, <2>1, <2>2 DEF CorpusInv
<1> QED
  BY <1>1, <1>7, <1>8

(* A page, a failure and a store keep CorpusInv. *)
LEMMA CorpusInvFetch ==
    ASSUME CorpusInv, NEW t \in Readers, FetchPage(t) \/ FetchFails(t) \/ StoreCorpus(t)
    PROVE  CorpusInv'
<1>1. /\ clock \in Nat /\ version \in 1..Len(Indexes)
      /\ age \in Int /\ FreshWithinTtl
      /\ corpora \in Seq(Entries)
      /\ DOMAIN reading = Readers
      /\ FetchesInv
  BY DEF CorpusInv
<1>2. /\ clock' \in Nat /\ version' \in 1..Len(Indexes) /\ version' = version
      /\ age' \in Int /\ FreshWithinTtl'
  BY <1>1 DEF FetchPage, FetchFails, StoreCorpus, FreshWithinTtl
<1>3. CASE FetchPage(t)
  <2> DEFINE f == reading[t]
  <2> DEFINE g == [f EXCEPT !.scan = ReadPage(IndexFor(f.caller), f.scan, PageSize, MaxRecords)]
  <2>1. f # NoFetch /\ f.scan.left # <<>>
    BY <1>3 DEF FetchPage, PagesLeft, Fetching
  <2>2. FetchOf(f, version)
    BY <1>1, <2>1 DEF FetchesInv
  <2>3. reading' = [reading EXCEPT ![t] = g]
    BY <1>3 DEF FetchPage
  <2>4. corpora' = corpora
    BY <1>3 DEF FetchPage
  <2>5. g = [f EXCEPT !.scan = ReadPage(IndexFor(f.caller), f.scan, PageSize, MaxRecords)]
    OBVIOUS
  <2> HIDE DEF f, g
  <2>6. FetchOf(g, version)
    BY <2>1, <2>2, <2>5, FetchReads
  <2>7. DOMAIN reading' = Readers /\ FetchesInv'
    BY <1>2, <2>3, <2>6, FetchesMove
  <2> QED
    BY <1>1, <1>2, <2>4, <2>7 DEF CorpusInv
<1>4. CASE FetchFails(t)
  <2>1. reading' = [reading EXCEPT ![t] = NoFetch] /\ corpora' = corpora
    BY <1>4 DEF FetchFails
  <2>2. DOMAIN reading' = Readers /\ FetchesInv'
    BY <1>2, <2>1, FetchesMove
  <2> QED
    BY <1>1, <1>2, <2>1, <2>2 DEF CorpusInv
<1>5. CASE StoreCorpus(t)
  <2> DEFINE f == reading[t]
  <2> DEFINE e == [key |-> Key(f.caller, f.scope), expires |-> Expires(f),
                   records |-> f.scan.records,
                   complete |-> ~Ceiling(f.scan.records, MaxRecords),
                   torn |-> f.torn, version |-> f.version, began |-> f.began]
  <2>1. /\ reading[t] # NoFetch /\ reading[t].scan.left = <<>>
        /\ corpora' = IF CorpusTtl = 0 THEN corpora ELSE Put(corpora, e)
        /\ reading' = [reading EXCEPT ![t] = NoFetch]
    BY <1>5 DEF StoreCorpus, Fetching
  <2>2. e \in Entries
    BY <2>1, FetchIsKept
  <2> HIDE DEF e
  <2>3. corpora' \in Seq(Entries)
    BY <1>1, <2>1, <2>2, PutFacts
  <2>4. DOMAIN reading' = Readers /\ FetchesInv'
    BY <1>2, <2>1, FetchesMove
  <2> QED
    BY <1>2, <2>3, <2>4 DEF CorpusInv
<1> QED
  BY <1>3, <1>4, <1>5

(* A torn fetch is the fetch but for the mark. *)
LEMMA TornFetch ==
    ASSUME NEW f, NEW g, g = [f EXCEPT !.torn = TRUE],
           f = [caller |-> f.caller, scope |-> f.scope, began |-> f.began,
                version |-> f.version, torn |-> f.torn, scan |-> f.scan]
    PROVE  /\ g.caller = f.caller /\ g.scope = f.scope /\ g.began = f.began
           /\ g.version = f.version /\ g.torn = TRUE /\ g.scan = f.scan
           /\ g = [caller |-> g.caller, scope |-> g.scope, began |-> g.began,
                   version |-> g.version, torn |-> g.torn, scan |-> g.scan]
<1>1. /\ g.caller = f.caller /\ g.scope = f.scope /\ g.began = f.began
      /\ g.version = f.version /\ g.torn = TRUE /\ g.scan = f.scan
  OBVIOUS
<1>2. g = [caller |-> f.caller, scope |-> f.scope, began |-> f.began,
           version |-> f.version, torn |-> TRUE, scan |-> f.scan]
  OBVIOUS
<1> QED
  BY <1>1, <1>2

(* Time keeps CorpusInv, and so does ingestion: it tears the fetches under *)
(* way.                                                                    *)
LEMMA CorpusInvTime ==
    ASSUME CorpusInv, Tick \/ Ingest
    PROVE  CorpusInv'
<1>1. /\ clock \in Nat /\ version \in 1..Len(Indexes)
      /\ age \in Int /\ FreshWithinTtl
      /\ corpora \in Seq(Entries)
      /\ DOMAIN reading = Readers
      /\ FetchesInv
  BY DEF CorpusInv
<1>2. CASE Tick
  <2>1. clock' \in Nat /\ UNCHANGED <<version, corpora, reading, age>>
    BY <1>1, <1>2 DEF Tick
  <2> QED
    BY <1>1, <2>1 DEF CorpusInv, FetchesInv, FreshWithinTtl
<1>3. CASE Ingest
  <2>1. /\ version' \in 1..Len(Indexes) /\ UNCHANGED <<clock, corpora, age>>
        /\ reading' = [u \in Readers |->
              IF Fetching(u) THEN [reading[u] EXCEPT !.torn = TRUE] ELSE reading[u]]
    <3>1. Len(Indexes) \in Nat
      BY IndexesAssumption, LenProperties
    <3> QED
      BY <1>1, <1>3, <3>1 DEF Ingest
  <2>2. ASSUME NEW u \in Readers, reading'[u] # NoFetch
        PROVE  FetchOf(reading'[u], version')
    <3> DEFINE f == reading[u]
    <3> DEFINE g == [f EXCEPT !.torn = TRUE]
    <3>1. f # NoFetch /\ reading'[u] = g
      BY <2>1, <2>2 DEF Fetching
    <3>2. FetchOf(f, version)
      BY <1>1, <3>1 DEF FetchesInv
    <3> HIDE DEF f
    <3>3. /\ f = [caller |-> f.caller, scope |-> f.scope, began |-> f.began,
                  version |-> f.version, torn |-> f.torn, scan |-> f.scan]
          /\ f.caller \in Callers /\ f.scope \in CorpusScopes
          /\ f.began \in Nat /\ f.version \in 1..Len(Indexes)
          /\ ScanTyped(f.scan, f.scope, UsableBy(f.caller, f.scope), MaxRecords)
      BY <3>2 DEF FetchOf
    <3>4. /\ g.caller = f.caller /\ g.scope = f.scope /\ g.began = f.began
          /\ g.version = f.version /\ g.torn = TRUE /\ g.scan = f.scan
          /\ g = [caller |-> g.caller, scope |-> g.scope, began |-> g.began,
                  version |-> g.version, torn |-> g.torn, scan |-> g.scan]
      <4>1. f = [caller |-> f.caller, scope |-> f.scope, began |-> f.began,
                 version |-> f.version, torn |-> f.torn, scan |-> f.scan]
        BY <3>3
      <4>2. g = [f EXCEPT !.torn = TRUE]
        OBVIOUS
      <4> HIDE DEF g
      <4> QED
        BY <4>1, <4>2, TornFetch
    <3> HIDE DEF g
    <3>5. FetchOf(g, version')
      BY <3>3, <3>4 DEF FetchOf
    <3> QED
      BY <3>1, <3>5
  <2>3. DOMAIN reading' = Readers /\ FetchesInv'
    BY <2>1, <2>2 DEF FetchesInv
  <2> QED
    BY <1>1, <2>1, <2>3 DEF CorpusInv, FreshWithinTtl
<1> QED
  BY <1>2, <1>3

-----------------------------------------------------------------------------
(* The inductive invariants *)

(* Where a search may be. *)
Stages == {"idle", "dense", "lexical", "embedding", "querying", "fallback", "fetching", "done"}

(* A search that is under way has its caller. *)
SearchInv ==
    /\ stage \in [Threads -> Stages]
    /\ caller \in [Threads -> Callers \cup {NoCaller}]
    /\ \A t \in Threads : stage[t] # "idle" => caller[t] \in Callers

(* Every step keeps SearchInv. *)
LEMMA SearchInvStep == SearchInv /\ [Next]_vars => SearchInv'
<1> SUFFICES ASSUME SearchInv, [Next]_vars PROVE SearchInv'
  OBVIOUS
<1>1. ASSUME NEW t \in Threads, Begin(t) PROVE SearchInv'
  <2>1. PICK s \in {"dense", "lexical"} : stage' = [stage EXCEPT ![t] = s]
    BY <1>1 DEF Begin
  <2>2. PICK c \in Callers : caller' = [caller EXCEPT ![t] = c]
    BY <1>1 DEF Begin
  <2>3. s \in Stages
    BY <2>1 DEF Stages
  <2> QED
    BY <2>1, <2>2, <2>3 DEF SearchInv
<1>2. ASSUME NEW t \in Threads, NEW here \in Stages \ {"idle"}, NEW there \in Stages,
             Stage(t, here, there), UNCHANGED caller
      PROVE  SearchInv'
  BY <1>2 DEF SearchInv, Stage
<1>3. ASSUME UNCHANGED <<stage, caller>> PROVE SearchInv'
  BY <1>3 DEF SearchInv
<1>4. ASSUME NEW t \in Threads, Embed(t) PROVE SearchInv'
  <2>1. \/ \E here \in Stages \ {"idle"}, there \in Stages : Stage(t, here, there)
        \/ UNCHANGED stage
    BY <1>4 DEF Embed, Stages
  <2>2. UNCHANGED caller
    BY <1>4 DEF Embed
  <2> QED
    BY <1>2, <1>3, <2>1, <2>2
<1>5. ASSUME NEW t \in Threads, SearchDense(t) PROVE SearchInv'
  <2>1. \E here \in Stages \ {"idle"}, there \in Stages : Stage(t, here, there)
    BY <1>5 DEF SearchDense, Stages
  <2>2. UNCHANGED caller
    BY <1>5 DEF SearchDense
  <2> QED
    BY <1>2, <2>1, <2>2
<1>6. ASSUME NEW t \in Threads, LookUpCorpus(t) PROVE SearchInv'
  <2>1. \E here \in Stages \ {"idle"}, there \in Stages : Stage(t, here, there)
    BY <1>6 DEF LookUpCorpus, Stages
  <2>2. UNCHANGED caller
    BY <1>6 DEF LookUpCorpus
  <2> QED
    BY <1>2, <2>1, <2>2
<1>7. ASSUME NEW t \in Threads, Fetch(t) PROVE SearchInv'
  <2>1. \/ \E here \in Stages \ {"idle"}, there \in Stages : Stage(t, here, there)
        \/ UNCHANGED stage
    BY <1>7 DEF Fetch, Stages
  <2>2. UNCHANGED caller
    BY <1>7 DEF Fetch
  <2> QED
    BY <1>2, <1>3, <2>1, <2>2
<1>8. ASSUME NEW t \in Threads, Leave(t) PROVE SearchInv'
  <2>1. stage' = [stage EXCEPT ![t] = "idle"] /\ caller' = [caller EXCEPT ![t] = NoCaller]
    BY <1>8 DEF Leave
  <2>2. "idle" \in Stages
    BY DEF Stages
  <2> QED
    BY <2>1, <2>2 DEF SearchInv
<1>9. CASE Environment \/ Ended \/ UNCHANGED vars
  BY <1>3, <1>9 DEF Environment, Ended, vars, searchVars
<1> QED
  BY <1>1, <1>4, <1>5, <1>6, <1>7, <1>8, <1>9 DEF Next

(* CorpusInv holds of an empty cache. *)
LEMMA CorpusInvInit == CacheInit => CorpusInv
<1> SUFFICES ASSUME CacheInit PROVE CorpusInv
  OBVIOUS
<1>1. Len(Indexes) \in Nat /\ Len(Indexes) # 0
  BY IndexesAssumption, LenProperties, EmptySeq
<1>2. <<>> \in Seq(Entries)
  BY EmptySeq
<1> QED
  BY <1>1, <1>2 DEF CacheInit, CorpusInv, FetchesInv, FreshWithinTtl

(* Every step keeps CorpusInv. *)
LEMMA CorpusInvStep == SearchInv /\ CorpusInv /\ [Next]_vars => CorpusInv'
<1> SUFFICES ASSUME SearchInv, CorpusInv, [Next]_vars PROVE CorpusInv'
  OBVIOUS
<1>1. CASE UNCHANGED cacheVars
  BY <1>1 DEF cacheVars, CorpusInv, FetchesInv, FreshWithinTtl
<1>2. ASSUME NEW t \in Threads, LookUpCorpus(t) PROVE CorpusInv'
  <2>1. PICK scope \in CorpusScopes : FindCorpus(t, caller[t], scope)
    BY <1>2 DEF LookUpCorpus
  <2>2. stage[t] # "idle"
    BY <1>2 DEF LookUpCorpus, Stage
  <2> QED
    BY <2>1, <2>2, CorpusInvFind, ReadersAssumption DEF SearchInv
<1>3. ASSUME NEW t \in Threads, Fetch(t) PROVE CorpusInv'
  BY <1>3, CorpusInvFetch, ReadersAssumption DEF Fetch
<1>4. CASE Environment
  BY <1>4, CorpusInvTime DEF Environment
<1>5. ASSUME NEW t \in Threads, Begin(t) \/ Embed(t) \/ SearchDense(t) \/ Leave(t)
      PROVE  UNCHANGED cacheVars
  BY <1>5 DEF Begin, Embed, SearchDense, Leave
<1>6. CASE Ended \/ UNCHANGED vars
  BY <1>1, <1>6 DEF Ended, vars
<1> QED
  BY <1>1, <1>2, <1>3, <1>4, <1>5, <1>6 DEF Next

(* ToSet gives the elements of a sequence. *)
LEMMA ToSetElements ==
    ASSUME NEW S, NEW s \in Seq(S)
    PROVE  ToSet(s) = Elements(s)
<1>1. DOMAIN s = 1..Len(s)
  BY LenProperties
<1> QED
  BY <1>1 DEF ToSet, Elements

(* What a caller is kept a corpus under says of another caller with that   *)
(* key all that decides what it may see and use, so the corpora of         *)
(* CorpusInv are also those of every caller that shares their key.         *)
LEMMA CorpusInvOwn == CorpusInv => OwnCorpus
<1> SUFFICES ASSUME CorpusInv, NEW i \in DOMAIN corpora, NEW d \in Callers,
                    corpora[i].key = Key(d, corpora[i].key.scope)
             PROVE  LET e == corpora[i]
                        seen == {r \in ToSet(Indexes[e.version]) :
                                    r.policy \in d.policies /\ r.type \in e.key.scope}
                        held == {r.id : r \in ToSet(e.records)}
                    IN  /\ \A r \in ToSet(e.records) :
                              r.policy \in d.policies /\ r.schema = d.schema /\ r.type \in e.key.scope
                        /\ e.complete /\ ~e.torn /\ (\A r \in seen : r.schema = d.schema) =>
                              held = {r.id : r \in seen} /\ Len(e.records) = Cardinality(held)
  BY DEF OwnCorpus
<1> DEFINE e == corpora[i]
<1> DEFINE x == Indexes[e.version]
<1> DEFINE seen == {r \in ToSet(x) : r.policy \in d.policies /\ r.type \in e.key.scope}
<1> DEFINE held == {r.id : r \in ToSet(e.records)}
<1>1. e \in Entries
  BY LenProperties, ElementOfSeq DEF CorpusInv
<1>2. e.key = Key(d, e.key.scope)
  OBVIOUS
<1> HIDE DEF e
<1>3. PICK c \in Callers, scope \in CorpusScopes : CorpusOf(e, c, scope)
  BY <1>1 DEF Entries
<1>4. e.version \in 1..Len(Indexes)
  BY <1>1 DEF Entries
<1>5. e.key.scope = scope /\ c.schema = d.schema /\ Visible(c) = Visible(d)
  BY <1>2, <1>3 DEF CorpusOf, Key
<1>6. x \in Seq(Documents)
  BY <1>4, IndexesAssumption, ElementOfSeq
<1>7. \A p \in DocumentPolicies : p \in c.policies <=> p \in d.policies
  BY <1>5 DEF Visible
<1>8. e.records \in Seq(UsableBy(c, scope))
  BY <1>3 DEF CorpusOf
<1>9. ToSet(e.records) = Elements(e.records) /\ ToSet(x) = Elements(x)
  BY <1>6, <1>8, ToSetElements
<1>10. \A r \in ToSet(e.records) : r \in UsableBy(c, scope)
  BY <1>8, <1>9, ElementOfSeq DEF Elements
<1>11. \A r \in ToSet(e.records) :
          r.policy \in d.policies /\ r.schema = d.schema /\ r.type \in e.key.scope
  <2> SUFFICES ASSUME NEW r \in ToSet(e.records)
               PROVE  r.policy \in d.policies /\ r.schema = d.schema /\ r.type \in e.key.scope
    OBVIOUS
  <2>1. r \in ReadBy(c) /\ r.compatible /\ r.type \in scope
    BY <1>10 DEF UsableBy
  <2>2. PICK o \in Documents : o.policy \in c.policies /\ r = Fields(o, c)
    BY <2>1 DEF ReadBy
  <2>3. r.policy = o.policy /\ r.schema = o.schema /\ r.compatible = (o.schema = c.schema)
    BY <2>2 DEF Fields
  <2>4. o.policy \in d.policies
    BY <1>7, <2>2, IndexesAssumption
  <2> QED
    BY <1>5, <2>1, <2>3, <2>4
<1>12. ASSUME e.complete, ~e.torn, \A r \in seen : r.schema = d.schema
       PROVE  held = {r.id : r \in seen} /\ Len(e.records) = Cardinality(held)
  <2> DEFINE y == IndexAt(c, e.version)
  <2>1. /\ y \in Seq(ReadBy(c))
        /\ Elements(y) = {Fields(o, c) : o \in {r \in Elements(x) : r.policy \in c.policies}}
    BY <1>4, IndexFacts DEF IsIndex
  <2>2. seen = {r \in Elements(x) : r.policy \in c.policies /\ r.type \in scope}
    <3>1. \A r \in Elements(x) : r \in Documents
      BY <1>6, ElementOfSeq DEF Elements
    <3>2. \A r \in Elements(x) : r.policy \in c.policies <=> r.policy \in d.policies
      BY <1>7, <3>1, IndexesAssumption
    <3> HIDE DEF x
    <3> QED
      BY <1>5, <1>9, <3>2
  <2> HIDE DEF x, seen, held, y
  <2>3. AllUsable(c, scope, e.version)
    <3>1. ASSUME NEW r \in Elements(y), r.type \in scope
          PROVE  r.compatible
      <4>1. PICK o \in Elements(x) : o.policy \in c.policies /\ r = Fields(o, c)
        BY <2>1, <3>1
      <4>2. r.type = o.type /\ r.compatible = (o.schema = c.schema)
        BY <4>1 DEF Fields
      <4>3. o \in seen
        BY <2>2, <3>1, <4>1, <4>2
      <4>4. o.schema = c.schema
        BY <1>5, <1>12, <4>3
      <4> QED
        BY <4>2, <4>4
    <3> QED
      BY <3>1 DEF AllUsable, Elements, y
  <2>4. /\ DistinctIds(e.records)
        /\ Elements(e.records) = {r \in Elements(y) : r.type \in scope}
    BY <1>3, <1>12, <2>3 DEF CorpusOf, y
  <2>5. held = {r.id : r \in Elements(e.records)}
    BY <1>9 DEF held
  <2>6. ASSUME NEW r \in Elements(e.records)
        PROVE  \E o \in seen : r.id = o.id
    <3>1. PICK o \in Elements(x) : o.policy \in c.policies /\ r = Fields(o, c)
      BY <2>1, <2>4
    <3>2. r.type = o.type /\ r.id = o.id
      BY <3>1 DEF Fields
    <3> QED
      BY <2>2, <2>4, <3>1, <3>2
  <2>7. ASSUME NEW o \in seen
        PROVE  \E r \in Elements(e.records) : r.id = o.id
    <3>1. Fields(o, c) \in Elements(y)
      BY <2>1, <2>2
    <3>2. Fields(o, c).type = o.type /\ Fields(o, c).id = o.id
      BY DEF Fields
    <3> QED
      BY <2>2, <2>4, <3>1, <3>2
  <2>8. held = {r.id : r \in seen}
    BY <2>5, <2>6, <2>7
  <2>9. Len(e.records) = Cardinality(held)
    BY <1>8, <2>4, <2>5, DistinctCardinality
  <2> QED
    BY <2>8, <2>9
<1> QED
  BY <1>11, <1>12 DEF e

-----------------------------------------------------------------------------
(* A whole scan *)

(* A set of positions that holds 0 and the one after each of its own up to *)
(* n holds them all.                                                       *)
LEMMA UpToTheLast ==
    ASSUME NEW n \in Nat, NEW I \in SUBSET (0..n), 0 \in I,
           \A i \in 1..n : i - 1 \in I => i \in I
    PROVE  I = 0..n
<1> DEFINE T == (0..n) \ I
<1>1. T \in SUBSET Nat
  OBVIOUS
<1>2. ASSUME T # {}
      PROVE  FALSE
  <2>1. PICK m \in T : \A i \in T : m <= i
    BY <1>1, <1>2, Smallest
  <2>2. m \in 1..n /\ m - 1 \in 0..n
    BY <2>1
  <2>3. m - 1 \in I
    <3>1. ~(m <= m - 1)
      BY <2>2
    <3>2. m - 1 \notin T
      BY <2>1, <3>1
    <3> QED
      BY <2>2, <3>2
  <2> QED
    BY <2>1, <2>2, <2>3
<1> QED
  BY <1>2

(* What n steps of F lead to from s, one after the other. *)
Iterates(n, s, F, f) == f = [i \in 0..n |-> IF i = 0 THEN s ELSE F[f[i - 1]]]

(* There are such steps: one more follows the ones there are. *)
LEMMA IteratesExist ==
    ASSUME NEW n \in Nat, NEW S, NEW s \in S, NEW F \in [S -> S]
    PROVE  \E f \in [0..n -> S] : Iterates(n, s, F, f)
<1> DEFINE I == {m \in 0..n : \E f \in [0..m -> S] : Iterates(m, s, F, f)}
<1>1. 0 \in I
  <2> DEFINE f == [i \in 0..0 |-> s]
  <2>1. f \in [0..0 -> S] /\ \A i \in 0..0 : i = 0
    OBVIOUS
  <2>2. Iterates(0, s, F, f)
    BY <2>1 DEF Iterates
  <2> QED
    BY <2>1, <2>2
<1>2. ASSUME NEW m \in 1..n, m - 1 \in I
      PROVE  m \in I
  <2>1. PICK f \in [0..(m - 1) -> S] : Iterates(m - 1, s, F, f)
    BY <1>2
  <2>2. /\ \A i \in 0..(m - 1) : f[i] \in S
        /\ \A i \in 0..(m - 1) : f[i] = IF i = 0 THEN s ELSE F[f[i - 1]]
    BY <2>1 DEF Iterates
  <2> DEFINE g == [i \in 0..m |-> IF i = m THEN F[f[m - 1]] ELSE f[i]]
  <2>3. m - 1 \in 0..(m - 1) /\ \A i \in 0..m : i # m => i \in 0..(m - 1)
    OBVIOUS
  <2>4. F[f[m - 1]] \in S
    BY <2>2, <2>3
  <2>5. g \in [0..m -> S]
    BY <2>2, <2>3, <2>4
  <2>6. ASSUME NEW i \in 0..m
        PROVE  g[i] = IF i = 0 THEN s ELSE F[g[i - 1]]
    <3>1. CASE i = 0
      <4>1. i # m /\ i \in 0..(m - 1)
        BY <3>1
      <4> QED
        BY <2>2, <3>1, <4>1
    <3>2. CASE i # 0 /\ i = m
      <4>1. m - 1 \in 0..m /\ m - 1 # m
        OBVIOUS
      <4>2. g[m - 1] = f[m - 1]
        BY <4>1
      <4> QED
        BY <3>2, <4>2
    <3>3. CASE i # 0 /\ i # m
      <4>1. i - 1 \in 0..m /\ i - 1 # m /\ i \in 0..(m - 1)
        BY <3>3
      <4>2. g[i - 1] = f[i - 1] /\ g[i] = f[i]
        BY <3>3, <4>1
      <4> QED
        BY <2>2, <3>3, <4>1, <4>2
    <3> QED
      BY <3>1, <3>2, <3>3
  <2>7. Iterates(m, s, F, g)
    <3>1. g = [i \in 0..m |-> g[i]]
      BY Zenon
    <3> HIDE DEF g
    <3> QED
      BY <2>6, <3>1 DEF Iterates
  <2> QED
    BY <2>5, <2>7
<1>3. I = 0..n
  <2>1. I \in SUBSET (0..n)
    OBVIOUS
  <2>2. \A m \in 1..n : m - 1 \in I => m \in I
    BY <1>2
  <2> HIDE DEF I
  <2> QED
    BY <1>1, <2>1, <2>2, UpToTheLast
<1> QED
  BY <1>3

(* The scans there may be. *)
Scans(scope, U, max) ==
    {s \in [left : Seq(scope), offset : Nat, records : Seq(U)] : ScanTyped(s, scope, U, max)}

(* A page read of one of them leads to another. *)
LEMMA ReadPageScans ==
    ASSUME NEW S, NEW x \in Seq(S), NEW scope, NEW U, NEW pageSize \in Nat, NEW max \in Nat,
           NEW scan \in Scans(scope, U, max), scan.left # <<>>,
           \A r \in S : r.compatible /\ r.type \in scope => r \in U
    PROVE  ReadPage(x, scan, pageSize, max) \in Scans(scope, U, max)
<1> DEFINE s == ReadPage(x, scan, pageSize, max)
<1>1. ScanTyped(scan, scope, U, max)
  BY DEF Scans
<1>2. ScanTyped(s, scope, U, max)
  BY <1>1, ReadPageTyped
<1>3. s = [left |-> s.left, offset |-> s.offset, records |-> s.records]
  <2> DEFINE page == PageAhead(x, scan, pageSize, max)
  <2> DEFINE records == RecordsAfter(x, scan, pageSize, max)
  <2>1. s =
          CASE Len(records) >= max -> [left |-> << >>, offset |-> 0, records |-> records]
            [] ~(Len(records) >= max) /\ Len(page) < pageSize ->
                  [left |-> Tail(scan.left), offset |-> 0, records |-> records]
            [] OTHER ->
                  [left |-> scan.left, offset |-> scan.offset + Len(page), records |-> records]
    BY DEF ReadPage, Ceiling, RecordsAfter, PageAhead, PageOf, StoredOf, Selected
  <2> HIDE DEF page, records, s
  <2> QED
    BY <2>1
<1> HIDE DEF s
<1>4. s.left \in Seq(scope) /\ s.offset \in Nat /\ s.records \in Seq(U)
  BY <1>2 DEF ScanTyped
<1>5. s \in [left : Seq(scope), offset : Nat, records : Seq(U)]
  BY <1>3, <1>4
<1> QED
  BY <1>2, <1>5 DEF Scans, s

(* The positions of the types T. *)
Positions(x, T) == {i \in 1..Len(x) : x[i].type \in T}

(* How many pages a scan may still need: a page takes a record or ends a   *)
(* partition.                                                              *)
PagesToGo(x, scan) ==
    IF scan.left = <<>> THEN 0
    ELSE Cardinality(Positions(x, Left(scan))) - scan.offset + Len(scan.left)

(* As many records of a type are stored as positions have it. *)
LEMMA StoredCount ==
    ASSUME NEW S, NEW x \in Seq(S), NEW type
    PROVE  Len(StoredOf(x, type)) = Cardinality(Positions(x, {type}))
<1> DEFINE I == {i \in DOMAIN x : x[i].type = type}
<1>1. DOMAIN x = 1..Len(x)
  BY LenProperties
<1>2. I = Positions(x, {type})
  BY <1>1 DEF Positions
<1>3. StoredOf(x, type) = Picked(x, I) /\ I \in SUBSET DOMAIN x
  BY DEF StoredOf
<1> HIDE DEF I
<1>4. IsPicked(S, x, I, Picked(x, I))
  BY <1>3, PickedFacts
<1>5. Len(Picked(x, I)) = Cardinality(I)
  BY <1>4 DEF IsPicked
<1> QED
  BY <1>2, <1>3, <1>5

(* Positions are finitely many, and those of several types add up. *)
LEMMA PositionsFacts ==
    ASSUME NEW S, NEW x \in Seq(S), NEW T, NEW t \in T
    PROVE  /\ Cardinality(Positions(x, T)) \in Nat
           /\ Cardinality(Positions(x, T)) <= Len(x)
           /\ Cardinality(Positions(x, T \ {t})) \in Nat
           /\ Cardinality(Positions(x, {t})) \in Nat
           /\ Cardinality(Positions(x, T)) =
                 Cardinality(Positions(x, T \ {t})) + Cardinality(Positions(x, {t}))
<1>1. Len(x) \in Nat
  BY LenProperties
<1>2. IsFiniteSet(1..Len(x)) /\ Cardinality(1..Len(x)) = Len(x)
  <2>1. 1 \in Int /\ Len(x) \in Int
    BY <1>1
  <2>2. IsFiniteSet(1..Len(x)) /\ Cardinality(1..Len(x)) = IF 1 > Len(x) THEN 0 ELSE Len(x) - 1 + 1
    BY <2>1, FS_Interval, Zenon
  <2> QED
    BY <1>1, <2>2
<1> DEFINE A == Positions(x, T \ {t})
<1> DEFINE B == Positions(x, {t})
<1>3. Positions(x, T) \in SUBSET (1..Len(x)) /\ A \in SUBSET (1..Len(x)) /\ B \in SUBSET (1..Len(x))
  BY DEF Positions
<1>4. Positions(x, T) = A \cup B /\ A \cap B = {}
  BY DEF Positions
<1> HIDE DEF A, B
<1>5. /\ IsFiniteSet(A) /\ IsFiniteSet(B) /\ Cardinality(Positions(x, T)) <= Cardinality(1..Len(x))
      /\ IsFiniteSet(Positions(x, T))
  BY <1>2, <1>3, FS_Subset
<1>6. Cardinality(A \cup B) = Cardinality(A) + Cardinality(B) - Cardinality(A \cap B)
  BY <1>5, FS_Union
<1>7. Cardinality(A) \in Nat /\ Cardinality(B) \in Nat /\ Cardinality(Positions(x, T)) \in Nat
      /\ Cardinality({}) = 0
  BY <1>5, FS_CardinalityType, FS_EmptySet
<1>8. Cardinality(Positions(x, T)) = Cardinality(A) + Cardinality(B)
  <2>1. Cardinality(A \cap B) = 0
    BY <1>4, <1>7
  <2>2. Cardinality(Positions(x, T)) = Cardinality(A \cup B)
    BY <1>4
  <2> QED
    BY <1>6, <1>7, <2>1, <2>2
<1>9. Cardinality(Positions(x, T)) <= Len(x)
  BY <1>2, <1>5
<1> QED
  BY <1>7, <1>8, <1>9 DEF A, B

(* What the counts below come to. *)
LEMMA CountsDown ==
    ASSUME NEW c \in Nat, NEW d \in Nat, NEW h \in Nat, NEW offset \in Nat,
           NEW n \in Nat \ {0}, c = d + h, offset <= h
    PROVE  /\ c - offset + n \in Nat \ {0}
           /\ d - 0 + (n - 1) < c - offset + n
           /\ \A k \in Nat \ {0} : c - (offset + k) + n < c - offset + n
  OBVIOUS

(* A page read brings a scan that goes on nearer to its end. *)
LEMMA ReadPageShrinks ==
    ASSUME NEW S, NEW x \in Seq(S), NEW scope, NEW U, NEW scan,
           NEW pageSize \in Nat \ {0}, NEW max \in Nat,
           ScanTyped(scan, scope, U, max), scan.left # <<>>,
           scan.offset <= Len(StoredOf(x, Head(scan.left))),
           NEW s, s = ReadPage(x, scan, pageSize, max)
    PROVE  /\ PagesToGo(x, scan) \in Nat \ {0}
           /\ PagesToGo(x, s) < PagesToGo(x, scan)
<1> DEFINE type == Head(scan.left)
<1> DEFINE page == PageAhead(x, scan, pageSize, max)
<1> DEFINE records == RecordsAfter(x, scan, pageSize, max)
<1>1. /\ Len(records) >= max => s.left = <<>> /\ s.offset = 0
      /\ ~(Len(records) >= max) /\ Len(page) < pageSize => s.left = Tail(scan.left) /\ s.offset = 0
      /\ ~(Len(records) >= max) /\ ~(Len(page) < pageSize) =>
            s.left = scan.left /\ s.offset = scan.offset + Len(page)
  BY ReadPageIs
<1>2. page \in Seq(S)
  <2> DEFINE st == StoredOf(x, Head(scan.left))
  <2>1. st = StoredOf(x, Head(scan.left)) /\ page = PageAhead(x, scan, pageSize, max)
    OBVIOUS
  <2> HIDE DEF st, page
  <2>2. IsNextPage(S, x, scope, scan, pageSize, max, st, page)
    BY <2>1, NextPageFacts
  <2> QED
    BY <2>2, Zenon DEF IsNextPage
<1> HIDE DEF page, records
<1>3. /\ scan.left \in Seq(scope) /\ scan.offset \in Nat
      /\ \A i, j \in 1..Len(scan.left) : scan.left[i] = scan.left[j] => i = j
  BY DEF ScanTyped
<1>4. /\ Len(scan.left) \in Nat \ {0} /\ Len(Tail(scan.left)) = Len(scan.left) - 1
      /\ type = scan.left[1] /\ Len(page) \in Nat
  BY <1>2, <1>3, LenProperties, EmptySeq, HeadTailProperties
<1>5. type \in Left(scan)
  <2>1. 1 \in 1..Len(scan.left)
    BY <1>4
  <2> QED
    BY <1>4, <2>1 DEF Left
<1> DEFINE C == Cardinality(Positions(x, Left(scan)))
<1> DEFINE D == Cardinality(Positions(x, Left(scan) \ {type}))
<1> DEFINE H == Cardinality(Positions(x, {type}))
<1>6. C \in Nat /\ D \in Nat /\ H \in Nat /\ C = D + H
  BY <1>5, PositionsFacts
<1>7. scan.offset <= H /\ scan.offset \in Nat
  BY <1>3, StoredCount
<1>8. Len(scan.left) \in Nat \ {0} /\ Len(page) \in Nat
  BY <1>4
<1>9. PagesToGo(x, scan) = C - scan.offset + Len(scan.left)
  BY DEF PagesToGo
<1> DEFINE n == Len(scan.left)
<1> HIDE DEF C, D, H, n
<1>10. /\ PagesToGo(x, scan) \in Nat \ {0}
       /\ D - 0 + (n - 1) < PagesToGo(x, scan)
       /\ \A k \in Nat \ {0} : C - (scan.offset + k) + n < PagesToGo(x, scan)
  <2>1. n \in Nat \ {0} /\ PagesToGo(x, scan) = C - scan.offset + n
    BY <1>8, <1>9 DEF n
  <2>2. /\ C - scan.offset + n \in Nat \ {0}
        /\ D - 0 + (n - 1) < C - scan.offset + n
        /\ \A k \in Nat \ {0} : C - (scan.offset + k) + n < C - scan.offset + n
    BY <1>6, <1>7, <2>1, CountsDown
  <2> QED
    BY <2>1, <2>2
<1>11. CASE s.left = <<>>
  <2>1. PagesToGo(x, s) = 0
    BY <1>11 DEF PagesToGo
  <2> QED
    BY <1>10, <2>1
<1>12. CASE s.left # <<>> /\ s.left = Tail(scan.left) /\ s.offset = 0
  <2>1. Left(s) = Left(scan) \ {type}
    <3>1. {Tail(scan.left)[k] : k \in 1..Len(Tail(scan.left))} =
            {scan.left[k] : k \in 1..Len(scan.left)} \ {Head(scan.left)}
      BY <1>3, TailFacts
    <3> QED
      BY <1>12, <3>1 DEF Left
  <2>2. PagesToGo(x, s) = D - 0 + (n - 1)
    BY <1>4, <1>12, <2>1 DEF PagesToGo, D, n
  <2> QED
    BY <1>10, <2>2
<1>13. CASE /\ s.left # <<>> /\ s.left = scan.left /\ s.offset = scan.offset + Len(page)
            /\ ~(Len(page) < pageSize)
  <2>1. Left(s) = Left(scan)
    BY <1>13 DEF Left
  <2>2. PagesToGo(x, s) = C - (scan.offset + Len(page)) + n
    BY <1>13, <2>1 DEF PagesToGo, C, n
  <2>3. Len(page) \in Nat \ {0}
    BY <1>8, <1>13
  <2> QED
    BY <1>10, <2>2, <2>3
<1> QED
  BY <1>1, <1>10, <1>11, <1>12, <1>13

(* The state of a scan after each of its pages; one that has ended stays   *)
(* as it is.                                                               *)
IsScan(x, scope, pageSize, max, after) ==
    after = [n \in 0 .. Len(x) + 4 |->
        IF n = 0
        THEN [left |-> Partitions(scope), offset |-> 0, records |-> << >>]
        ELSE LET before == after[n - 1]
             IN  IF before.left = << >> THEN before
                 ELSE ReadPage(x, before, pageSize, max)]

(* Scan goes through such states. *)
LEMMA ScanGoesOn ==
    ASSUME NEW S, NEW x \in Seq(S), NEW scope \in SUBSET SourceTypes, NEW U,
           NEW pageSize \in Nat, NEW max \in Nat \ {0},
           \A r \in S : r.compatible /\ r.type \in scope => r \in U
    PROVE  \E after \in [0 .. Len(x) + 4 -> Scans(scope, U, max)] :
              IsScan(x, scope, pageSize, max, after)
<1> DEFINE N == Len(x) + 4
<1> DEFINE start == [left |-> Partitions(scope), offset |-> 0, records |-> << >>]
<1> DEFINE P == Scans(scope, U, max)
<1> DEFINE F == [s \in P |-> IF s.left = << >> THEN s ELSE ReadPage(x, s, pageSize, max)]
<1>1. N \in Nat
  BY LenProperties
<1>2. start \in P
  <2>1. ScanTyped(start, scope, U, max)
    BY ScanBegins
  <2>2. start.left \in Seq(scope) /\ start.records \in Seq(U)
    BY <2>1 DEF ScanTyped
  <2>3. start \in [left : Seq(scope), offset : Nat, records : Seq(U)]
    BY <2>2
  <2> HIDE DEF start
  <2> QED
    BY <2>1, <2>3 DEF Scans
<1>3. F \in [P -> P]
  <2>1. \A s \in P : s.left # << >> => ReadPage(x, s, pageSize, max) \in P
    BY ReadPageScans
  <2> HIDE DEF P
  <2> QED
    BY <2>1
<1>4. \A s \in P : F[s] = IF s.left = << >> THEN s ELSE ReadPage(x, s, pageSize, max)
  OBVIOUS
<1> HIDE DEF N, start, F, P
<1>5. PICK f \in [0..N -> P] : Iterates(N, start, F, f)
  BY <1>1, <1>2, <1>3, IteratesExist
<1>6. f = [n \in 0..N |-> IF n = 0 THEN start ELSE F[f[n - 1]]]
  BY <1>5 DEF Iterates
<1>7. \A n \in 0..N : n # 0 => n - 1 \in 0..N
  BY <1>1
<1>8. \A n \in 0..N : f[n] \in P
  BY <1>5
<1>9. \A n \in 0..N : (IF n = 0 THEN start ELSE F[f[n - 1]]) =
         IF n = 0 THEN start
         ELSE IF f[n - 1].left = << >> THEN f[n - 1] ELSE ReadPage(x, f[n - 1], pageSize, max)
  BY <1>4, <1>7, <1>8
<1>10. f = [n \in 0..N |->
              IF n = 0 THEN start
              ELSE IF f[n - 1].left = << >> THEN f[n - 1] ELSE ReadPage(x, f[n - 1], pageSize, max)]
  BY <1>6, <1>9
<1>11. IsScan(x, scope, pageSize, max, f)
  BY <1>10, Zenon DEF IsScan, N, start
<1> QED
  BY <1>5, <1>11 DEF N, P

(* What a scan returns of the last of its states. *)
Result(x, max, after) ==
    LET records == after[Len(x) + 4].records
    IN  [records |-> {records[i] : i \in DOMAIN records}, complete |-> ~Ceiling(records, max)]

IsScanned(x, scope, pageSize, max, after) ==
    /\ IsScan(x, scope, pageSize, max, after)
    /\ Scan(x, scope, pageSize, max) = Result(x, max, after)

(* Scan is the result of such a scan. *)
LEMMA ScanIs ==
    ASSUME NEW S, NEW x \in Seq(S), NEW scope \in SUBSET SourceTypes, NEW U,
           NEW pageSize \in Nat, NEW max \in Nat \ {0},
           \A r \in S : r.compatible /\ r.type \in scope => r \in U
    PROVE  \E after : IsScanned(x, scope, pageSize, max, after)
<1> DEFINE after == CHOOSE f : IsScan(x, scope, pageSize, max, f)
<1>1. \E f : IsScan(x, scope, pageSize, max, f)
  BY ScanGoesOn
<1>2. IsScan(x, scope, pageSize, max, after)
  BY <1>1
<1>3. Scan(x, scope, pageSize, max) = Result(x, max, after)
  BY Zenon DEF Scan, IsScan, Result
<1> HIDE DEF after
<1> QED
  BY <1>2, <1>3 DEF IsScanned

(* The pages to go of a well-formed scan are a number. *)
LEMMA PagesToGoInt ==
    ASSUME NEW S, NEW x \in Seq(S), NEW scope, NEW U, NEW max, NEW scan, ScanTyped(scan, scope, U, max)
    PROVE  PagesToGo(x, scan) \in Int
<1>1. CASE scan.left = <<>>
  BY <1>1 DEF PagesToGo
<1>2. CASE scan.left # <<>>
  <2>1. scan.left \in Seq(scope) /\ scan.offset \in Nat
    BY DEF ScanTyped
  <2>2. Len(scan.left) \in Nat
    BY <2>1, LenProperties
  <2>3. Cardinality(Positions(x, Left(scan))) \in Nat
    <3>1. 1 \in 1..Len(scan.left)
      BY <1>2, <2>1, <2>2, EmptySeq
    <3>2. scan.left[1] \in Left(scan)
      BY <3>1 DEF Left
    <3> QED
      BY <3>2, PositionsFacts
  <2> QED
    BY <1>2, <2>1, <2>2, <2>3 DEF PagesToGo
<1> QED
  BY <1>1, <1>2

(* There are four partitions at most. *)
LEMMA PartitionCount == ASSUME NEW scope PROVE Len(Partitions(scope)) <= 4
<1> DEFINE s == <<"PAGE", "ATTACHMENT", "ISSUE", "CODE">>
<1> DEFINE I == {i \in DOMAIN s : s[i] \in scope}
<1>1. Partitions(scope) = Picked(s, I)
  BY DEF Partitions, Selected
<1>2. DOMAIN s = 1..4 /\ s \in Seq(SourceTypes)
  BY DEF SourceTypes
<1>3. I \in SUBSET (1..4) /\ I \in SUBSET DOMAIN s
  BY <1>2
<1> HIDE DEF I, s
<1>4. IsPicked(SourceTypes, s, I, Picked(s, I))
  BY <1>2, <1>3, PickedFacts
<1>5. Len(Picked(s, I)) = Cardinality(I)
  BY <1>4 DEF IsPicked
<1>6. IsFiniteSet(1..4) /\ Cardinality(1..4) = 4
  <2>1. 1 \in Int /\ 4 \in Int
    OBVIOUS
  <2>2. IsFiniteSet(1..4) /\ Cardinality(1..4) = IF 1 > 4 THEN 0 ELSE 4 - 1 + 1
    BY <2>1, FS_Interval, Zenon
  <2> QED
    BY <2>2
<1>7. Cardinality(I) <= 4
  <2> DEFINE J == 1..4
  <2>1. I \in SUBSET J /\ IsFiniteSet(J) /\ Cardinality(J) = 4
    BY <1>3, <1>6
  <2> HIDE DEF J
  <2>2. Cardinality(I) <= Cardinality(J)
    BY <2>1, FS_Subset
  <2> QED
    BY <2>1, <2>2
<1> QED
  BY <1>1, <1>5, <1>7

(* What a scan that may still go on lacks, it has the steps to read. *)
GoesOn(x, scope, max, scan, n) ==
    \/ scan.left = <<>> /\ Len(scan.records) >= max
    \/ Exact(x, scan, scope) /\ PagesToGo(x, scan) + n <= Len(x) + 4

(* A step of a scan of compatible records keeps GoesOn. *)
LEMMA ScanStep ==
    ASSUME NEW S, NEW x \in Seq(S), NEW scope, NEW U, U \subseteq S,
           NEW pageSize \in Nat \ {0}, NEW max \in Nat,
           \A i \in 1..Len(x) : x[i].type \in scope => x[i].compatible,
           \A r \in S : r.compatible /\ r.type \in scope => r \in U,
           NEW scan \in Scans(scope, U, max), scan.left # <<>>,
           NEW n \in 1 .. Len(x) + 4, GoesOn(x, scope, max, scan, n - 1),
           NEW s, s = ReadPage(x, scan, pageSize, max)
    PROVE  GoesOn(x, scope, max, s, n)
<1>1. ScanTyped(scan, scope, U, max) /\ s \in Scans(scope, U, max)
  BY ReadPageScans DEF Scans
<1>2. Len(s.records) \in Nat /\ Len(x) \in Nat
  <2>1. s.records \in Seq(U)
    BY <1>1 DEF Scans, ScanTyped
  <2> QED
    BY <2>1, LenProperties
<1>3. CASE Len(s.records) >= max
  <2>1. s.left = <<>>
    BY <1>1, <1>3 DEF Scans, ScanTyped
  <2> QED
    BY <1>3, <2>1 DEF GoesOn
<1>4. CASE Len(s.records) < max
  <2>1. Exact(x, scan, scope) /\ PagesToGo(x, scan) + (n - 1) <= Len(x) + 4
    BY DEF GoesOn
  <2>2. Exact(x, s, scope)
    BY <1>1, <1>4, <2>1, ReadPageExact
  <2>3. scan.offset <= Len(StoredOf(x, Head(scan.left)))
    BY <2>1 DEF Exact
  <2>4. PagesToGo(x, scan) \in Nat \ {0} /\ PagesToGo(x, s) < PagesToGo(x, scan)
    BY <1>1, <2>3, ReadPageShrinks
  <2>5. PagesToGo(x, s) \in Int
    <3>1. ScanTyped(s, scope, U, max)
      BY <1>1 DEF Scans
    <3> QED
      BY <3>1, PagesToGoInt
  <2>6. PagesToGo(x, s) + n <= Len(x) + 4
    BY <1>2, <2>1, <2>4, <2>5
  <2> QED
    BY <2>2, <2>6 DEF GoesOn
<1> QED
  <2>1. max \in Nat
    OBVIOUS
  <2> QED
    BY <1>2, <1>3, <1>4, <2>1

(* The elements of a sequence are finitely many. *)
LEMMA ElementsFinite ==
    ASSUME NEW S, NEW s \in Seq(S)
    PROVE  IsFiniteSet(Elements(s))
<1> DEFINE f == [k \in 1..Len(s) |-> s[k]]
<1>1. Len(s) \in Nat
  BY LenProperties
<1>2. IsFiniteSet(1..Len(s))
  BY <1>1, FS_Interval
<1>3. f \in Surjection(1..Len(s), Elements(s))
  BY DEF Surjection, Elements
<1> QED
  BY <1>2, <1>3, FS_Surjection

(* A scan gives finitely many records of its types; and one that says it is *)
(* complete gives all of them, unless it met one that is dropped: every     *)
(* page takes a record or ends a partition, so that it comes to an end.     *)
ScanHolds(S, x, scope, r) ==
    /\ IsFiniteSet(r.records)
    /\ \A d \in r.records : d \in S /\ d.type \in scope
    /\ (r.complete /\ \A i \in 1..Len(x) : x[i].type \in scope => x[i].compatible) =>
          r.records = {d \in Elements(x) : d.type \in scope}

LEMMA ScanFacts ==
    ASSUME NEW S, NEW x \in Seq(S), NEW scope \in SUBSET SourceTypes,
           NEW pageSize \in Nat \ {0}, NEW max \in Nat \ {0},
           NEW r, r = Scan(x, scope, pageSize, max)
    PROVE  ScanHolds(S, x, scope, r)
<1> DEFINE U == {d \in S : d.compatible /\ d.type \in scope}
<1> DEFINE N == Len(x) + 4
<1>1. /\ U \subseteq S /\ \A d \in S : d.compatible /\ d.type \in scope => d \in U
      /\ \A d \in U : d.type \in scope
  OBVIOUS
<1>2. N \in Nat /\ Len(x) \in Nat
  BY LenProperties
<1> HIDE DEF U
<1>3. PICK after : IsScan(x, scope, pageSize, max, after) /\ r = Result(x, max, after)
  <2>1. pageSize \in Nat
    OBVIOUS
  <2>2. \A d \in S : d.compatible /\ d.type \in scope => d \in U
    BY <1>1
  <2>3. \E after : IsScanned(x, scope, pageSize, max, after)
    BY <2>1, <2>2, ScanIs
  <2> QED
    BY <2>3 DEF IsScanned
<1> DEFINE start == [left |-> Partitions(scope), offset |-> 0, records |-> << >>]
<1>4. after = [n \in 0..N |->
         IF n = 0 THEN start
         ELSE IF after[n - 1].left = << >> THEN after[n - 1]
              ELSE ReadPage(x, after[n - 1], pageSize, max)]
  BY <1>3, Zenon DEF IsScan
<1>5. ScanTyped(start, scope, U, max) /\ Exact(x, start, scope) /\ Left(start) = scope
  BY <1>1, ScanBegins
<1>6. start \in Scans(scope, U, max)
  <2>1. start.left \in Seq(scope) /\ start.records \in Seq(U)
    BY <1>5 DEF ScanTyped
  <2>2. start \in [left : Seq(scope), offset : Nat, records : Seq(U)]
    BY <2>1
  <2> HIDE DEF start
  <2> QED
    BY <1>5, <2>2 DEF Scans
<1>7. PagesToGo(x, start) <= Len(x) + 4
  <2>1. Len(start.left) \in Nat /\ Len(start.left) <= 4 /\ start.offset = 0
    <3>1. start.left = Partitions(scope) /\ Partitions(scope) \in Seq(scope)
      BY PartitionFacts
    <3>2. Len(Partitions(scope)) <= 4
      BY PartitionCount
    <3> QED
      BY <3>1, <3>2, LenProperties
  <2> HIDE DEF start
  <2>2. CASE start.left = <<>>
    BY <1>2, <2>2 DEF PagesToGo
  <2>3. CASE start.left # <<>>
    <3>1. 1 \in 1..Len(start.left)
      <4>1. start.left \in Seq(scope)
        BY <1>5 DEF ScanTyped
      <4> QED
        BY <2>1, <2>3, <4>1, EmptySeq
    <3>2. start.left[1] \in Left(start)
      BY <3>1 DEF Left
    <3>3. Cardinality(Positions(x, Left(start))) \in Nat /\ Cardinality(Positions(x, Left(start))) <= Len(x)
      BY <3>2, PositionsFacts
    <3> QED
      BY <1>2, <2>1, <2>3, <3>3 DEF PagesToGo
  <2> QED
    BY <2>2, <2>3
<1> HIDE DEF start, N
<1>8. after[0] = start /\ 0 \in 0..N
  BY <1>2, <1>4
<1>9. \A n \in 1..N : after[n] = IF after[n - 1].left = << >> THEN after[n - 1]
                                 ELSE ReadPage(x, after[n - 1], pageSize, max)
  BY <1>2, <1>4
<1>10. \A n \in 0..N : after[n] \in Scans(scope, U, max)
  <2> DEFINE I == {n \in 0..N : after[n] \in Scans(scope, U, max)}
  <2>1. 0 \in I
    BY <1>6, <1>8
  <2>2. ASSUME NEW n \in 1..N, n - 1 \in I PROVE n \in I
    <3>1. after[n - 1] \in Scans(scope, U, max)
      BY <2>2
    <3>2. CASE after[n - 1].left = << >>
      BY <1>9, <3>1, <3>2
    <3>3. CASE after[n - 1].left # << >>
      <4>1. ReadPage(x, after[n - 1], pageSize, max) \in Scans(scope, U, max)
        BY <1>1, <3>1, <3>3, ReadPageScans
      <4> QED
        BY <1>9, <3>3, <4>1
    <3> QED
      BY <3>2, <3>3
  <2>3. I \in SUBSET (0..N)
    OBVIOUS
  <2> HIDE DEF I
  <2>4. I = 0..N
    BY <1>2, <2>1, <2>2, <2>3, UpToTheLast
  <2> QED
    BY <2>4 DEF I
<1> DEFINE last == after[N]
<1>11. last \in Scans(scope, U, max)
  BY <1>2, <1>10
<1>12. /\ r.records = {last.records[i] : i \in DOMAIN last.records}
       /\ r.complete = ~Ceiling(last.records, max)
  BY <1>3 DEF N, Result
<1>13. ASSUME \A i \in 1..Len(x) : x[i].type \in scope => x[i].compatible
       PROVE  GoesOn(x, scope, max, last, N)
  <2> DEFINE I == {n \in 0..N : GoesOn(x, scope, max, after[n], n)}
  <2>1. 0 \in I
    <3>1. PagesToGo(x, start) + 0 <= Len(x) + 4
      <4>1. PagesToGo(x, start) \in Int
        BY <1>5, PagesToGoInt
      <4> QED
        BY <1>7, <4>1
    <3> QED
      BY <1>5, <1>8, <3>1 DEF GoesOn
  <2>2. ASSUME NEW n \in 1..N, n - 1 \in I PROVE n \in I
    <3>1. after[n - 1] \in Scans(scope, U, max) /\ GoesOn(x, scope, max, after[n - 1], n - 1)
      BY <1>10, <2>2
    <3>2. CASE after[n - 1].left = << >>
      <4>1. GoesOn(x, scope, max, after[n - 1], n)
        <5>1. PagesToGo(x, after[n - 1]) + n <= Len(x) + 4
          BY <1>2, <3>2 DEF PagesToGo, N
        <5> QED
          BY <3>1, <5>1 DEF GoesOn
      <4> QED
        BY <1>9, <3>2, <4>1
    <3>3. CASE after[n - 1].left # << >>
      <4>1. n \in 1 .. Len(x) + 4
        BY DEF N
      <4>2. GoesOn(x, scope, max, ReadPage(x, after[n - 1], pageSize, max), n)
        BY <1>1, <1>13, <3>1, <3>3, <4>1, ScanStep
      <4> QED
        BY <1>9, <3>3, <4>2
    <3> QED
      BY <3>2, <3>3
  <2>3. I \in SUBSET (0..N)
    OBVIOUS
  <2> HIDE DEF I
  <2>4. I = 0..N
    BY <1>2, <2>1, <2>2, <2>3, UpToTheLast
  <2> QED
    BY <1>2, <2>4 DEF I
<1> HIDE DEF last
<1>14. ScanTyped(last, scope, U, max) /\ last.records \in Seq(U)
  BY <1>11 DEF Scans, ScanTyped
<1>15. r.records = Elements(last.records)
  <2>1. DOMAIN last.records = 1..Len(last.records)
    BY <1>14, LenProperties
  <2> QED
    BY <1>12, <2>1 DEF Elements
<1>16. IsFiniteSet(r.records)
  BY <1>14, <1>15, ElementsFinite
<1>17. \A d \in r.records : d \in S /\ d.type \in scope
  <2>1. \A d \in r.records : d \in U
    BY <1>14, <1>15, ElementOfSeq DEF Elements
  <2> QED
    BY <1>1, <2>1
<1>18. ASSUME r.complete, \A i \in 1..Len(x) : x[i].type \in scope => x[i].compatible
       PROVE  r.records = {d \in Elements(x) : d.type \in scope}
  <2>1. ~(Len(last.records) >= max)
    BY <1>12, <1>18 DEF Ceiling
  <2>2. Exact(x, last, scope) /\ PagesToGo(x, last) + N <= Len(x) + 4
    BY <1>13, <1>18, <2>1 DEF GoesOn
  <2>3. last.left = <<>>
    <3> SUFFICES ASSUME last.left # <<>> PROVE FALSE
      OBVIOUS
    <3> DEFINE s == ReadPage(x, last, pageSize, max)
    <3>1. last.offset <= Len(StoredOf(x, Head(last.left)))
      BY <2>2 DEF Exact
    <3>2. PagesToGo(x, last) \in Nat \ {0}
      BY <1>14, <3>1, ReadPageShrinks
    <3> QED
      BY <1>2, <2>2, <3>2 DEF N
  <2> QED
    BY <1>15, <2>2, <2>3, ScanEnds
<1> QED
  BY <1>16, <1>17, <1>18 DEF ScanHolds

-----------------------------------------------------------------------------
(* The pages of a list *)

(* The first n items of a list. *)
Leading(items, n) == {i \in items : Rank(items, i) < n}

(* An item has fewer before it than there are, and fewer than a later one. *)
LEMMA ItemRanks ==
    ASSUME NEW items \in SUBSET Nat, IsFiniteSet(items)
    PROVE  /\ Cardinality(items) \in Nat
           /\ \A i \in items : Rank(items, i) \in Nat /\ Rank(items, i) < Cardinality(items)
           /\ \A i, j \in items : i < j => Rank(items, i) < Rank(items, j)
<1>1. Cardinality(items) \in Nat
  BY FS_CardinalityType
<1>2. ASSUME NEW i \in items
      PROVE  /\ {j \in items : j < i} \in SUBSET items
             /\ IsFiniteSet({j \in items : j < i}) /\ Rank(items, i) \in Nat
  <2> DEFINE B == {j \in items : j < i}
  <2>1. B \in SUBSET items
    OBVIOUS
  <2>2. IsFiniteSet(B)
    BY <2>1, FS_Subset
  <2>3. Cardinality(B) \in Nat
    BY <2>2, FS_CardinalityType
  <2> QED
    BY <2>1, <2>2, <2>3 DEF Rank
<1>3. ASSUME NEW S \in SUBSET items, NEW T \in SUBSET S, S # T
      PROVE  Cardinality(T) < Cardinality(S)
  <2>1. IsFiniteSet(S)
    BY FS_Subset
  <2>2. Cardinality(T) <= Cardinality(S) /\ Cardinality(T) # Cardinality(S) /\ IsFiniteSet(T)
    BY <1>3, <2>1, FS_Subset
  <2>3. Cardinality(T) \in Nat /\ Cardinality(S) \in Nat
    BY <2>1, <2>2, FS_CardinalityType
  <2> QED
    BY <2>2, <2>3
<1>4. ASSUME NEW i \in items
      PROVE  Rank(items, i) < Cardinality(items)
  <2> DEFINE B == {j \in items : j < i}
  <2>1. B \in SUBSET items /\ i \notin B
    OBVIOUS
  <2> HIDE DEF B
  <2>2. Cardinality(B) < Cardinality(items)
    BY <1>3, <2>1
  <2> QED
    BY <2>2 DEF B, Rank
<1>5. ASSUME NEW i \in items, NEW j \in items, i < j
      PROVE  Rank(items, i) < Rank(items, j)
  <2> DEFINE B == {k \in items : k < i}
  <2> DEFINE C == {k \in items : k < j}
  <2>1. i \in C /\ i \notin B /\ C \in SUBSET items
    BY <1>5
  <2>2. B \in SUBSET C
    <3>1. \A k \in items : k < i => k < j
      BY <1>5
    <3> QED
      BY <3>1
  <2> HIDE DEF B, C
  <2>3. Cardinality(B) < Cardinality(C)
    BY <1>3, <2>1, <2>2
  <2> QED
    BY <2>3 DEF B, C, Rank
<1> QED
  BY <1>1, <1>2, <1>4, <1>5

(* There are n first n items: after the first n - 1, the least of the rest *)
(* is the next one.                                                        *)
LEMMA LeadingCount ==
    ASSUME NEW items \in SUBSET Nat, IsFiniteSet(items), NEW n \in 0..Cardinality(items)
    PROVE  IsFiniteSet(Leading(items, n)) /\ Cardinality(Leading(items, n)) = n
<1> DEFINE N == Cardinality(items)
<1> DEFINE I == {k \in 0..N : Cardinality(Leading(items, k)) = k}
<1>1. /\ N \in Nat
      /\ \A i \in items : Rank(items, i) \in Nat /\ Rank(items, i) < N
      /\ \A i, j \in items : i < j => Rank(items, i) < Rank(items, j)
  BY ItemRanks
<1>2. \A k : Leading(items, k) \in SUBSET items /\ IsFiniteSet(Leading(items, k))
  <2> TAKE k
  <2>1. Leading(items, k) \in SUBSET items
    BY DEF Leading
  <2> QED
    BY <2>1, FS_Subset
<1>3. 0 \in I
  <2>1. Leading(items, 0) = {}
    <3>1. \A i \in items : ~(Rank(items, i) < 0)
      BY <1>1
    <3> QED
      BY <3>1 DEF Leading
  <2> QED
    BY <1>1, <2>1, FS_EmptySet
<1>4. ASSUME NEW k \in 1..N, k - 1 \in I
      PROVE  k \in I
  <2> DEFINE L == Leading(items, k - 1)
  <2>1. Cardinality(L) = k - 1 /\ k - 1 \in Nat /\ k - 1 < N
    BY <1>1, <1>4
  <2>2. items \ L # {}
    <3>1. L # items
      BY <2>1
    <3>2. L \in SUBSET items
      BY <1>2
    <3> QED
      BY <3>1, <3>2
  <2>3. PICK m \in items \ L : \A i \in items \ L : m <= i
    <3>1. items \ L \in SUBSET Nat
      OBVIOUS
    <3> HIDE DEF L
    <3> QED
      BY <2>2, <3>1, Smallest
  <2>4. m \in items /\ m \in Nat /\ ~(Rank(items, m) < k - 1) /\ Rank(items, m) \in Nat
    BY <1>1, <2>3 DEF Leading
  <2>5. {j \in items : j < m} = L
    <3>1. ASSUME NEW j \in items, j < m
          PROVE  j \in L
      <4>1. ~(m <= j)
        BY <2>4, <3>1
      <4> QED
        BY <2>3, <4>1
    <3>2. ASSUME NEW j \in L
          PROVE  j \in items /\ j < m
      <4>1. j \in items /\ Rank(items, j) < k - 1 /\ Rank(items, j) \in Nat /\ j \in Nat
        BY <1>1 DEF Leading
      <4>2. CASE m < j
        <5>1. Rank(items, m) < Rank(items, j)
          BY <1>1, <2>4, <4>1, <4>2
        <5> QED
          BY <2>1, <2>4, <4>1, <5>1
      <4>3. CASE m = j
        BY <2>4, <4>1, <4>3
      <4> QED
        BY <2>4, <4>1, <4>2, <4>3
    <3> QED
      BY <3>1, <3>2
  <2>6. Rank(items, m) = k - 1
    BY <2>1, <2>5 DEF Rank
  <2>7. Leading(items, k) = L \cup {m}
    <3>1. ASSUME NEW i \in items
          PROVE  Rank(items, i) < k <=> Rank(items, i) < k - 1 \/ i = m
      <4>1. Rank(items, i) \in Nat /\ i \in Nat
        BY <1>1
      <4>2. Rank(items, i) = k - 1 => i = m
        <5>1. ~(i < m) \/ Rank(items, i) < Rank(items, m)
          BY <1>1, <2>4
        <5>2. ~(m < i) \/ Rank(items, m) < Rank(items, i)
          BY <1>1, <2>4
        <5> QED
          BY <2>4, <2>6, <4>1, <5>1, <5>2
      <4> QED
        BY <2>6, <4>1, <4>2
    <3> QED
      BY <2>4, <3>1 DEF Leading
  <2>8. IsFiniteSet(L) /\ m \notin L
    BY <1>2, <2>3
  <2> HIDE DEF L
  <2>9. Cardinality(L \cup {m}) = Cardinality(L) + 1
    BY <2>8, FS_AddElement
  <2>10. Cardinality(Leading(items, k)) = k
    BY <2>1, <2>7, <2>9
  <2> QED
    BY <2>10
<1>5. I \in SUBSET (0..N)
  OBVIOUS
<1> HIDE DEF I
<1>6. I = 0..N
  BY <1>1, <1>3, <1>4, <1>5, UpToTheLast
<1> QED
  BY <1>2, <1>6 DEF I

(* The page after the first `offset' items goes on where they end: the     *)
(* items up to its end are the leading ones, and if it ends at the last    *)
(* there are no others.                                                    *)
PageGoesOn(items, offset, limit) ==
    LET end == offset + Cardinality(Page(items, offset, limit))
    IN  /\ end \in Nat /\ end <= Cardinality(items)
        /\ Page(items, 0, offset) \cup Page(items, offset, limit) = Page(items, 0, end)
        /\ end = Cardinality(items) => Page(items, 0, end) = items

LEMMA PagesGoOn ==
    ASSUME NEW items \in SUBSET Nat, IsFiniteSet(items),
           NEW offset \in Nat, offset <= Cardinality(items), NEW limit \in Nat
    PROVE  PageGoesOn(items, offset, limit)
<1> DEFINE N == Cardinality(items)
<1> DEFINE page == Page(items, offset, limit)
<1> DEFINE last == IF offset + limit <= N THEN offset + limit ELSE N
<1>1. N \in Nat /\ \A i \in items : Rank(items, i) \in Nat /\ Rank(items, i) < N
  BY ItemRanks
<1>2. last \in 0..N /\ offset \in 0..N /\ offset <= last /\ last \in Nat
  BY <1>1
<1>3. \A k \in Nat : Page(items, 0, k) = Leading(items, k)
  <2> TAKE k \in Nat
  <2>1. \A i \in items : (0 <= Rank(items, i) /\ Rank(items, i) < 0 + k) <=> Rank(items, i) < k
    BY <1>1
  <2> QED
    BY <2>1 DEF Page, Leading
<1>4. \A i \in items : Rank(items, i) < offset + limit <=> Rank(items, i) < last
  BY <1>1
<1> HIDE DEF last
<1>5. page = Leading(items, last) \ Leading(items, offset)
  <2>1. \A i \in items : offset <= Rank(items, i) <=> ~(Rank(items, i) < offset)
    BY <1>1
  <2> QED
    BY <1>4, <2>1 DEF Page, Leading
<1>6. Leading(items, offset) \in SUBSET Leading(items, last)
  <2>1. \A i \in items : Rank(items, i) < offset => Rank(items, i) < last
    BY <1>1, <1>2
  <2> QED
    BY <2>1 DEF Leading
<1>7. /\ IsFiniteSet(Leading(items, last)) /\ Cardinality(Leading(items, last)) = last
      /\ IsFiniteSet(Leading(items, offset)) /\ Cardinality(Leading(items, offset)) = offset
  BY <1>2, LeadingCount
<1>8. Cardinality(page) = last - offset
  <2> DEFINE A == Leading(items, last)
  <2> DEFINE B == Leading(items, offset)
  <2>1. IsFiniteSet(A) /\ IsFiniteSet(B) /\ B \in SUBSET A /\ Cardinality(A) = last /\ Cardinality(B) = offset
    BY <1>6, <1>7
  <2> HIDE DEF A, B
  <2>2. A \cap B = B
    BY <2>1
  <2>3. Cardinality(A \ B) = Cardinality(A) - Cardinality(A \cap B)
    BY <2>1, FS_Difference
  <2>4. Cardinality(A \ B) = last - offset
    BY <2>1, <2>2, <2>3
  <2> QED
    BY <1>5, <2>4 DEF A, B
<1> HIDE DEF page
<1>9. offset + Cardinality(page) = last
  BY <1>2, <1>8
<1>10. Page(items, 0, offset) \cup page = Page(items, 0, last)
  BY <1>2, <1>3, <1>5, <1>6
<1>11. last = N => Page(items, 0, last) = items
  <2>1. Leading(items, N) = items
    BY <1>1 DEF Leading
  <2> QED
    BY <1>2, <1>3, <2>1
<1> QED
  BY <1>2, <1>9, <1>10, <1>11 DEF PageGoesOn, page

-----------------------------------------------------------------------------
(* The structured queries *)

(* What a cached corpus of scope s is, as read by ScanFacts. *)
StoredIn(index, s) == {r \in {index[i] : i \in DOMAIN index} : r.type \in s}
LoadHolds(c, s) ==
    /\ c.index \in IndexStates
    /\ IsFiniteSet(c.records)
    /\ \A r \in c.records : r \in Chunks /\ r.type \in s
    /\ c.complete /\ (\A r \in StoredIn(c.index, s) : r.compatible)
          => c.records = StoredIn(c.index, s)

LEMMA LoadFacts ==
    ASSUME settings \in Deployments, NEW index \in IndexStates, NEW s \in Scopes
    PROVE  LoadHolds(Load(index, s), s)
<1> DEFINE scan == Scan(index, s, settings.pageSize, settings.maxRecords)
<1>1. index \in Seq(Chunks)
  BY ChunksAssumption
<1>2. s \in SUBSET SourceTypes
  BY DEF Scopes, SourceTypes
<1>3. settings.pageSize \in Nat \ {0} /\ settings.maxRecords \in Nat \ {0}
  BY DeploymentsAssumption
<1>4. Load(index, s) = [index |-> index, complete |-> scan.complete, records |-> scan.records]
  BY DEF Load
<1> HIDE DEF scan
<1>5. ScanHolds(Chunks, index, s, scan)
  BY <1>1, <1>2, <1>3, ScanFacts DEF scan
<1>6. StoredIn(index, s) = {d \in Elements(index) : d.type \in s}
  <2>1. DOMAIN index = 1..Len(index)
    BY <1>1, LenProperties
  <2> QED
    BY <2>1 DEF StoredIn, Elements
<1>7. (\A r \in StoredIn(index, s) : r.compatible)
        => \A i \in 1..Len(index) : index[i].type \in s => index[i].compatible
  BY <1>6 DEF Elements
<1>8. /\ Load(index, s).index = index /\ Load(index, s).records = scan.records
      /\ Load(index, s).complete = scan.complete
  BY <1>4
<1>9. /\ IsFiniteSet(scan.records) /\ \A r \in scan.records : r \in Chunks /\ r.type \in s
      /\ scan.complete /\ (\A r \in StoredIn(index, s) : r.compatible)
            => scan.records = StoredIn(index, s)
  BY <1>5, <1>6, <1>7 DEF ScanHolds
<1> QED
  BY <1>8, <1>9, Zenon DEF LoadHolds

(* The result set of a query is a finite set of numbers. *)
LEMMA PopulationFacts ==
    ASSUME NEW query, NEW records, IsFiniteSet(records), \A r \in records : r \in Chunks
    PROVE  Population(query, records) \in SUBSET Nat /\ IsFiniteSet(Population(query, records))
<1>1. ASSUME NEW T \in SUBSET records
      PROVE  {r.item : r \in T} \in SUBSET Nat /\ IsFiniteSet({r.item : r \in T})
  <2> DEFINE items == {r.item : r \in T}
  <2> DEFINE f == [r \in T |-> r.item]
  <2>1. items \in SUBSET Nat
    BY ChunksAssumption
  <2>2. IsFiniteSet(T)
    BY FS_Subset
  <2>3. f \in Surjection(T, items)
    BY DEF Surjection
  <2> HIDE DEF f, items
  <2>4. IsFiniteSet(items)
    BY <2>2, <2>3, FS_Surjection
  <2> QED
    BY <2>1, <2>4 DEF items
<1>2. CASE query.operation \in SectionOperations
  <2> DEFINE T == {c \in records : /\ InSection(c, SectionKind(query))
                                   /\ Matches(c, Dropping(query.filters, {"section_kind"}))}
  <2>1. T \in SUBSET records /\ Population(query, records) = {r.item : r \in T}
    BY <1>2 DEF Population, MatchedSections
  <2> HIDE DEF T
  <2> QED
    BY <1>1, <2>1
<1>3. CASE query.operation \notin SectionOperations
  <2> DEFINE current == Current(records)
  <2> DEFINE filters == ResolveTopic(ResolveFixed(query.filters, current), current)
  <2> DEFINE T == {c \in current : Matches(c, filters)}
  <2>1. T \in SUBSET records
    BY DEF Current
  <2>2. Population(query, records) = {r.item : r \in T}
    BY <1>3 DEF Population, MatchedTickets
  <2> HIDE DEF T
  <2> QED
    BY <1>1, <2>1, <2>2
<1> QED
  BY <1>2, <1>3

(* Two queries that differ in what they show of a result set only: they    *)
(* read the same corpus and have the same result set.                      *)
Kin(a, b) ==
    /\ a.filters = b.filters
    /\ a.operation \in SectionOperations <=> b.operation \in SectionOperations
    /\ a.operation \in {"OVERVIEW", "DETAIL"} <=> b.operation \in {"OVERVIEW", "DETAIL"}
    /\ SectionKind(a) = SectionKind(b)

LEMMA KinLookAlike ==
    ASSUME NEW a, NEW b, Kin(a, b)
    PROVE  /\ ScannedTypes(a) = ScannedTypes(b)
           /\ \A records : Population(a, records) = Population(b, records)
<1>1. CASE a.operation \in SectionOperations
  BY <1>1 DEF Kin, ScannedTypes, Population, MatchedSections
<1>2. CASE a.operation \notin SectionOperations
  <2>1. \A records : Population(a, records) = Population(b, records)
    BY <1>2 DEF Kin, Population, MatchedTickets
  <2>2. CASE a.operation \in {"OVERVIEW", "DETAIL"}
    BY <1>2, <2>1, <2>2 DEF Kin, ScannedTypes
  <2>3. CASE a.operation \notin {"OVERVIEW", "DETAIL"}
    BY <1>2, <2>1, <2>3 DEF Kin, ScannedTypes
  <2> QED
    BY <2>2, <2>3
<1> QED
  BY <1>1, <1>2

LEMMA ScannedIsAScope ==
    ASSUME NEW query
    PROVE  ScannedTypes(query) \in Scopes
  BY DEF ScannedTypes, Scopes

(* The section a query names is the one its filters accept. *)
Sectioned(query) ==
    query.section \in {"", CHOOSE kind \in query.filters["section_kind"] : TRUE}

LEMMA SectionIsFiltered ==
    ASSUME NEW query, Sectioned(query)
    PROVE  SectionKind(query) = CHOOSE kind \in query.filters["section_kind"] : TRUE
  BY DEF Sectioned, SectionKind

(* A query made from the question alone: its first page. *)
Names(filters, section) ==
    section # "" => "section_kind" \in DOMAIN filters /\ filters["section_kind"] = {section}
IsFirst(query) ==
    \E operation \in Operations, limit \in Nat \ {0} : \E filters, section :
        /\ query = Query(operation, filters, section, limit)
        /\ Names(filters, section)

LEMMA FirstHas ==
    ASSUME NEW operation \in Operations, NEW filters, NEW section, NEW limit \in Nat \ {0},
           Names(filters, section)
    PROVE  IsFirst(Query(operation, filters, section, limit))
  BY DEF IsFirst

LEMMA FirstQuery ==
    ASSUME NEW q, NEW assumeJira, JiraStructuredQuery(q, assumeJira) # NoQuery
    PROVE  IsFirst(JiraStructuredQuery(q, assumeJira))
<1> DEFINE keyed == Present([issue_key |-> q.keys])
<1> DEFINE query == JiraStructuredQuery(q, assumeJira)
<1> DEFINE detail == Query("DETAIL", keyed, "", DefaultPage)
<1> DEFINE filters == Updated(Single("section_kind", {q.section}), keyed)
<1> DEFINE op == IF "count" \in q.says THEN "SECTION_COUNT" ELSE "SECTION"
<1> DEFINE section == Query(op, filters, q.section, SectionPage)
<1> DEFINE aggregate ==
        Query(AggregateOperation(q), Updated(AggregateFilters(q), keyed), "", DefaultPage)
<1>1. \/ query = detail
      \/ query = section
      \/ query = aggregate /\ AggregateOperation(q) # "NONE"
  BY DEF JiraStructuredQuery
<1>2. DefaultPage \in Nat \ {0} /\ SectionPage \in Nat \ {0}
  BY DEF DefaultPage, SectionPage
<1>3. IsFirst(detail)
  <2>1. "DETAIL" \in Operations
    BY DEF Operations
  <2> HIDE DEF keyed
  <2>2. Names(keyed, "")
    BY DEF Names
  <2> QED
    BY <1>2, <2>1, <2>2, FirstHas
<1>4. IsFirst(section)
  <2>1. op \in Operations
    BY DEF Operations, SectionOperations
  <2>2. "section_kind" \notin DOMAIN keyed
    <3>1. DOMAIN keyed \subseteq {"issue_key"}
      BY DEF Present
    <3> HIDE DEF keyed
    <3> QED
      BY <3>1
  <2> HIDE DEF keyed
  <2>3. "section_kind" \in DOMAIN filters /\ filters["section_kind"] = {q.section}
    BY <2>2 DEF Updated, Single
  <2> HIDE DEF filters, op
  <2>4. Names(filters, q.section)
    BY <2>3 DEF Names
  <2> QED
    BY <1>2, <2>1, <2>4, FirstHas
<1>5. AggregateOperation(q) # "NONE" => IsFirst(aggregate)
  <2> SUFFICES ASSUME AggregateOperation(q) # "NONE" PROVE IsFirst(aggregate)
    OBVIOUS
  <2>1. AggregateOperation(q) \in Operations
    BY DEF AggregateOperation, Operations, TicketOperations
  <2> DEFINE fs == Updated(AggregateFilters(q), keyed)
  <2> HIDE DEF fs
  <2>2. Names(fs, "")
    BY DEF Names
  <2>3. IsFirst(Query(AggregateOperation(q), fs, "", DefaultPage))
    BY <1>2, <2>1, <2>2, FirstHas
  <2> QED
    BY <2>3 DEF fs
<1> HIDE DEF query, detail, section, aggregate
<1>6. IsFirst(query)
  BY <1>1, <1>3, <1>4, <1>5
<1> QED
  BY <1>6 DEF query

(* What a client may hold of the last answer. *)
ScopeOk(scope) ==
    scope.operation \in Operations /\ scope.offset \in Nat /\ scope.limit \in Nat \ {0}

LEMMA FollowupQuery ==
    ASSUME NEW q, NEW scope, ScopeOk(scope), JiraStructuredFollowup(q, scope) # NoQuery
    PROVE  \/ IsFirst(JiraStructuredFollowup(q, scope))
           \/ JiraStructuredFollowup(q, scope) = NextPage(scope)
<1> DEFINE candidate == JiraStructuredQuery(q, TRUE)
<1> DEFINE query == JiraStructuredFollowup(q, scope)
<1> DEFINE filters == IF "issue_key" \in DOMAIN candidate.filters
                      THEN candidate.filters
                      ELSE Inherited(scope.filters, candidate.filters)
<1> DEFINE instead == Updated(scope.filters, Single("labels", q.labels))
<1>1. \/ query = NextPage(scope)
      \/ candidate # NoQuery /\ query = [candidate EXCEPT !.filters = filters, !.limit = scope.limit]
      \/ query = Query(scope.operation, instead, "", scope.limit)
  BY DEF JiraStructuredFollowup
<1>2. IsFirst(Query(scope.operation, instead, "", scope.limit))
  <2> HIDE DEF instead
  <2>1. Names(instead, "")
    BY DEF Names
  <2> QED
    BY <2>1, FirstHas DEF ScopeOk
<1>3. ASSUME candidate # NoQuery
      PROVE  IsFirst([candidate EXCEPT !.filters = filters, !.limit = scope.limit])
  <2>1. IsFirst(candidate)
    BY <1>3, FirstQuery
  <2> HIDE DEF candidate
  <2>2. PICK operation \in Operations, limit \in Nat \ {0} : \E fs, section :
            candidate = Query(operation, fs, section, limit) /\ Names(fs, section)
    BY <2>1 DEF IsFirst
  <2>3. PICK fs, section : candidate = Query(operation, fs, section, limit) /\ Names(fs, section)
    BY <2>2
  <2>4. candidate.filters = fs
    BY <2>3 DEF Query
  <2>5. Names(filters, section)
    <3>1. CASE filters = fs
      BY <2>3, <3>1
    <3>2. CASE filters = Inherited(scope.filters, fs)
      <4> DEFINE old == IF DOMAIN fs \cap StatusFields # {}
                        THEN Dropping(scope.filters, StatusFields) ELSE scope.filters
      <4>1. filters = Updated(old, fs)
        BY <3>2 DEF Inherited
      <4> HIDE DEF old, filters
      <4>2. "section_kind" \in DOMAIN fs
              => "section_kind" \in DOMAIN filters /\ filters["section_kind"] = fs["section_kind"]
        BY <4>1 DEF Updated
      <4> QED
        BY <2>3, <4>2 DEF Names
    <3> QED
      BY <2>4, <3>1, <3>2
  <2> HIDE DEF filters
  <2>6. [candidate EXCEPT !.filters = filters, !.limit = scope.limit]
            = Query(operation, filters, section, scope.limit)
    <3>1. candidate = [operation |-> operation, filters |-> fs, section |-> section,
                       offset |-> 0, limit |-> limit]
      BY <2>3 DEF Query
    <3> DEFINE filtered == [candidate EXCEPT !.filters = filters]
    <3>2. [candidate EXCEPT !.filters = filters, !.limit = scope.limit]
            = [filtered EXCEPT !.limit = scope.limit]
      OBVIOUS
    <3>3. filtered = [operation |-> operation, filters |-> filters, section |-> section,
                      offset |-> 0, limit |-> limit]
      BY <3>1
    <3> HIDE DEF filtered
    <3>4. [filtered EXCEPT !.limit = scope.limit]
            = [operation |-> operation, filters |-> filters, section |-> section,
               offset |-> 0, limit |-> scope.limit]
      BY <3>3
    <3> QED
      BY <3>2, <3>4 DEF Query
  <2>7. IsFirst(Query(operation, filters, section, scope.limit))
    BY <2>5, FirstHas DEF ScopeOk
  <2> QED
    BY <2>6, <2>7
<1> HIDE DEF candidate, query, filters, instead
<1>4. IsFirst(query) \/ query = NextPage(scope)
  BY <1>1, <1>2, <1>3
<1> QED
  BY <1>4 DEF query

(* The query a plan executes is the first page of one, or goes on where    *)
(* the listing that the client holds ends.                                 *)
IsPlanned(query) ==
    /\ query.operation \in Operations /\ query.offset \in Nat /\ query.limit \in Nat \ {0}
    /\ query.limit <= settings.maxListItems
    /\ Sectioned(query)
    /\ query.offset # 0 =>
          structuredScope # NoScope /\ query.offset = structuredScope.offset /\ Kin(query, Listing)

LEMMA FirstIsPlanned ==
    ASSUME settings \in Deployments, NEW query, IsFirst(query)
    PROVE  IsPlanned(Capped(query))
<1>1. PICK operation \in Operations, limit \in Nat \ {0} : \E fs, section :
          query = Query(operation, fs, section, limit) /\ Names(fs, section)
  BY DEF IsFirst
<1>2. PICK fs, section : query = Query(operation, fs, section, limit) /\ Names(fs, section)
  BY <1>1
<1> DEFINE lesser == Lesser(limit, settings.maxListItems)
<1>3. lesser \in Nat \ {0} /\ lesser <= settings.maxListItems
  BY DeploymentsAssumption DEF Lesser
<1> HIDE DEF lesser
<1>4. Capped(query) = Query(operation, fs, section, lesser)
  BY <1>2 DEF Capped, Query, lesser
<1> DEFINE c == Query(operation, fs, section, lesser)
<1>5. /\ c.operation = operation /\ c.filters = fs /\ c.section = section
      /\ c.offset = 0 /\ c.limit = lesser
  BY DEF Query
<1> HIDE DEF c
<1>6. Sectioned(c)
  <2>1. section # "" => section = CHOOSE kind \in fs["section_kind"] : TRUE
    <3> SUFFICES ASSUME section # "" PROVE section = CHOOSE kind \in fs["section_kind"] : TRUE
      OBVIOUS
    <3>1. fs["section_kind"] = {section}
      BY <1>2 DEF Names
    <3>2. \E kind \in fs["section_kind"] : TRUE
      BY <3>1
    <3>3. (CHOOSE kind \in fs["section_kind"] : TRUE) \in fs["section_kind"]
      BY <3>2
    <3> QED
      BY <3>1, <3>3
  <2> QED
    BY <1>5, <2>1 DEF Sectioned
<1>7. IsPlanned(c)
  BY <1>3, <1>5, <1>6 DEF IsPlanned
<1> QED
  BY <1>4, <1>7 DEF c

LEMMA NextIsPlanned ==
    ASSUME settings \in Deployments, structuredScope # NoScope, ScopeOk(structuredScope)
    PROVE  IsPlanned(Capped(NextPage(structuredScope)))
<1> DEFINE scope == structuredScope
<1> DEFINE operation == CASE scope.operation \in TicketOperations -> "LIST"
                          [] scope.operation = "SECTION_COUNT" -> "SECTION"
                          [] OTHER -> scope.operation
<1> DEFINE kind == CHOOSE k \in scope.filters["section_kind"] : TRUE
<1> DEFINE section == IF "section_kind" \in DOMAIN scope.filters THEN kind ELSE ""
<1> DEFINE lesser == Lesser(scope.limit, settings.maxListItems)
<1> DEFINE c == Capped(NextPage(scope))
<1>1. lesser \in Nat \ {0} /\ lesser <= settings.maxListItems
  BY DeploymentsAssumption DEF Lesser, ScopeOk
<1> HIDE DEF lesser
<1>2. NextPage(scope) = [operation |-> operation, filters |-> scope.filters,
                         section |-> section, offset |-> scope.offset, limit |-> scope.limit]
  BY DEF NextPage
<1>3. /\ operation \in Operations
      /\ operation \in SectionOperations <=> scope.operation \in SectionOperations
      /\ operation \in {"OVERVIEW", "DETAIL"} <=> scope.operation \in {"OVERVIEW", "DETAIL"}
  <2>1. CASE scope.operation \in TicketOperations
    BY <2>1 DEF Operations, TicketOperations, SectionOperations
  <2>2. CASE scope.operation = "SECTION_COUNT"
    BY <2>2 DEF Operations, TicketOperations, SectionOperations
  <2>3. CASE scope.operation \notin TicketOperations /\ scope.operation # "SECTION_COUNT"
    <3>1. operation = scope.operation
      BY <2>3
    <3> QED
      BY <3>1 DEF ScopeOk
  <2> QED
    BY <2>1, <2>2, <2>3
<1> HIDE DEF operation
<1>4. section \in {"", kind}
  OBVIOUS
<1> HIDE DEF section, kind
<1>5. c = [operation |-> operation, filters |-> scope.filters, section |-> section,
           offset |-> scope.offset, limit |-> lesser]
  BY <1>2 DEF Capped, lesser
<1> HIDE DEF c
<1>6. /\ c.operation = operation /\ c.filters = scope.filters /\ c.section = section
      /\ c.offset = scope.offset /\ c.limit = lesser
  BY <1>5
<1>7. /\ Listing.operation = scope.operation /\ Listing.filters = scope.filters
      /\ Listing.section = ""
  BY DEF Listing
<1>8. Sectioned(c) /\ Sectioned(Listing)
  BY <1>4, <1>6, <1>7 DEF Sectioned, kind
<1>9. SectionKind(c) = SectionKind(Listing)
  <2>1. /\ SectionKind(c) = CHOOSE k \in c.filters["section_kind"] : TRUE
        /\ SectionKind(Listing) = CHOOSE k \in Listing.filters["section_kind"] : TRUE
    BY <1>8, SectionIsFiltered
  <2> QED
    BY <1>6, <1>7, <2>1
<1>10. Kin(c, Listing)
  BY <1>3, <1>6, <1>7, <1>9 DEF Kin
<1>11. IsPlanned(c)
  BY <1>1, <1>3, <1>6, <1>8, <1>10 DEF IsPlanned, ScopeOk
<1> QED
  BY <1>11 DEF c

LEMMA PlanFacts ==
    ASSUME settings \in Deployments, structuredScope = NoScope \/ ScopeOk(structuredScope),
           NEW q, NEW plan, plan = ProviderPlan(q), plan.mode = "STRUCTURED"
    PROVE  IsPlanned(plan.query)
<1> DEFINE enabled == IF settings.router THEN settings.enabled ELSE {}
<1> DEFINE known == IF settings.conversation THEN structuredScope ELSE NoScope
<1> DEFINE selection == SelectProviders(q, enabled, known)
<1>1. selection.mode = "STRUCTURED" /\ plan.query = Capped(selection.query)
  <2>1. \A m, p, x, y : LET s == Selection(m, p, x, y)
                        IN  s.mode = m /\ s.query = x
    BY DEF Selection
  <2>2. \E m, p, x, y : selection = Selection(m, p, x, y)
    BY DEF SelectProviders
  <2>3. PICK m, p, x, y : selection = Selection(m, p, x, y)
    BY <2>2
  <2> HIDE DEF selection
  <2>4. plan = CASE selection.mode = "STRUCTURED" /\ settings.structured ->
                      [selection EXCEPT !.query = Capped(@)]
                [] \/ selection.mode = "STRUCTURED" /\ ~settings.structured
                   \/ selection.mode = "FEDERATED" /\ ~settings.federation ->
                      [selection EXCEPT !.mode = "LEGACY", !.query = NoQuery]
                [] OTHER -> selection
    BY DEF ProviderPlan, selection
  <2>5. CASE selection.mode = "STRUCTURED" /\ settings.structured
    <3>1. plan = [selection EXCEPT !.query = Capped(@)]
      BY <2>4, <2>5
    <3> QED
      BY <2>3, <2>5, <3>1 DEF Selection
  <2>6. CASE \/ selection.mode = "STRUCTURED" /\ ~settings.structured
             \/ selection.mode = "FEDERATED" /\ ~settings.federation
    <3>1. plan = [selection EXCEPT !.mode = "LEGACY", !.query = NoQuery]
      BY <2>4, <2>6
    <3>2. plan.mode = "LEGACY"
      BY <2>3, <3>1 DEF Selection
    <3> QED
      BY <3>2
  <2>7. CASE selection.mode # "STRUCTURED" /\ (selection.mode = "FEDERATED" => settings.federation)
    <3>1. plan = selection
      BY <2>4, <2>7
    <3> QED
      BY <2>7, <3>1
  <2> QED
    BY <2>5, <2>6, <2>7
<1> DEFINE fresh == IF "JIRA" \in enabled
                    THEN JiraStructuredQuery(q, Cardinality(enabled) = 1) ELSE NoQuery
<1> DEFINE inherited == /\ fresh = NoQuery /\ known # NoScope
                        /\ Requested(q) = {} /\ "JIRA" \in enabled
<1> DEFINE query == IF inherited THEN JiraStructuredFollowup(q, known) ELSE fresh
<1>2. selection.query = query /\ query # NoQuery
  <2> DEFINE first == Requested(q) \ enabled # {}
  <2>1. selection = IF first
        THEN Selection("UNAVAILABLE", Requested(q) \ enabled, NoQuery, FALSE)
        ELSE IF query # NoQuery
        THEN Selection("STRUCTURED", {"JIRA"}, query, inherited)
        ELSE IF Cardinality(Requested(q)) > 1
        THEN Selection("FEDERATED", Requested(q), NoQuery, FALSE)
        ELSE IF "JIRA" \in Requested(q) /\ "cross" \in q.says
        THEN Selection("FEDERATED", enabled, NoQuery, FALSE)
        ELSE IF Requested(q) # {}
        THEN Selection("SINGLE_PROVIDER", Requested(q), NoQuery, FALSE)
        ELSE IF /\ known = NoScope
                /\ "more" \in q.says \/ {"fixed", "list"} \subseteq q.says
        THEN Selection("CLARIFICATION", {"JIRA"}, NoQuery, FALSE)
        ELSE Selection("LEGACY", {}, NoQuery, FALSE)
    BY DEF SelectProviders
  <2> HIDE DEF selection, query, inherited, first, known, enabled
  <2>2. selection = Selection("STRUCTURED", {"JIRA"}, query, inherited) /\ query # NoQuery
    BY <1>1, <2>1 DEF Selection
  <2> QED
    BY <2>2 DEF Selection
<1> HIDE DEF selection
<1>3. CASE inherited
  <2>1. known = structuredScope /\ structuredScope # NoScope /\ ScopeOk(structuredScope)
    BY <1>3
  <2>2. query = JiraStructuredFollowup(q, structuredScope)
    BY <1>3, <2>1
  <2> HIDE DEF query, inherited, known
  <2>3. IsFirst(query) \/ query = NextPage(structuredScope)
    BY <1>2, <2>1, <2>2, FollowupQuery
  <2>4. IsPlanned(Capped(query))
    BY <2>1, <2>3, FirstIsPlanned, NextIsPlanned
  <2> QED
    BY <1>1, <1>2, <2>4
<1>4. CASE ~inherited
  <2>1. query = fresh
    BY <1>4
  <2>2. query = JiraStructuredQuery(q, Cardinality(enabled) = 1)
    BY <1>2, <2>1
  <2> HIDE DEF query, inherited, fresh, enabled
  <2>3. IsFirst(query)
    BY <1>2, <2>2, FirstQuery
  <2>4. IsPlanned(Capped(query))
    BY <2>3, FirstIsPlanned
  <2> QED
    BY <1>1, <1>2, <2>4
<1> QED
  BY <1>3, <1>4

(* What holds in every reachable state: every cached corpus is a scan of   *)
(* some state of the index, and the listing that the client holds is tiled *)
(* by its pages.                                                           *)
TiledBy(items) ==
    /\ shown = Page(items, 0, structuredScope.offset)
    /\ structuredScope.offset <= Cardinality(items)
    /\ response.status = "ANSWERED" /\ Paged(Listing) /\ ~response.hasMore => shown = items
Tiled ==
    structuredScope # NoScope /\ steady =>
        TiledBy(Population(Listing, corpus[ScannedTypes(Listing)].records))
CorporaLoaded ==
    /\ settings \in Deployments
    /\ corpus = [s \in Scopes |-> corpus[s]]
    /\ \A s \in Scopes : LoadHolds(corpus[s], s)
HeldOk ==
    /\ structuredScope = NoScope \/ ScopeOk(structuredScope)
    /\ response.status \in Statuses
    /\ presumed \in BOOLEAN /\ steady \in BOOLEAN
    /\ turns \in 0..MaxTurns /\ refreshes \in 0..MaxRefreshes
StructuredInv == CorporaLoaded /\ HeldOk /\ Tiled

LEMMA StructuredInvGives == StructuredInv => PagesTile /\ CompleteIfCompatible
<1> SUFFICES ASSUME StructuredInv PROVE PagesTile /\ CompleteIfCompatible
  OBVIOUS
<1>1. TypeOK
  <2>1. \A s \in Scopes : corpus[s].index \in IndexStates /\ \A r \in corpus[s].records : r.type \in s
    BY DEF StructuredInv, CorporaLoaded, LoadHolds
  <2> QED
    BY <2>1 DEF StructuredInv, CorporaLoaded, HeldOk, ScopeOk, TypeOK
<1>2. PagesTile
  BY <1>1 DEF StructuredInv, Tiled, TiledBy, PagesTile
<1>3. CompleteIfCompatible
  <2>1. \A s \in Scopes : Stored(s) = StoredIn(corpus[s].index, s)
    BY DEF Stored, StoredIn
  <2> QED
    BY <2>1 DEF StructuredInv, CorporaLoaded, LoadHolds, CompleteIfCompatible
<1> QED
  BY <1>2, <1>3

LEMMA StructuredInvInit == StructuredInit => StructuredInv
<1> SUFFICES ASSUME StructuredInit PROVE StructuredInv
  OBVIOUS
<1>1. CorporaLoaded
  <2>1. PICK index \in IndexStates : corpus = [s \in Scopes |-> Load(index, s)]
    BY DEF StructuredInit
  <2>2. settings \in Deployments
    BY DEF StructuredInit
  <2>3. \A s \in Scopes : corpus[s] = Load(index, s)
    BY <2>1
  <2>4. \A s \in Scopes : LoadHolds(corpus[s], s)
    BY <2>2, <2>3, LoadFacts
  <2> QED
    BY <2>1, <2>2, <2>4 DEF CorporaLoaded
<1>2. HeldOk
  <2>1. NoResponse.status \in Statuses
    BY DEF NoResponse, Statuses
  <2>2. turns \in 0..MaxTurns /\ refreshes \in 0..MaxRefreshes
    BY TurnsAssumption DEF StructuredInit
  <2>3. presumed = FALSE /\ steady = TRUE
    BY DEF StructuredInit
  <2> QED
    BY <2>1, <2>2, <2>3 DEF StructuredInit, HeldOk
<1>3. Tiled
  BY DEF StructuredInit, Tiled
<1> QED
  BY <1>1, <1>2, <1>3 DEF StructuredInv

(* A turn that is not answered leaves the listing where it was. *)
LEMMA TiledKept ==
    ASSUME StructuredInv, UNCHANGED <<settings, corpus, structuredScope, history>>,
           response' = response \/ response'.status # "ANSWERED"
    PROVE  Tiled' /\ CorporaLoaded'
<1>1. Listing' = Listing
  BY DEF Listing
<1>2. PICK listing : listing = Listing
  OBVIOUS
<1> DEFINE items == Population(listing, corpus[ScannedTypes(listing)].records)
<1>3. structuredScope # NoScope /\ steady => TiledBy(items)
  BY <1>2 DEF StructuredInv, Tiled
<1>4. items' = items
  BY <1>1, <1>2
<1> HIDE DEF items
<1>5. TiledBy(items) => (/\ shown' = Page(items, 0, structuredScope'.offset)
                         /\ structuredScope'.offset <= Cardinality(items)
                         /\ response'.status = "ANSWERED" /\ Paged(Listing') /\ ~response'.hasMore
                              => shown' = items)
  BY <1>1 DEF TiledBy, history
<1>6. Population(Listing, corpus[ScannedTypes(Listing)].records)' = items
  BY <1>1, <1>2 DEF items
<1>7. Tiled'
  BY <1>3, <1>5, <1>6 DEF Tiled, TiledBy, history
<1>8. CorporaLoaded'
  BY DEF StructuredInv, CorporaLoaded
<1> QED
  BY <1>7, <1>8

(* An answered turn begins a listing, or goes on with the one held.        *)
LEMMA AnswerStep ==
    ASSUME StructuredInv, NEW q, NEW plan, plan = ProviderPlan(q), Answer(q, plan)
    PROVE  /\ ScopeOk(structuredScope)' /\ response'.status \in Statuses /\ steady' \in BOOLEAN
           /\ CorporaLoaded' /\ Tiled'
<1> DEFINE query == plan.query
<1> DEFINE records == corpus[ScannedTypes(query)].records
<1> DEFINE items == Population(query, records)
<1> DEFINE returned == Returned(query, items)
<1> DEFINE end == query.offset + Cardinality(returned)
<1>1. IsPlanned(query)
  BY PlanFacts DEF Answer, Execute, StructuredInv, HeldOk, CorporaLoaded
<1>2. items \in SUBSET Nat /\ IsFiniteSet(items)
  <2>1. IsFiniteSet(records) /\ \A r \in records : r \in Chunks
    BY ScannedIsAScope DEF StructuredInv, CorporaLoaded, LoadHolds
  <2> HIDE DEF records
  <2> QED
    BY <2>1, PopulationFacts
<1>3. /\ structuredScope' = [operation |-> query.operation, filters |-> query.filters,
                             offset |-> end, limit |-> query.limit]
      /\ response'.status = "ANSWERED"
      /\ response'.hasMore = (Paged(query) /\ end < Cardinality(items))
      /\ shown' = IF query.offset = 0 THEN Displayed(query, items)
                  ELSE shown \cup Displayed(query, items)
      /\ steady' = (steady \/ query.offset = 0)
      /\ UNCHANGED <<settings, corpus>>
  BY DEF Answer
<1>4. CorporaLoaded'
  BY <1>3 DEF StructuredInv, CorporaLoaded
<1>5. PICK listing : listing = Listing'
  OBVIOUS
<1>6. /\ listing.operation = query.operation /\ listing.filters = query.filters
      /\ listing.section = ""
  BY <1>3, <1>5 DEF Listing
<1> HIDE DEF query
<1>7. Kin(listing, query)
  <2>1. Sectioned(listing) /\ Sectioned(query)
    BY <1>1, <1>6 DEF Sectioned, IsPlanned
  <2>2. /\ SectionKind(query) = CHOOSE k \in query.filters["section_kind"] : TRUE
        /\ SectionKind(listing) = CHOOSE k \in listing.filters["section_kind"] : TRUE
    BY <2>1, SectionIsFiltered
  <2> QED
    BY <1>6, <2>2 DEF Kin
<1>8. Population(Listing, corpus[ScannedTypes(Listing)].records)' = items
  <2>1. /\ ScannedTypes(listing) = ScannedTypes(query)
        /\ Population(listing, records) = Population(query, records)
    BY <1>7, KinLookAlike
  <2>2. Population(Listing, corpus[ScannedTypes(Listing)].records)'
          = Population(listing, corpus'[ScannedTypes(listing)].records)
    BY <1>5
  <2> QED
    BY <1>3, <2>1, <2>2
<1>9. Paged(Listing') <=> Paged(query)
  BY <1>5, <1>6 DEF Paged
<1> HIDE DEF records, items
<1>10. Displayed(query, items) = returned
  <2>1. Lesser(query.limit, settings.maxListItems) = query.limit
    BY <1>1, DeploymentsAssumption DEF IsPlanned, Lesser, StructuredInv, CorporaLoaded
  <2> QED
    BY <2>1 DEF Displayed, Returned, Paged
<1>11. Cardinality(items) \in Nat /\ query.offset \in Nat /\ query.limit \in Nat
  BY <1>1, <1>2, FS_CardinalityType DEF IsPlanned
<1>12. end \in Nat
  <2>1. returned \in SUBSET items
    BY DEF Returned, Page
  <2>2. IsFiniteSet(returned)
    BY <1>2, <2>1, FS_Subset
  <2>3. Cardinality(returned) \in Nat
    BY <2>2, FS_CardinalityType
  <2> QED
    BY <1>11, <2>3
<1>13. ASSUME steady'
       PROVE  /\ query.offset <= Cardinality(items)
              /\ shown' = Page(items, 0, query.offset) \cup returned
  <2>1. CASE query.offset = 0
    <3>1. shown' = returned
      BY <1>3, <1>10, <2>1
    <3>2. Page(items, 0, 0) = {}
      <4>1. \A i \in items : Rank(items, i) \in Nat
        BY <1>2, ItemRanks
      <4>2. \A i \in items : ~(0 <= Rank(items, i) /\ Rank(items, i) < 0 + 0)
        BY <4>1
      <4> QED
        BY <4>2 DEF Page
    <3> QED
      BY <1>11, <2>1, <3>1, <3>2
  <2>2. CASE query.offset # 0
    <3>1. steady /\ shown' = shown \cup returned
      BY <1>3, <1>10, <1>13, <2>2
    <3>2. structuredScope # NoScope /\ query.offset = structuredScope.offset /\ Kin(query, Listing)
      BY <1>1, <2>2 DEF IsPlanned
    <3>3. TiledBy(Population(Listing, corpus[ScannedTypes(Listing)].records))
      BY <3>1, <3>2 DEF StructuredInv, Tiled
    <3>4. PICK held : held = Listing
      OBVIOUS
    <3>5. /\ ScannedTypes(query) = ScannedTypes(held)
          /\ Population(query, records) = Population(held, records)
      BY <3>2, <3>4, KinLookAlike
    <3>6. TiledBy(items)
      BY <3>3, <3>4, <3>5 DEF items, records
    <3> QED
      BY <3>1, <3>2, <3>6 DEF TiledBy
  <2> QED
    BY <2>1, <2>2
<1>14. ASSUME steady'
       PROVE  /\ shown' = Page(items, 0, end) /\ end <= Cardinality(items)
              /\ end = Cardinality(items) => Page(items, 0, end) = items
  <2>1. CASE Paged(query)
    <3>1. returned = Page(items, query.offset, query.limit)
      BY <2>1 DEF Returned
    <3>2. PageGoesOn(items, query.offset, query.limit)
      BY <1>2, <1>11, <1>13, <1>14, PagesGoOn
    <3> QED
      BY <1>13, <1>14, <3>1, <3>2 DEF PageGoesOn
  <2>2. CASE ~Paged(query)
    <3>1. returned = {}
      BY <2>2 DEF Returned
    <3>2. Cardinality(returned) = 0
      BY <3>1, FS_EmptySet
    <3>3. end = query.offset
      BY <1>11, <3>2
    <3>4. shown' = Page(items, 0, end) /\ end <= Cardinality(items)
      BY <1>13, <1>14, <3>1, <3>3
    <3>5. end = Cardinality(items) => Page(items, 0, end) = items
      <4>1. \A i \in items : Rank(items, i) \in Nat /\ Rank(items, i) < Cardinality(items)
        BY <1>2, ItemRanks
      <4>2. \A i \in items : 0 <= Rank(items, i) /\ Rank(items, i) < 0 + Cardinality(items)
        BY <1>11, <4>1
      <4> QED
        BY <4>2 DEF Page
    <3> QED
      BY <3>4, <3>5
  <2> QED
    BY <2>1, <2>2
<1> HIDE DEF returned, end
<1>15. structuredScope'.offset = end /\ structuredScope'.operation = query.operation
       /\ structuredScope'.limit = query.limit
  BY <1>3
<1>16. Tiled'
  <2>1. steady' => (/\ shown' = Page(items, 0, structuredScope'.offset)
                    /\ structuredScope'.offset <= Cardinality(items)
                    /\ Paged(query) /\ ~response'.hasMore => shown' = items)
    <3> SUFFICES ASSUME steady'
                 PROVE  Paged(query) /\ ~response'.hasMore => shown' = items
      BY <1>14, <1>15
    <3>1. Paged(query) /\ ~response'.hasMore => end = Cardinality(items)
      <4>1. Paged(query) /\ ~response'.hasMore => ~(end < Cardinality(items))
        BY <1>3, Zenon
      <4>2. end <= Cardinality(items)
        BY <1>14
      <4> QED
        BY <1>11, <1>12, <4>1, <4>2
    <3> QED
      BY <1>14, <3>1
  <2> QED
    BY <1>8, <1>9, <2>1 DEF Tiled, TiledBy
<1>17. ScopeOk(structuredScope)'
  BY <1>1, <1>12, <1>15 DEF ScopeOk, IsPlanned
<1>18. response'.status \in Statuses /\ steady' \in BOOLEAN
  BY <1>3 DEF Statuses, StructuredInv, HeldOk
<1> QED
  BY <1>4, <1>16, <1>17, <1>18

(* A corpus that is read again: unless it is another one than the listing  *)
(* is of, the listing is no longer steady.                                 *)
LEMMA RefreshStep ==
    ASSUME StructuredInv, Refresh
    PROVE  CorporaLoaded' /\ Tiled' /\ steady' \in BOOLEAN
<1>1. PICK s \in Scopes, index \in IndexStates :
          /\ corpus' = [corpus EXCEPT ![s] = Load(index, s)]
          /\ steady' = (steady /\ (structuredScope = NoScope \/ s # ScannedTypes(Listing)))
  BY DEF Refresh
<1>2. UNCHANGED <<settings, structuredScope, response, shown>>
  BY DEF Refresh
<1>3. LoadHolds(Load(index, s), s)
  BY LoadFacts DEF StructuredInv, CorporaLoaded
<1>4. DOMAIN corpus = Scopes
  BY DEF StructuredInv, CorporaLoaded
<1>5. CorporaLoaded'
  <2>1. \A t \in Scopes : corpus'[t] = IF t = s THEN Load(index, s) ELSE corpus[t]
    BY <1>1, <1>4
  <2>2. corpus' = [t \in Scopes |-> corpus'[t]]
    BY <1>1, <1>4
  <2>3. \A t \in Scopes : LoadHolds(corpus'[t], t)
    BY <1>3, <2>1 DEF StructuredInv, CorporaLoaded
  <2>4. settings' \in Deployments
    BY <1>2 DEF StructuredInv, CorporaLoaded
  <2> QED
    BY <2>2, <2>3, <2>4 DEF CorporaLoaded
<1>6. Tiled'
  <2>1. Listing' = Listing
    BY <1>2 DEF Listing
  <2>2. PICK listing : listing = Listing
    OBVIOUS
  <2>3. CASE structuredScope # NoScope /\ steady'
    <3>1. steady /\ s # ScannedTypes(listing)
      BY <1>1, <2>2, <2>3
    <3>2. corpus'[ScannedTypes(listing)] = corpus[ScannedTypes(listing)]
      BY <1>1, <1>4, <3>1, ScannedIsAScope
    <3> DEFINE items == Population(listing, corpus[ScannedTypes(listing)].records)
    <3>3. TiledBy(items)
      BY <2>2, <2>3, <3>1 DEF StructuredInv, Tiled
    <3>4. Population(Listing, corpus[ScannedTypes(Listing)].records)' = items
      BY <2>1, <2>2, <3>2
    <3> HIDE DEF items
    <3>5. /\ shown' = Page(items, 0, structuredScope'.offset)
          /\ structuredScope'.offset <= Cardinality(items)
          /\ response'.status = "ANSWERED" /\ Paged(Listing') /\ ~response'.hasMore
               => shown' = items
      BY <1>2, <2>1, <3>3 DEF TiledBy
    <3> QED
      BY <3>4, <3>5 DEF Tiled, TiledBy
  <2>4. CASE ~(structuredScope # NoScope /\ steady')
    BY <1>2, <2>4 DEF Tiled
  <2> QED
    BY <2>3, <2>4
<1>7. steady' \in BOOLEAN
  BY <1>1 DEF StructuredInv, HeldOk
<1> QED
  BY <1>5, <1>6, <1>7

LEMMA StructuredInvStep == StructuredInv /\ [StructuredNext]_structuredVars => StructuredInv'
<1> SUFFICES ASSUME StructuredInv, [StructuredNext]_structuredVars
             PROVE  StructuredInv'
  OBVIOUS
<1> DEFINE Counted == turns' \in 0..MaxTurns /\ refreshes' \in 0..MaxRefreshes
<1>1. ASSUME response' = response \/ (response'.status \in Statuses /\ response'.status # "ANSWERED"),
             UNCHANGED <<settings, corpus, structuredScope, history>>, Counted
      PROVE  StructuredInv'
  <2>1. Tiled' /\ CorporaLoaded'
    BY <1>1, TiledKept
  <2>2. HeldOk'
    BY <1>1 DEF StructuredInv, HeldOk, ScopeOk, history
  <2> QED
    BY <2>1, <2>2 DEF StructuredInv
<1>2. ASSUME turns < MaxTurns, turns' = turns + 1, refreshes' = refreshes
      PROVE  Counted
  BY <1>2, TurnsAssumption DEF StructuredInv, HeldOk
<1>3. CASE UNCHANGED structuredVars
  BY <1>1, <1>3 DEF structuredVars, StructuredInv, HeldOk
<1>4. ASSUME turns < MaxTurns, NEW q, NEW plan, plan = ProviderPlan(q), Answer(q, plan)
      PROVE  StructuredInv'
  <2>1. Counted
    BY <1>2, <1>4 DEF Answer, Execute, Turn
  <2>2. /\ ScopeOk(structuredScope)' /\ response'.status \in Statuses /\ steady' \in BOOLEAN
        /\ CorporaLoaded' /\ Tiled'
    BY <1>4, AnswerStep
  <2>3. presumed' \in BOOLEAN
    <3>1. presumed' = (Presumes(q, plan) \/ (presumed /\ Continues(q)))
      BY <1>4 DEF Answer
    <3> QED
      BY <3>1
  <2> QED
    BY <2>1, <2>2, <2>3 DEF StructuredInv, HeldOk
<1>5. ASSUME turns < MaxTurns, NEW plan, AskResolution(plan)
      PROVE  StructuredInv'
  <2>1. Counted
    BY <1>2, <1>5 DEF AskResolution, Execute, Turn, KeepScope
  <2> QED
    BY <1>1, <1>5, <2>1 DEF AskResolution, Respond, KeepScope, Statuses
<1>6. ASSUME turns < MaxTurns, NEW plan, NoSnapshot(plan)
      PROVE  StructuredInv'
  <2>1. Counted
    BY <1>2, <1>6 DEF NoSnapshot, Execute, Turn, KeepScope
  <2> QED
    BY <1>1, <1>6, <2>1 DEF NoSnapshot, Respond, KeepScope, Statuses
<1>7. ASSUME turns < MaxTurns, NEW plan, ReadFails(plan)
      PROVE  StructuredInv'
  <2>1. Counted
    BY <1>2, <1>7 DEF ReadFails, Execute, Turn, KeepScope
  <2> QED
    BY <1>1, <1>7, <2>1 DEF ReadFails, Respond, KeepScope, Statuses
<1>8. ASSUME turns < MaxTurns, NEW plan, ProviderUnavailable(plan)
      PROVE  StructuredInv'
  <2>1. Counted
    BY <1>2, <1>8 DEF ProviderUnavailable, Turn, KeepScope
  <2> QED
    BY <1>1, <1>8, <2>1 DEF ProviderUnavailable, Respond, KeepScope, Statuses
<1>9. ASSUME turns < MaxTurns, NEW plan, Workflow(plan)
      PROVE  StructuredInv'
  <2>1. Counted
    BY <1>2, <1>9 DEF Workflow, Turn
  <2>2. PICK answered \in BOOLEAN :
          /\ Respond("WORKFLOW", IF answered THEN "ANSWERED" ELSE "REFUSED")
          /\ IF answered
             THEN /\ structuredScope' = NoScope
                  /\ asked' = NothingAsked /\ presumed' = FALSE
                  /\ shown' = {} /\ steady' = TRUE
             ELSE UNCHANGED <<structuredScope, history>>
    BY <1>9 DEF Workflow
  <2>3. UNCHANGED <<settings, corpus>> /\ response'.status = "WORKFLOW"
    BY <1>9, <2>2 DEF Workflow, Respond
  <2>4. CASE answered
    <3>1. structuredScope' = NoScope /\ steady' = TRUE /\ presumed' = FALSE
      BY <2>2, <2>4
    <3>2. CorporaLoaded'
      BY <2>3 DEF StructuredInv, CorporaLoaded
    <3>3. HeldOk'
      BY <2>1, <2>3, <3>1 DEF HeldOk, Statuses
    <3>4. Tiled'
      BY <3>1 DEF Tiled
    <3> QED
      BY <3>2, <3>3, <3>4 DEF StructuredInv
  <2>5. CASE ~answered
    <3>1. UNCHANGED <<structuredScope, history>>
      BY <2>2, <2>5
    <3> QED
      BY <1>1, <2>1, <2>3, <3>1 DEF Statuses
  <2> QED
    BY <2>4, <2>5
<1>10. CASE Refresh
  <2>1. CorporaLoaded' /\ Tiled' /\ steady' \in BOOLEAN
    BY <1>10, RefreshStep
  <2>2. /\ Counted /\ structuredScope' = structuredScope /\ response' = response
        /\ presumed' = presumed
    BY <1>10, TurnsAssumption DEF Refresh, StructuredInv, HeldOk
  <2>3. HeldOk'
    BY <2>1, <2>2 DEF HeldOk, StructuredInv, ScopeOk
  <2> QED
    BY <2>1, <2>3 DEF StructuredInv
<1> HIDE DEF Counted
<1> QED
  BY <1>3, <1>4, <1>5, <1>6, <1>7, <1>8, <1>9, <1>10 DEF StructuredNext

-----------------------------------------------------------------------------
(* The theorems *)

(* A call of embed_queries raises KeyError only when its text was evicted  *)
(* from a full cache, and the cache is a set of keys within its bound in   *)
(* every state (embedding.py, embed_queries and _evict_locked), for every  *)
(* number of threads, texts and entries.                                   *)
THEOREM FailsOnlyInAFullCache == Spec => FailsOnlyWhenFull
<1> DEFINE Step == /\ \A t \in Threads : failed'[t] /\ ~failed[t] =>
                         Len(cache) = CacheEntries /\ Len(texts[t]) + Len(cache) > CacheEntries
                   /\ Len(cache') <= CacheEntries /\ IsInjective(cache')
<1>1. Spec => []EmbedInv
  BY EmbedInvInit, EmbedInvStep, PTL DEF Spec, Init
<1>2. EmbedInv /\ EmbedInv' /\ [Next]_vars => [Step]_embedVars
  <2> SUFFICES ASSUME EmbedInv, EmbedInv', [Next]_vars
               PROVE  [Step]_embedVars
    OBVIOUS
  <2>1. Len(cache') <= CacheEntries /\ IsInjective(cache')
    BY DEF EmbedInv, Keys
  <2>2. ASSUME NEW t \in Threads, failed'[t], ~failed[t]
        PROVE  Len(cache) = CacheEntries /\ Len(texts[t]) + Len(cache) > CacheEntries
    <3>1. PICK u \in Threads : Embed(u)
      BY <2>2 DEF Next, vars, embedVars, Begin, SearchDense, LookUpCorpus, Fetch, Leave, Environment, Ended
    <3>2. u = t /\ ReadVectors(t)
      BY <2>2, <3>1 DEF Embed, EmbedInv, FindMissing, Encode, EncodeFails, FindAbsent, ReadVectors
    <3>3. NotIn(cache, texts[t]) # <<>> /\ todo[t] = <<>>
      BY <2>2, <3>2 DEF EmbedInv, ReadVectors, At
    <3>4. PICK v : Contains(NotIn(cache, texts[t]), v)
      <4>1. NotIn(cache, texts[t]) \in Seq(Texts)
        BY SelectedTexts DEF EmbedInv, Keys
      <4>2. 1 \in 1..Len(NotIn(cache, texts[t]))
        BY <3>3, <4>1, EmptySeq, LenProperties
      <4> QED
        BY <4>2 DEF Contains
    <3>5. Contains(texts[t], v) /\ ~Contains(cache, v)
      BY <3>4, SelectedTexts DEF EmbedInv, Keys
    <3>6. Full(cache)
      BY <3>3, <3>5, NoTexts DEF EmbedInv
    <3>7. Len(texts[t]) \in Nat \ {0} /\ CacheEntries \in Nat
      BY <3>5, LenProperties, CacheAssumption DEF EmbedInv, Contains
    <3> QED
      BY <3>6, <3>7 DEF Full
  <2> QED
    BY <2>1, <2>2
<1> HIDE DEF Step
<1>3. Spec => [][Step]_embedVars
  BY <1>1, <1>2, PTL DEF Spec
<1> QED
  BY <1>3 DEF Step, FailsOnlyWhenFull

(* SearchInv and CorpusInv hold in every reachable state. *)
THEOREM CorpusInvariant == Spec => [](SearchInv /\ CorpusInv)
<1>1. Init => SearchInv
  BY DEF Init, SearchInv, Stages
<1>2. Init => CorpusInv
  BY CorpusInvInit DEF Init
<1> QED
  BY <1>1, <1>2, SearchInvStep, CorpusInvStep, PTL DEF Spec

(* Whoever fetched it, and whatever ingestion did meanwhile, a cached      *)
(* corpus holds nothing that a reader it is kept for may not see or use,   *)
(* and one that is complete and not torn is all that the reader may see,   *)
(* each record once (retrieval.py, _cached_authorized_corpus and           *)
(* _fetch_fallback_corpus).                                                *)
THEOREM CorporaAreTheReaders == Spec => []OwnCorpus
  BY CorpusInvariant, CorpusInvOwn, PTL

(* No search is given a cached corpus whose fetch began a time to live ago *)
(* or earlier (retrieval.py, _cached_authorized_corpus), whoever stored it *)
(* over which other one.                                                   *)
THEOREM CorporaAreFresh == Spec => []FreshWithinTtl
<1>1. CorpusInv => FreshWithinTtl
  BY DEF CorpusInv
<1> QED
  BY <1>1, CorpusInvariant, PTL

(* StructuredInv holds in every reachable state. *)
THEOREM StructuredInvariant == StructuredSpec => []StructuredInv
  BY StructuredInvInit, StructuredInvStep, PTL DEF StructuredSpec

(* Whatever turns come between two "show more", and whatever is asked, the *)
(* items displayed are the first nextOffset ones of the result set, each   *)
(* once and none left out, as long as the corpus did not change; and they  *)
(* are all of them when the answer says that there are no more             *)
(* (workflow_nodes/providers.py, provider_execute; providers/indexed.py).  *)
THEOREM PagesTileTheList == StructuredSpec => []PagesTile
  BY StructuredInvariant, StructuredInvGives, PTL

(* Whatever the index holds, a corpus that says it is complete is all the  *)
(* index stores of its types, when all of that is compatible: wherever the *)
(* ceiling falls, the scan comes to the end of every partition or says     *)
(* that it did not (retrieval.py, _fetch_fallback_corpus).                 *)
THEOREM CompleteScans == StructuredSpec => []CompleteIfCompatible
  BY StructuredInvariant, StructuredInvGives, PTL
=============================================================================
