------------------------ MODULE EvidenceSelection_proofs ------------------------
(***************************************************************************)
(* Proofs about EvidenceSelection, for every set of chunks, every set of   *)
(* requests as the planner makes them, and every limit.                    *)
(*                                                                         *)
(* A window of evidence is what a chain of operations makes of the         *)
(* candidates: filters, cuts, merges, and folds that add one chunk after   *)
(* another.  Each operation gets a lemma about the lists it makes: whose   *)
(* chunks they hold, that none is there twice, which come first and, when  *)
(* the list is not full, that nothing is lost.                             *)
(***************************************************************************)
EXTENDS EvidenceSelection, FiniteSetTheorems, SequenceTheorems, WellFoundedInduction, TLAPS

-----------------------------------------------------------------------------
(* Positions in their order *)

(* The smaller of two naturals comes first in an order in which every set  *)
(* of naturals has a first one.                                            *)
LEMMA NatOrder ==
  \E R : IsWellFoundedOn(R, Nat) /\ \A x, y \in Nat : y < x => <<y, x>> \in R
<1> DEFINE Less == OpToRel(<, Nat)
<1>1. IsWellFoundedOn(Less, Nat)
  BY NatLessThanWellFounded
<1>2. \A x, y \in Nat : y < x => <<y, x>> \in Less
  BY DEF OpToRel
<1> HIDE DEF Less
<1>3. QED
  BY <1>1, <1>2

(* Any set of naturals has a least one: instead of an induction, the       *)
(* proofs below look at the first position where a claim would fail.       *)
LEMMA Smallest ==
  ASSUME NEW T \in SUBSET Nat, T # {}
  PROVE  \E m \in T : \A n \in T : m <= n
<1>1. PICK R : IsWellFoundedOn(R, Nat) /\ \A x, y \in Nat : y < x => <<y, x>> \in R
  BY NatOrder
<1>2. PICK m \in T : \A y \in T : <<y, m>> \notin R
  BY <1>1, WFMin
<1>3. ASSUME NEW n \in T
      PROVE  m <= n
  <2>1. ~(n < m)
    BY <1>1, <1>2
  <2>2. QED
    BY <2>1
<1>4. QED
  BY <1>3

(* Any set of positions has a last one. *)
LEMMA Greatest ==
  ASSUME NEW n \in Nat, NEW I \in SUBSET (1..n), I # {}
  PROVE  \E i \in I : \A k \in I : k <= i
<1> DEFINE T == {n - i : i \in I}
<1>1. T \in SUBSET Nat /\ T # {}
  <2>1. \A i \in I : i \in 1..n /\ n - i \in Nat
    OBVIOUS
  <2>2. PICK i \in I : TRUE
    OBVIOUS
  <2>3. n - i \in T
    OBVIOUS
  <2> QED
    BY <2>1, <2>3
<1>2. PICK m \in T : \A t \in T : m <= t
  BY <1>1, Smallest
<1>3. PICK i \in I : m = n - i
  OBVIOUS
<1>4. \A k \in I : k <= i
  <2> SUFFICES ASSUME NEW k \in I
               PROVE  k <= i
    OBVIOUS
  <2>1. n - i <= n - k
    BY <1>2, <1>3
  <2> QED
    BY <2>1
<1> HIDE DEF T
<1>5. QED
  BY <1>4

(* How far into a set of positions one of them is. *)
Rank(I, i) == Cardinality({j \in I : j <= i})

(* A position of a set of positions comes after as many of them as its     *)
(* rank says, and a later one has a greater rank.                          *)
LEMMA RankFacts ==
    ASSUME NEW n \in Nat, NEW I \in SUBSET (1..n)
    PROVE  /\ IsFiniteSet(I) /\ Cardinality(I) \in Nat
           /\ \A i \in I : Rank(I, i) \in 1..Cardinality(I)
           /\ \A i, j \in I : i < j => Rank(I, i) < Rank(I, j)
<1>1. IsFiniteSet(I) /\ Cardinality(I) \in Nat
  <2>1. IsFiniteSet(1..n)
    BY FS_Interval
  <2>2. IsFiniteSet(I)
    BY <2>1, FS_Subset
  <2> QED
    BY <2>2, FS_CardinalityType
<1>2. ASSUME NEW i \in I
      PROVE  Rank(I, i) \in 1..Cardinality(I)
  <2> DEFINE R == {j \in I : j <= i}
  <2>1. R \in SUBSET I /\ i \in R
    OBVIOUS
  <2>2. IsFiniteSet(R) /\ Cardinality(R) <= Cardinality(I)
    BY <1>1, <2>1, FS_Subset
  <2>3. Cardinality(R) \in Nat /\ Cardinality(R) # 0
    BY <2>1, <2>2, FS_CardinalityType, FS_EmptySet
  <2> QED
    BY <1>1, <2>2, <2>3 DEF Rank
<1>3. ASSUME NEW i \in I, NEW j \in I, i < j
      PROVE  Rank(I, i) < Rank(I, j)
  <2> DEFINE R == {k \in I : k <= i}
  <2> DEFINE S == {k \in I : k <= j}
  <2>1. i \in Nat /\ j \in Nat /\ I \subseteq Nat
    OBVIOUS
  <2>2. R \in SUBSET S /\ R # S /\ S \in SUBSET I
    <3>1. j \in S /\ j \notin R
      BY <1>3, <2>1
    <3>2. \A k \in I : k <= i => k <= j
      BY <1>3, <2>1
    <3> QED
      BY <3>1, <3>2
  <2>3. IsFiniteSet(S)
    BY <1>1, <2>2, FS_Subset
  <2>4. Cardinality(R) <= Cardinality(S) /\ Cardinality(R) # Cardinality(S)
    BY <2>2, <2>3, FS_Subset
  <2>5. Cardinality(R) \in Nat /\ Cardinality(S) \in Nat
    BY <2>2, <2>3, FS_Subset, FS_CardinalityType
  <2> QED
    BY <2>4, <2>5 DEF Rank
<1> QED
  BY <1>1, <1>2, <1>3

(* Nth gives the position of the given rank: were there none, there would  *)
(* be a first rank without one, and the position after that of the rank    *)
(* before would have it.                                                   *)
LEMMA NthFacts ==
    ASSUME NEW n \in Nat, NEW I \in SUBSET (1..n), NEW k \in 1..Cardinality(I)
    PROVE  Nth(I, k) \in I /\ Rank(I, Nth(I, k)) = k
<1>1. /\ IsFiniteSet(I) /\ Cardinality(I) \in Nat
      /\ \A i \in I : Rank(I, i) \in 1..Cardinality(I)
      /\ \A i, j \in I : i < j => Rank(I, i) < Rank(I, j)
  BY RankFacts
<1> DEFINE T == {i \in I : Rank(I, i) >= k}
<1>2. T \in SUBSET Nat /\ T # {}
  <2>1. I # {}
    BY FS_EmptySet
  <2>2. PICK m \in I : \A j \in I : j <= m
    BY <2>1, Greatest
  <2>3. {j \in I : j <= m} = I
    BY <2>2
  <2>4. Rank(I, m) = Cardinality(I)
    BY <2>3 DEF Rank
  <2>5. m \in T
    BY <1>1, <2>4
  <2>6. I \subseteq Nat
    OBVIOUS
  <2> QED
    BY <2>5, <2>6
<1>3. PICK m \in T : \A i \in T : m <= i
  BY <1>2, Smallest
<1>4. Rank(I, m) = k
  <2> SUFFICES ASSUME Rank(I, m) # k
               PROVE  FALSE
    OBVIOUS
  <2>1. Rank(I, m) \in Nat /\ Rank(I, m) > k
    BY <1>1, <1>3
  <2> DEFINE B == {j \in I : j <= m} \ {m}
  <2>2. {j \in I : j <= m} \in SUBSET I /\ m \in {j \in I : j <= m}
    BY <1>3
  <2>3. IsFiniteSet(B) /\ Cardinality(B) = Rank(I, m) - 1
    BY <1>1, <2>2, FS_Subset, FS_RemoveElement DEF Rank
  <2>4. B # {} /\ B \in SUBSET (1..n)
    <3>1. Cardinality(B) # 0
      BY <2>1, <2>3
    <3>2. B # {}
      BY <3>1, FS_EmptySet
    <3> QED
      BY <3>2
  <2>5. PICK g \in B : \A j \in B : j <= g
    BY <2>4, Greatest
  <2>6. {j \in I : j <= g} = B
    <3>1. g < m /\ g \in I
      BY <1>3, <2>5
    <3>2. \A j \in I : j \in B <=> j < m
      BY <1>3
    <3>3. \A j \in I : j <= g <=> j < m
      BY <2>5, <3>1, <3>2
    <3> QED
      BY <3>2, <3>3
  <2>7. g \in T /\ g < m
    BY <1>3, <2>1, <2>3, <2>5, <2>6 DEF Rank
  <2> QED
    BY <1>3, <2>7
<1> QED
  BY <1>3, <1>4 DEF Nth, Rank

-----------------------------------------------------------------------------
(* What a filter picks *)

(* p holds the elements of s at the positions I, each position once. *)
IsPicked(S, s, I, p) ==
    /\ p \in Seq(S) /\ Len(p) = Cardinality(I) /\ DOMAIN p = 1..Len(p)
    /\ \A k \in 1..Len(p) : Nth(I, k) \in I /\ p[k] = s[Nth(I, k)]
    /\ \A k, l \in 1..Len(p) : Nth(I, k) = Nth(I, l) => k = l
    /\ \A i \in I : \E k \in 1..Len(p) : Nth(I, k) = i

(* Picked picks what is at the positions, nothing else and nothing twice. *)
LEMMA PickedFacts ==
    ASSUME NEW S, NEW s \in Seq(S), NEW I \in SUBSET DOMAIN s
    PROVE  IsPicked(S, s, I, Picked(s, I))
<1> DEFINE n == Len(s)
<1> DEFINE p == Picked(s, I)
<1>1. n \in Nat /\ DOMAIN s = 1..n /\ I \in SUBSET (1..n) /\ \A i \in 1..n : s[i] \in S
  BY LenProperties, ElementOfSeq
<1>2. /\ IsFiniteSet(I) /\ Cardinality(I) \in Nat
      /\ \A i \in I : Rank(I, i) \in 1..Cardinality(I)
      /\ \A i, j \in I : i < j => Rank(I, i) < Rank(I, j)
  BY <1>1, RankFacts
<1>3. \A k \in 1..Cardinality(I) : Nth(I, k) \in I /\ Rank(I, Nth(I, k)) = k
  BY <1>1, NthFacts
<1>4. p = [k \in 1..Cardinality(I) |-> s[Nth(I, k)]]
  BY DEF Picked
<1>5. p \in Seq(S) /\ Len(p) = Cardinality(I)
  <2>1. \A k \in 1..Cardinality(I) : s[Nth(I, k)] \in S
    BY <1>1, <1>3
  <2> QED
    BY <1>2, <1>4, <2>1
<1>6. \A k \in 1..Len(p) : Nth(I, k) \in I /\ p[k] = s[Nth(I, k)]
  BY <1>3, <1>4, <1>5
<1>7. \A k, l \in 1..Len(p) : Nth(I, k) = Nth(I, l) => k = l
  BY <1>3, <1>5
<1>8. ASSUME NEW i \in I
      PROVE  \E k \in 1..Len(p) : Nth(I, k) = i
  <2>1. Rank(I, i) \in 1..Cardinality(I)
    BY <1>2
  <2> DEFINE j == Nth(I, Rank(I, i))
  <2>2. j \in I /\ Rank(I, j) = Rank(I, i)
    BY <1>3, <2>1
  <2>3. i \in Nat /\ j \in Nat /\ Rank(I, i) \in Nat
    BY <1>1, <2>1, <2>2
  <2>4. ~(i < j) /\ ~(j < i)
    BY <1>2, <2>2, <2>3
  <2>5. j = i
    BY <2>3, <2>4
  <2> QED
    BY <1>5, <2>1, <2>5
<1>9. DOMAIN p = 1..Len(p)
  BY <1>4, <1>5
<1> QED
  BY <1>5, <1>6, <1>7, <1>8, <1>9 DEF IsPicked

-----------------------------------------------------------------------------
(* Ranked lists *)

(* The lists of chunks of S, none of them there twice. *)
Lists(S) == {s \in Seq(S) : IsInjective(s)}

(* What a list is, for the provers. *)
LEMMA ListFacts ==
    ASSUME NEW S, NEW s \in Lists(S)
    PROVE  /\ s \in Seq(S) /\ Len(s) \in Nat /\ DOMAIN s = 1..Len(s)
           /\ \A i \in 1..Len(s) : s[i] \in S /\ s[i] \in ToSet(s)
           /\ \A d \in ToSet(s) : d \in S /\ \E i \in 1..Len(s) : s[i] = d
           /\ \A i, j \in 1..Len(s) : s[i] = s[j] => i = j
<1>1. s \in Seq(S) /\ IsInjective(s)
  BY DEF Lists
<1>2. Len(s) \in Nat /\ DOMAIN s = 1..Len(s) /\ \A i \in 1..Len(s) : s[i] \in S
  BY <1>1, LenProperties, ElementOfSeq
<1> QED
  BY <1>1, <1>2 DEF ToSet, IsInjective

(* A list is empty if its length is 0. *)
LEMMA NoChunk ==
    ASSUME NEW S, NEW s \in Lists(S)
    PROVE  s = <<>> <=> Len(s) = 0
BY EmptySeq DEF Lists

(* A sequence is a list if no two of its places hold the same chunk. *)
LEMMA IsList ==
    ASSUME NEW S, NEW s \in Seq(S), \A i, j \in 1..Len(s) : s[i] = s[j] => i = j
    PROVE  s \in Lists(S)
<1>1. DOMAIN s = 1..Len(s)
  BY LenProperties
<1> QED
  BY <1>1 DEF Lists, IsInjective

(* The empty list. *)
LEMMA EmptyList ==
    ASSUME NEW S
    PROVE  <<>> \in Lists(S) /\ Len(<<>>) = 0 /\ ToSet(<<>>) = {}
<1>1. <<>> \in Seq(S) /\ Len(<<>>) = 0 /\ DOMAIN <<>> = {}
  OBVIOUS
<1> QED
  BY <1>1 DEF Lists, IsInjective, ToSet

(* A list of chunks of T is a list of chunks of any set that holds them. *)
LEMMA ListOf ==
    ASSUME NEW S, NEW T, NEW s \in Lists(T), \A i \in 1..Len(s) : s[i] \in S
    PROVE  s \in Lists(S)
<1>1. s \in Seq(T) /\ Len(s) \in Nat /\ DOMAIN s = 1..Len(s) /\ \A i, j \in 1..Len(s) : s[i] = s[j] => i = j
  BY ListFacts
<1>2. s = [i \in 1..Len(s) |-> s[i]]
  BY <1>1, LenProperties
<1>3. s \in [1..Len(s) -> S]
  BY <1>2
<1>4. s \in Seq(S)
  BY <1>1, <1>3
<1> QED
  BY <1>1, <1>4, IsList

(* p holds the elements of s at the positions I, and begins as s does if   *)
(* the first position is one of them.                                      *)
IsSublist(S, s, I, p) ==
    /\ p \in Lists(S) /\ Len(p) <= Len(s)
    /\ \A d \in ToSet(p) : \E i \in I : s[i] = d
    /\ \A i \in I : s[i] \in ToSet(p)
    /\ 1 \in I => Len(p) # 0 /\ p[1] = s[1]

(* What is picked from a list is a list. *)
LEMMA PickedList ==
    ASSUME NEW S, NEW s \in Lists(S), NEW I \in SUBSET DOMAIN s
    PROVE  IsSublist(S, s, I, Picked(s, I))
<1> DEFINE p == Picked(s, I)
<1>1. /\ s \in Seq(S) /\ Len(s) \in Nat /\ DOMAIN s = 1..Len(s)
      /\ \A i, j \in 1..Len(s) : s[i] = s[j] => i = j
  BY ListFacts
<1>2. /\ p \in Seq(S) /\ Len(p) = Cardinality(I) /\ DOMAIN p = 1..Len(p)
      /\ \A k \in 1..Len(p) : Nth(I, k) \in I /\ p[k] = s[Nth(I, k)]
      /\ \A k, l \in 1..Len(p) : Nth(I, k) = Nth(I, l) => k = l
      /\ \A i \in I : \E k \in 1..Len(p) : Nth(I, k) = i
  BY <1>1, PickedFacts DEF IsPicked
<1> HIDE DEF p
<1>3. p \in Lists(S)
  <2>1. ASSUME NEW k \in 1..Len(p), NEW l \in 1..Len(p), p[k] = p[l]
        PROVE  k = l
    <3>1. s[Nth(I, k)] = s[Nth(I, l)] /\ Nth(I, k) \in 1..Len(s) /\ Nth(I, l) \in 1..Len(s)
      BY <1>1, <1>2, <2>1
    <3>2. Nth(I, k) = Nth(I, l)
      BY <1>1, <3>1
    <3> QED
      BY <1>2, <3>2
  <2> QED
    BY <1>2, <2>1, IsList
<1>4. Len(p) <= Len(s)
  <2>1. IsFiniteSet(1..Len(s)) /\ Cardinality(1..Len(s)) = Len(s)
    <3>1. 1 \in Int /\ Len(s) \in Int
      BY <1>1
    <3>2. IsFiniteSet(1..Len(s)) /\ Cardinality(1..Len(s)) = IF 1 > Len(s) THEN 0 ELSE Len(s) - 1 + 1
      BY <3>1, FS_Interval, Zenon
    <3> QED
      BY <1>1, <3>2
  <2>2. I \in SUBSET (1..Len(s))
    BY <1>1
  <2> QED
    BY <1>2, <2>1, <2>2, FS_Subset
<1>5. \A d \in ToSet(p) : \E i \in I : s[i] = d
  BY <1>2 DEF ToSet
<1>6. \A i \in I : s[i] \in ToSet(p)
  BY <1>2 DEF ToSet
<1>7. ASSUME 1 \in I
      PROVE  Len(p) # 0 /\ p[1] = s[1]
  <2>1. PICK k \in 1..Len(p) : Nth(I, k) = 1
    BY <1>2, <1>7
  <2>2. k \in 1..Cardinality(I) /\ I \in SUBSET (1..Len(s))
    BY <1>1, <1>2
  <2>3. Rank(I, 1) = k
    BY <1>1, <2>1, <2>2, NthFacts
  <2>4. {j \in I : j <= 1} = {1}
    BY <1>7, <2>2
  <2>5. Rank(I, 1) = 1
    BY <2>4, FS_Singleton DEF Rank
  <2>6. k = 1
    BY <2>3, <2>5
  <2> QED
    BY <1>2, <2>1, <2>6
<1> QED
  BY <1>3, <1>4, <1>5, <1>6, <1>7 DEF IsSublist, p

(* The first chunks of a list. *)
LEMMA WindowList ==
    ASSUME NEW S, NEW s \in Lists(S), NEW n \in Nat
    PROVE  /\ Window(s, n) \in Lists(S)
           /\ Len(Window(s, n)) <= n /\ Len(Window(s, n)) <= Len(s)
           /\ Len(Window(s, n)) < n => Window(s, n) = s
           /\ \A d \in ToSet(Window(s, n)) : d \in ToSet(s)
           /\ Len(s) # 0 /\ n # 0 => Len(Window(s, n)) # 0 /\ Window(s, n)[1] = s[1]
<1> DEFINE m == Least(n, Len(s))
<1> DEFINE w == SubSeq(s, 1, m)
<1> HIDE DEF m, w
<1>1. /\ s \in Seq(S) /\ Len(s) \in Nat /\ DOMAIN s = 1..Len(s)
      /\ \A i \in 1..Len(s) : s[i] \in S /\ s[i] \in ToSet(s)
      /\ \A i, j \in 1..Len(s) : s[i] = s[j] => i = j
  BY ListFacts
<1>2. m \in Nat /\ m <= n /\ m <= Len(s)
  BY <1>1 DEF Least, m
<1>10. m # n => m = Len(s)
  BY <1>1 DEF Least, m
<1>3. w \in Seq(S) /\ Len(w) = m /\ \A i \in 1..m : w[i] = s[i]
  <2>1. 1 \in Int /\ m \in Int /\ \A i \in 1..m : s[i] \in S
    BY <1>1, <1>2
  <2>2. /\ w \in Seq(S) /\ Len(w) = IF 1 <= m THEN m - 1 + 1 ELSE 0
        /\ \A i \in 1..(m - 1 + 1) : w[i] = s[1 + i - 1]
    BY <2>1, SubSeqProperties DEF w
  <2> QED
    BY <1>2, <2>2
<1>4. w \in Lists(S)
  <2>1. \A i, j \in 1..Len(w) : w[i] = w[j] => i = j
    BY <1>1, <1>2, <1>3
  <2> QED
    BY <1>3, <2>1, IsList
<1>5. m = Len(s) => w = s
  BY <1>1, <1>3, SeqEqual
<1>6. Window(s, n) = w
  BY DEF Window, m, w
<1>7. DOMAIN w = 1..Len(w)
  BY <1>4, ListFacts
<1>8. \A d \in ToSet(w) : d \in ToSet(s)
  BY <1>1, <1>2, <1>3, <1>7 DEF ToSet
<1>9. Len(s) # 0 /\ n # 0 => Len(w) # 0 /\ w[1] = s[1]
  <2> SUFFICES ASSUME Len(s) # 0, n # 0
               PROVE  Len(w) # 0 /\ w[1] = s[1]
    OBVIOUS
  <2>1. m # 0
    BY <1>10
  <2>2. 1 \in 1..m
    BY <1>2, <2>1
  <2> QED
    BY <1>3, <2>1, <2>2
<1>11. Len(w) < n => w = s
  BY <1>2, <1>3, <1>5, <1>10
<1> QED
  BY <1>2, <1>3, <1>4, <1>6, <1>8, <1>9, <1>11

(* One more chunk at the end of a list. *)
LEMMA AppendList ==
    ASSUME NEW S, NEW s \in Lists(S), NEW d \in S, d \notin ToSet(s)
    PROVE  /\ Append(s, d) \in Lists(S) /\ Len(Append(s, d)) = Len(s) + 1
           /\ \A i \in 1..Len(s) : Append(s, d)[i] = s[i]
           /\ d \in ToSet(Append(s, d))
<1> DEFINE a == Append(s, d)
<1>1. /\ s \in Seq(S) /\ Len(s) \in Nat /\ DOMAIN s = 1..Len(s)
      /\ \A i \in 1..Len(s) : s[i] \in S /\ s[i] \in ToSet(s)
      /\ \A i, j \in 1..Len(s) : s[i] = s[j] => i = j
  BY ListFacts
<1>2. /\ a \in Seq(S) /\ Len(a) = Len(s) + 1
      /\ \A i \in 1..Len(s) : a[i] = s[i]
      /\ a[Len(s) + 1] = d
  BY <1>1, AppendProperties
<1> HIDE DEF a
<1>3. \A i \in 1..Len(a) : i \in 1..Len(s) \/ i = Len(s) + 1
  BY <1>1, <1>2
<1>4. \A i \in 1..Len(s) : a[i] # d
  BY <1>1, <1>2
<1>5. ASSUME NEW i \in 1..Len(a), NEW j \in 1..Len(a), a[i] = a[j]
      PROVE  i = j
  <2>1. CASE i \in 1..Len(s) /\ j \in 1..Len(s)
    BY <1>1, <1>2, <1>5, <2>1
  <2>2. CASE i = Len(s) + 1 /\ j \in 1..Len(s)
    BY <1>2, <1>4, <1>5, <2>2
  <2>3. CASE i \in 1..Len(s) /\ j = Len(s) + 1
    BY <1>2, <1>4, <1>5, <2>3
  <2>4. CASE i = Len(s) + 1 /\ j = Len(s) + 1
    BY <2>4
  <2> QED
    BY <1>3, <2>1, <2>2, <2>3, <2>4
<1>6. a \in Lists(S)
  BY <1>2, <1>5, IsList
<1>7. d \in ToSet(a)
  <2>1. Len(s) + 1 \in 1..Len(a)
    BY <1>1, <1>2
  <2>2. a[Len(s) + 1] \in ToSet(a)
    BY <1>6, <2>1, ListFacts
  <2> QED
    BY <1>2, <2>2
<1> QED
  BY <1>2, <1>6, <1>7 DEF a

(* One list after another that shares no chunk with it. *)
LEMMA ConcatList ==
    ASSUME NEW S, NEW s \in Lists(S), NEW t \in Lists(S), \A d \in ToSet(s) : d \notin ToSet(t)
    PROVE  /\ s \o t \in Lists(S) /\ Len(s \o t) = Len(s) + Len(t)
           /\ \A i \in 1..Len(s) : (s \o t)[i] = s[i]
           /\ \A d \in ToSet(s) : d \in ToSet(s \o t)
           /\ \A d \in ToSet(t) : d \in ToSet(s \o t)
           /\ \A d \in ToSet(s \o t) : d \in ToSet(s) \/ d \in ToSet(t)
<1> DEFINE c == s \o t
<1>1. /\ s \in Seq(S) /\ Len(s) \in Nat /\ DOMAIN s = 1..Len(s)
      /\ \A i \in 1..Len(s) : s[i] \in ToSet(s)
      /\ \A d \in ToSet(s) : \E i \in 1..Len(s) : s[i] = d
      /\ \A i, j \in 1..Len(s) : s[i] = s[j] => i = j
  BY ListFacts
<1>2. /\ t \in Seq(S) /\ Len(t) \in Nat /\ DOMAIN t = 1..Len(t)
      /\ \A i \in 1..Len(t) : t[i] \in ToSet(t)
      /\ \A d \in ToSet(t) : \E i \in 1..Len(t) : t[i] = d
      /\ \A i, j \in 1..Len(t) : t[i] = t[j] => i = j
  BY ListFacts
<1>3. /\ c \in Seq(S) /\ Len(c) = Len(s) + Len(t)
      /\ \A i \in 1..Len(c) : c[i] = IF i <= Len(s) THEN s[i] ELSE t[i - Len(s)]
  BY <1>1, <1>2, ConcatProperties
<1> HIDE DEF c
<1>4. \A i \in 1..Len(s) : i \in 1..Len(c) /\ c[i] = s[i]
  BY <1>1, <1>2, <1>3
<1>5. \A i \in 1..Len(t) : i + Len(s) \in 1..Len(c) /\ c[i + Len(s)] = t[i]
  <2> SUFFICES ASSUME NEW i \in 1..Len(t)
               PROVE  i + Len(s) \in 1..Len(c) /\ c[i + Len(s)] = t[i]
    OBVIOUS
  <2>1. i + Len(s) \in 1..Len(c) /\ ~(i + Len(s) <= Len(s)) /\ (i + Len(s)) - Len(s) = i
    BY <1>1, <1>2, <1>3
  <2> QED
    BY <1>3, <2>1
<1>6. ASSUME NEW i \in 1..Len(c)
      PROVE  \/ i \in 1..Len(s) /\ c[i] = s[i]
             \/ i - Len(s) \in 1..Len(t) /\ c[i] = t[i - Len(s)]
  <2>1. CASE i <= Len(s)
    BY <1>1, <1>3, <1>6, <2>1
  <2>2. CASE ~(i <= Len(s))
    BY <1>1, <1>2, <1>3, <1>6, <2>2
  <2> QED
    BY <2>1, <2>2
<1>7. ASSUME NEW i \in 1..Len(c), NEW j \in 1..Len(c), c[i] = c[j]
      PROVE  i = j
  <2>1. CASE i \in 1..Len(s) /\ c[i] = s[i] /\ j \in 1..Len(s) /\ c[j] = s[j]
    BY <1>1, <1>7, <2>1
  <2>2. CASE /\ i - Len(s) \in 1..Len(t) /\ c[i] = t[i - Len(s)]
             /\ j - Len(s) \in 1..Len(t) /\ c[j] = t[j - Len(s)]
    <3>1. i - Len(s) = j - Len(s)
      BY <1>2, <1>7, <2>2
    <3> QED
      BY <1>1, <1>7, <3>1
  <2>3. CASE i \in 1..Len(s) /\ c[i] = s[i] /\ j - Len(s) \in 1..Len(t) /\ c[j] = t[j - Len(s)]
    <3>1. c[i] \in ToSet(s) /\ c[j] \in ToSet(t)
      BY <1>1, <1>2, <2>3
    <3> QED
      BY <1>7, <3>1
  <2>4. CASE j \in 1..Len(s) /\ c[j] = s[j] /\ i - Len(s) \in 1..Len(t) /\ c[i] = t[i - Len(s)]
    <3>1. c[j] \in ToSet(s) /\ c[i] \in ToSet(t)
      BY <1>1, <1>2, <2>4
    <3> QED
      BY <1>7, <3>1
  <2> QED
    BY <1>6, <2>1, <2>2, <2>3, <2>4
<1>8. c \in Lists(S)
  BY <1>3, <1>7, IsList
<1>9. DOMAIN c = 1..Len(c)
  BY <1>8, ListFacts
<1>10. \A i \in 1..Len(c) : c[i] \in ToSet(c)
  BY <1>8, ListFacts
<1>11. \A d \in ToSet(s) : d \in ToSet(c)
  BY <1>1, <1>4, <1>10
<1>12. \A d \in ToSet(t) : d \in ToSet(c)
  BY <1>2, <1>5, <1>10
<1>13. ASSUME NEW d \in ToSet(c)
       PROVE  d \in ToSet(s) \/ d \in ToSet(t)
  <2>1. PICK i \in 1..Len(c) : c[i] = d
    BY <1>8, ListFacts
  <2>2. CASE i \in 1..Len(s) /\ c[i] = s[i]
    BY <1>1, <2>1, <2>2
  <2>3. CASE i - Len(s) \in 1..Len(t) /\ c[i] = t[i - Len(s)]
    BY <1>2, <2>1, <2>3
  <2> QED
    BY <1>6, <2>2, <2>3
<1> QED
  BY <1>3, <1>4, <1>8, <1>11, <1>12, <1>13 DEF c

(* What of one list is not in another. *)
LEMMA WithoutList ==
    ASSUME NEW S, NEW s \in Lists(S), NEW t
    PROVE  /\ Without(s, t) \in Lists(S) /\ Len(Without(s, t)) <= Len(s)
           /\ \A d \in ToSet(Without(s, t)) : d \in ToSet(s) /\ d \notin ToSet(t)
           /\ \A d \in ToSet(s) : d \notin ToSet(t) => d \in ToSet(Without(s, t))
<1> DEFINE I == {i \in DOMAIN s : s[i] \notin ToSet(t)}
<1>1. Without(s, t) = Picked(s, I)
  BY DEF Without, Selected
<1>2. I \in SUBSET DOMAIN s
  OBVIOUS
<1>3. /\ DOMAIN s = 1..Len(s)
      /\ \A i \in 1..Len(s) : s[i] \in ToSet(s)
      /\ \A d \in ToSet(s) : \E i \in 1..Len(s) : s[i] = d
  BY ListFacts
<1>4. IsSublist(S, s, I, Picked(s, I))
  <2> HIDE DEF I
  <2> QED
    BY <1>2, PickedList
<1>5. \A d \in ToSet(Picked(s, I)) : \E i \in I : s[i] = d
  BY <1>4 DEF IsSublist
<1>6. \A i \in I : s[i] \in ToSet(Picked(s, I))
  BY <1>4 DEF IsSublist
<1>7. \A d \in ToSet(Picked(s, I)) : d \in ToSet(s) /\ d \notin ToSet(t)
  BY <1>3, <1>5
<1>8. \A d \in ToSet(s) : d \notin ToSet(t) => d \in ToSet(Picked(s, I))
  BY <1>3, <1>6
<1> QED
  BY <1>1, <1>4, <1>7, <1>8 DEF IsSublist

(* What is merged with a ranked list: the ranked list's first chunk stays  *)
(* the first, and unless the limit is reached both lists are there.        *)
LEMMA MergeList ==
    ASSUME NEW S, NEW s \in Lists(S), NEW t \in Lists(S), NEW n \in Nat
    PROVE  /\ MergeRanked(s, t, n) \in Lists(S) /\ Len(MergeRanked(s, t, n)) <= n
           /\ Len(s) # 0 /\ n # 0 =>
                Len(MergeRanked(s, t, n)) # 0 /\ MergeRanked(s, t, n)[1] = s[1]
           /\ Len(MergeRanked(s, t, n)) < n =>
                /\ \A d \in ToSet(s) : d \in ToSet(MergeRanked(s, t, n))
                /\ \A d \in ToSet(t) : d \in ToSet(MergeRanked(s, t, n))
<1> DEFINE w == Without(t, s)
<1> DEFINE c == s \o w
<1>1. MergeRanked(s, t, n) = Window(c, n)
  BY DEF MergeRanked
<1>2. /\ w \in Lists(S)
      /\ \A d \in ToSet(w) : d \in ToSet(t) /\ d \notin ToSet(s)
      /\ \A d \in ToSet(t) : d \notin ToSet(s) => d \in ToSet(w)
  BY WithoutList
<1> HIDE DEF w
<1>3. /\ c \in Lists(S) /\ Len(c) = Len(s) + Len(w)
      /\ \A i \in 1..Len(s) : c[i] = s[i]
      /\ \A d \in ToSet(s) : d \in ToSet(c)
      /\ \A d \in ToSet(w) : d \in ToSet(c)
  <2>1. \A d \in ToSet(s) : d \notin ToSet(w)
    BY <1>2
  <2> QED
    BY <1>2, <2>1, ConcatList
<1> HIDE DEF c
<1>4. /\ Window(c, n) \in Lists(S) /\ Len(Window(c, n)) <= n
      /\ Len(Window(c, n)) < n => Window(c, n) = c
      /\ Len(c) # 0 /\ n # 0 => Len(Window(c, n)) # 0 /\ Window(c, n)[1] = c[1]
  BY <1>3, WindowList
<1>5. \A d \in ToSet(t) : d \in ToSet(c)
  BY <1>2, <1>3
<1>6. Len(s) # 0 => Len(c) # 0 /\ c[1] = s[1]
  <2>1. Len(s) \in Nat /\ Len(w) \in Nat
    BY <1>2, ListFacts
  <2> QED
    BY <1>3, <2>1
<1> QED
  BY <1>1, <1>3, <1>4, <1>5, <1>6

(* The candidates with an exact identifier go first, and the one that does *)
(* is a candidate.                                                         *)
LEMMA ProtectList ==
    ASSUME NEW S, NEW s \in Lists(S), NEW t \in Lists(S), NEW n \in Nat \ {0}
    PROVE  /\ ProtectAnchors(s, t, n) \in Lists(S) /\ Len(ProtectAnchors(s, t, n)) <= n
           /\ Len(s) # 0 => Len(ProtectAnchors(s, t, n)) # 0
           /\ (\E d \in ToSet(t) : d.anchored) =>
                /\ Len(ProtectAnchors(s, t, n)) # 0
                /\ ProtectAnchors(s, t, n)[1] \in ToSet(t)
                /\ ProtectAnchors(s, t, n)[1].anchored
<1> DEFINE I == {i \in DOMAIN t : t[i].anchored}
<1> DEFINE a == Picked(t, I)
<1> DEFINE w == Window(a, Least(3, n))
<1>1. ProtectAnchors(s, t, n) = MergeRanked(w, s, n)
  BY DEF ProtectAnchors, Selected
<1>2. /\ DOMAIN t = 1..Len(t)
      /\ \A i \in 1..Len(t) : t[i] \in ToSet(t)
      /\ \A d \in ToSet(t) : \E i \in 1..Len(t) : t[i] = d
  BY ListFacts
<1>3. IsSublist(S, t, I, a)
  <2>1. I \in SUBSET DOMAIN t
    OBVIOUS
  <2> HIDE DEF I
  <2> QED
    BY <2>1, PickedList
<1>4. a \in Lists(S) /\ \A d \in ToSet(a) : d \in ToSet(t) /\ d.anchored
  <2>1. a \in Lists(S) /\ \A d \in ToSet(a) : \E i \in I : t[i] = d
    BY <1>3 DEF IsSublist
  <2> QED
    BY <1>2, <2>1
<1>5. (\E d \in ToSet(t) : d.anchored) => Len(a) # 0
  <2> SUFFICES ASSUME NEW d \in ToSet(t), d.anchored
               PROVE  Len(a) # 0
    OBVIOUS
  <2>1. PICK i \in I : t[i] = d
    BY <1>2
  <2>2. t[i] \in ToSet(a)
    BY <1>3 DEF IsSublist
  <2> HIDE DEF a
  <2>3. \E k \in 1..Len(a) : a[k] = t[i]
    BY <1>4, <2>2, ListFacts
  <2> QED
    BY <2>3
<1> HIDE DEF a
<1>6. Least(3, n) \in Nat /\ Least(3, n) # 0
  BY DEF Least
<1>7. w \in Lists(S) /\ \A d \in ToSet(w) : d \in ToSet(a)
  BY <1>4, <1>6, WindowList
<1>8. Len(a) # 0 => Len(w) # 0
  BY <1>4, <1>6, WindowList
<1> HIDE DEF w
<1> DEFINE m == MergeRanked(w, s, n)
<1>9. /\ m \in Lists(S) /\ Len(m) <= n
      /\ Len(w) # 0 => Len(m) # 0 /\ m[1] = w[1]
      /\ Len(m) < n => \A d \in ToSet(s) : d \in ToSet(m)
  BY <1>7, MergeList
<1> HIDE DEF m
<1>10. Len(w) # 0 => w[1] \in ToSet(t) /\ w[1].anchored
  <2> SUFFICES ASSUME Len(w) # 0
               PROVE  w[1] \in ToSet(t) /\ w[1].anchored
    OBVIOUS
  <2>1. 1 \in 1..Len(w) /\ w[1] \in ToSet(w)
    BY <1>7, ListFacts
  <2> QED
    BY <1>4, <1>7, <2>1
<1>11. Len(s) # 0 => Len(m) # 0
  <2> SUFFICES ASSUME Len(s) # 0, Len(m) = 0
               PROVE  FALSE
    BY <1>9
  <2>1. s[1] \in ToSet(s)
    BY ListFacts
  <2>2. s[1] \in ToSet(m)
    BY <1>9, <2>1
  <2>3. \E k \in 1..Len(m) : m[k] = s[1]
    BY <1>9, <2>2, ListFacts
  <2> QED
    BY <2>3
<1> QED
  BY <1>1, <1>5, <1>8, <1>9, <1>10, <1>11 DEF m

(* A list has as many chunks as the set of its chunks. *)
LEMMA ListSize ==
    ASSUME NEW S, NEW s \in Lists(S)
    PROVE  IsFiniteSet(ToSet(s)) /\ Cardinality(ToSet(s)) = Len(s)
<1>1. /\ s \in Seq(S) /\ Len(s) \in Nat /\ DOMAIN s = 1..Len(s)
      /\ \A i \in 1..Len(s) : s[i] \in ToSet(s)
      /\ \A d \in ToSet(s) : \E i \in 1..Len(s) : s[i] = d
      /\ \A i, j \in 1..Len(s) : s[i] = s[j] => i = j
  BY ListFacts
<1>2. IsFiniteSet(1..Len(s)) /\ Cardinality(1..Len(s)) = Len(s)
  <2>1. 1 \in Int /\ Len(s) \in Int
    BY <1>1
  <2>2. IsFiniteSet(1..Len(s)) /\ Cardinality(1..Len(s)) = IF 1 > Len(s) THEN 0 ELSE Len(s) - 1 + 1
    BY <2>1, FS_Interval, Zenon
  <2> QED
    BY <1>1, <2>2
<1>3. s \in [1..Len(s) -> ToSet(s)]
  <2>1. s = [i \in 1..Len(s) |-> s[i]]
    BY <1>1, LenProperties
  <2> QED
    BY <1>1, <2>1
<1>4. ExistsBijection(1..Len(s), ToSet(s))
  BY <1>1, <1>3 DEF ExistsBijection, Bijection, Injection, Surjection, IsInjective
<1> QED
  BY <1>2, <1>4, FS_Bijection

(* The first chunk of each source first, the others after: the same chunks,*)
(* the first of them the same.                                             *)
LEMMA DiverseList ==
    ASSUME NEW S, NEW s \in Lists(S)
    PROVE  /\ DiverseOrder(s) \in Lists(S) /\ Len(DiverseOrder(s)) = Len(s)
           /\ ToSet(DiverseOrder(s)) = ToSet(s)
           /\ Len(s) # 0 => DiverseOrder(s)[1] = s[1]
<1> DEFINE I == {i \in DOMAIN s : \A j \in DOMAIN s : j < i => s[j].source # s[i].source}
<1> DEFINE p == Picked(s, I)
<1> DEFINE w == Without(s, p)
<1> DEFINE c == p \o w
<1>1. DiverseOrder(s) = c
  BY DEF DiverseOrder, FirstOfEach
<1>2. /\ DOMAIN s = 1..Len(s) /\ Len(s) \in Nat
      /\ \A i \in 1..Len(s) : s[i] \in ToSet(s)
      /\ \A d \in ToSet(s) : \E i \in 1..Len(s) : s[i] = d
  BY ListFacts
<1>3. Len(s) # 0 => 1 \in I
  BY <1>2
<1>4. IsSublist(S, s, I, p)
  <2>1. I \in SUBSET DOMAIN s
    OBVIOUS
  <2> HIDE DEF I
  <2> QED
    BY <2>1, PickedList
<1>5. /\ p \in Lists(S) /\ \A d \in ToSet(p) : d \in ToSet(s)
      /\ Len(s) # 0 => Len(p) # 0 /\ p[1] = s[1]
  <2>1. \A d \in ToSet(p) : \E i \in I : s[i] = d
    BY <1>4 DEF IsSublist
  <2>2. p \in Lists(S)
    BY <1>4 DEF IsSublist
  <2>3. Len(s) # 0 => Len(p) # 0 /\ p[1] = s[1]
    BY <1>3, <1>4 DEF IsSublist
  <2> QED
    BY <1>2, <2>1, <2>2, <2>3
<1> HIDE DEF I, p
<1>6. /\ w \in Lists(S)
      /\ \A d \in ToSet(w) : d \in ToSet(s) /\ d \notin ToSet(p)
      /\ \A d \in ToSet(s) : d \notin ToSet(p) => d \in ToSet(w)
  BY WithoutList
<1> HIDE DEF w
<1>7. /\ c \in Lists(S) /\ Len(c) = Len(p) + Len(w)
      /\ \A i \in 1..Len(p) : c[i] = p[i]
      /\ \A d \in ToSet(p) : d \in ToSet(c)
      /\ \A d \in ToSet(w) : d \in ToSet(c)
      /\ \A d \in ToSet(c) : d \in ToSet(p) \/ d \in ToSet(w)
  <2>1. \A d \in ToSet(p) : d \notin ToSet(w)
    BY <1>6
  <2> QED
    BY <1>5, <1>6, <2>1, ConcatList
<1> HIDE DEF c
<1>8. ToSet(c) = ToSet(s)
  BY <1>5, <1>6, <1>7
<1>9. Len(c) = Len(s)
  BY <1>7, <1>8, ListSize
<1>10. Len(s) # 0 => c[1] = s[1]
  <2>1. Len(p) \in Nat
    BY <1>5, ListFacts
  <2> QED
    BY <1>5, <1>7, <2>1
<1> QED
  BY <1>1, <1>7, <1>8, <1>9, <1>10

(* Pages with a place kept for others are not fewer than none. *)
LEMMA ReserveList ==
    ASSUME NEW S, NEW s \in Lists(S), NEW n \in Nat
    PROVE  /\ ReserveForPages(s, n) \in Lists(S)
           /\ Len(s) # 0 => Len(ReserveForPages(s, n)) # 0
<1> DEFINE I == {i \in DOMAIN s : s[i].type \in {"PAGE"}}
<1> DEFINE p == Picked(s, I)
<1> DEFINE o == Window(Without(s, p), CodeTopN)
<1> DEFINE m == Most(1, n - Len(o))
<1> DEFINE w == Window(p, m)
<1>1. ReserveForPages(s, n) = IF p = <<>> THEN s ELSE w \o o
  BY DEF ReserveForPages, OfType, Selected
<1>2. p \in Lists(S)
  <2>1. I \in SUBSET DOMAIN s
    OBVIOUS
  <2> HIDE DEF I
  <2>2. IsSublist(S, s, I, p)
    BY <2>1, PickedList
  <2> QED
    BY <2>2 DEF IsSublist
<1> HIDE DEF I, p
<1>3. /\ Without(s, p) \in Lists(S)
      /\ \A d \in ToSet(Without(s, p)) : d \notin ToSet(p)
  BY WithoutList
<1>4. o \in Lists(S) /\ Len(o) \in Nat /\ \A d \in ToSet(o) : d \notin ToSet(p)
  <2>1. o \in Lists(S) /\ \A d \in ToSet(o) : d \in ToSet(Without(s, p))
    BY <1>3, WindowList, WindowAssumption
  <2> HIDE DEF o
  <2> QED
    BY <1>3, <2>1, ListFacts
<1> HIDE DEF o
<1>5. m \in Nat /\ m # 0
  BY <1>4 DEF Most
<1> HIDE DEF m
<1>6. w \in Lists(S) /\ \A d \in ToSet(w) : d \in ToSet(p)
  BY <1>2, <1>5, WindowList
<1>7. Len(p) # 0 => Len(w) # 0
  BY <1>2, <1>5, WindowList
<1>8. Len(w) \in Nat
  BY <1>6, ListFacts
<1> HIDE DEF w
<1>9. w \o o \in Lists(S) /\ Len(w \o o) = Len(w) + Len(o)
  <2>1. \A d \in ToSet(w) : d \notin ToSet(o)
    BY <1>4, <1>6
  <2> QED
    BY <1>4, <1>6, <2>1, ConcatList
<1>10. CASE p = <<>>
  BY <1>1, <1>10
<1>11. CASE p # <<>>
  <2>1. Len(p) # 0
    BY <1>2, <1>11, NoChunk
  <2>2. Len(w \o o) # 0
    BY <1>4, <1>7, <1>8, <1>9, <2>1
  <2> QED
    BY <1>1, <1>9, <1>11, <2>2
<1> QED
  BY <1>10, <1>11

-----------------------------------------------------------------------------
(* Folds *)

(* A set of positions that holds 0 and the one after each of its own up to *)
(* n holds them all.                                                       *)
LEMMA Upto ==
    ASSUME NEW n \in Nat, NEW I \in SUBSET (0..n), 0 \in I,
           \A i \in 1..n : i - 1 \in I => i \in I
    PROVE  I = 0..n
<1> DEFINE T == {i \in 0..n : i \notin I}
<1>1. T \in SUBSET Nat
  OBVIOUS
<1>2. ASSUME T # {}
      PROVE  FALSE
  <2>1. PICK m \in T : \A i \in T : m <= i
    BY <1>1, <1>2, Smallest
  <2>2. m \in 1..n /\ m - 1 \in 0..n
    BY <2>1
  <2>3. m - 1 \in I
    <3>1. ~(m <= m - 1)
      BY <2>2
    <3>2. m - 1 \notin T
      BY <2>1, <3>1
    <3> QED
      BY <2>2, <3>2
  <2> QED
    BY <2>1, <2>2, <2>3
<1> QED
  BY <1>2

(* The values a fold goes through. *)
IsFold(n, s, G, f) == f = [i \in 0..n |-> IF i = 0 THEN s ELSE G[<<i, f[i - 1]>>]]

(* There are such values: were there a number of steps for which there are *)
(* none, the least such number's predecessor would have them, and one more *)
(* step would follow.                                                      *)
LEMMA Recursion ==
    ASSUME NEW n \in Nat, NEW S, NEW s \in S, NEW G \in [(1..n) \X S -> S]
    PROVE  \E f \in [0..n -> S] : IsFold(n, s, G, f)
<1> DEFINE I == {m \in 0..n : \E f \in [0..m -> S] : IsFold(m, s, G, f)}
<1>1. 0 \in I
  <2> DEFINE f == [i \in 0..0 |-> s]
  <2>1. f \in [0..0 -> S]
    OBVIOUS
  <2>2. \A i \in 0..0 : i = 0
    OBVIOUS
  <2>3. IsFold(0, s, G, f)
    BY <2>2 DEF IsFold
  <2> QED
    BY <2>1, <2>3
<1>2. ASSUME NEW m \in 1..n, m - 1 \in I
      PROVE  m \in I
  <2>1. PICK f \in [0..(m - 1) -> S] : IsFold(m - 1, s, G, f)
    BY <1>2
  <2>2. /\ \A i \in 0..(m - 1) : f[i] \in S
        /\ \A i \in 0..(m - 1) : f[i] = IF i = 0 THEN s ELSE G[<<i, f[i - 1]>>]
    BY <2>1 DEF IsFold
  <2> DEFINE g == [i \in 0..m |-> IF i = m THEN G[<<m, f[m - 1]>>] ELSE f[i]]
  <2>3. m - 1 \in 0..(m - 1) /\ \A i \in 0..m : i # m => i \in 0..(m - 1)
    OBVIOUS
  <2>4. G[<<m, f[m - 1]>>] \in S
    BY <2>2, <2>3
  <2>5. g \in [0..m -> S]
    BY <2>2, <2>3, <2>4
  <2>6. ASSUME NEW i \in 0..m
        PROVE  g[i] = IF i = 0 THEN s ELSE G[<<i, g[i - 1]>>]
    <3>1. CASE i = 0
      <4>1. i # m /\ i \in 0..(m - 1)
        BY <3>1
      <4> QED
        BY <2>2, <3>1, <4>1
    <3>2. CASE i # 0 /\ i = m
      <4>1. m - 1 \in 0..m /\ m - 1 # m
        OBVIOUS
      <4>2. g[m - 1] = f[m - 1]
        BY <4>1
      <4> QED
        BY <3>2, <4>2
    <3>3. CASE i # 0 /\ i # m
      <4>1. i - 1 \in 0..m /\ i - 1 # m /\ i \in 0..(m - 1)
        BY <3>3
      <4>2. g[i - 1] = f[i - 1] /\ g[i] = f[i]
        BY <3>3, <4>1
      <4> QED
        BY <2>2, <3>3, <4>1, <4>2
    <3> QED
      BY <3>1, <3>2, <3>3
  <2>7. IsFold(m, s, G, g)
    <3>1. g = [i \in 0..m |-> g[i]]
      BY Zenon
    <3> HIDE DEF g
    <3> QED
      BY <2>6, <3>1 DEF IsFold
  <2> QED
    BY <2>5, <2>7
<1>3. I = 0..n
  <2>1. I \in SUBSET (0..n)
    OBVIOUS
  <2>2. \A m \in 1..n : m - 1 \in I => m \in I
    BY <1>2
  <2> HIDE DEF I
  <2> QED
    BY <1>1, <2>1, <2>2, Upto
<1> QED
  BY <1>3

(* t is a list that begins with s. *)
Extends(S, s, t) ==
    t \in Lists(S) /\ Len(s) <= Len(t) /\ \A i \in 1..Len(s) : t[i] = s[i]

(* A list begins with itself, and with what its beginnings begin with. *)
LEMMA ExtendsSelf ==
    ASSUME NEW S, NEW s \in Lists(S)
    PROVE  Extends(S, s, s)
<1>1. Len(s) \in Nat
  BY ListFacts
<1> QED
  BY <1>1 DEF Extends

LEMMA ExtendsOn ==
    ASSUME NEW S, NEW s \in Lists(S), NEW t, NEW u, Extends(S, s, t), Extends(S, t, u)
    PROVE  Extends(S, s, u)
<1>1. Len(s) \in Nat /\ Len(t) \in Nat /\ Len(u) \in Nat
  BY ListFacts DEF Extends
<1>2. Len(s) <= Len(t) /\ Len(t) <= Len(u) /\ u \in Lists(S)
  BY DEF Extends
<1>3. \A i \in 1..Len(s) : u[i] = s[i]
  BY <1>1, <1>2 DEF Extends
<1> QED
  BY <1>1, <1>2, <1>3 DEF Extends

(* What a list begins with, all of it and first of all its first chunk. *)
LEMMA ExtendsFacts ==
    ASSUME NEW S, NEW s \in Lists(S), NEW t, Extends(S, s, t)
    PROVE  /\ t \in Lists(S)
           /\ \A d \in ToSet(s) : d \in ToSet(t)
           /\ Len(s) # 0 => Len(t) # 0 /\ t[1] = s[1]
<1>1. Len(s) \in Nat /\ \A d \in ToSet(s) : \E i \in 1..Len(s) : s[i] = d
  BY ListFacts
<1>2. t \in Lists(S) /\ Len(s) <= Len(t) /\ \A i \in 1..Len(s) : t[i] = s[i]
  BY DEF Extends
<1>3. Len(t) \in Nat /\ \A i \in 1..Len(t) : t[i] \in ToSet(t)
  BY <1>2, ListFacts
<1>4. \A d \in ToSet(s) : d \in ToSet(t)
  <2> SUFFICES ASSUME NEW d \in ToSet(s)
               PROVE  d \in ToSet(t)
    OBVIOUS
  <2>1. PICK i \in 1..Len(s) : s[i] = d
    BY <1>1
  <2>2. i \in 1..Len(t) /\ t[i] = s[i]
    BY <1>1, <1>2, <1>3
  <2> QED
    BY <1>3, <2>1, <2>2
<1>5. Len(s) # 0 => Len(t) # 0 /\ t[1] = s[1]
  BY <1>1, <1>2, <1>3
<1> QED
  BY <1>2, <1>4, <1>5

(* A chunk may be added at the end, and the first chunk of all is. *)
LEMMA WithinSource ==
    ASSUME NEW S, NEW s \in Lists(S), NEW d \in S
    PROVE  /\ Extends(S, s, AddWithinSource(s, d))
           /\ Len(s) = 0 => /\ Len(AddWithinSource(s, d)) # 0
                            /\ AddWithinSource(s, d)[1] = d
<1> DEFINE I == {i \in DOMAIN s : s[i].source = d.source}
<1>1. AddWithinSource(s, d) =
        IF d \in ToSet(s) \/ Len(Picked(s, I)) >= PerSource THEN s ELSE Append(s, d)
  BY DEF AddWithinSource, Selected
<1>2. CASE d \in ToSet(s) \/ Len(Picked(s, I)) >= PerSource
  <2>1. ASSUME Len(s) = 0
        PROVE  FALSE
    <3>1. DOMAIN s = {} /\ d \notin ToSet(s)
      BY <2>1, ListFacts
    <3>2. I = {}
      BY <3>1
    <3>3. Len(Picked(s, I)) <= Len(s)
      <4>1. {} \in SUBSET DOMAIN s
        OBVIOUS
      <4> QED
        BY <3>2, <4>1, PickedList DEF IsSublist
    <3>4. Len(Picked(s, I)) \in Nat
      <4>1. {} \in SUBSET DOMAIN s
        OBVIOUS
      <4>2. Picked(s, I) \in Lists(S)
        BY <3>2, <4>1, PickedList DEF IsSublist
      <4> QED
        BY <4>2, ListFacts
    <3> HIDE DEF I
    <3>5. PerSource \in Nat /\ PerSource # 0
      BY WindowAssumption
    <3> QED
      BY <1>2, <2>1, <3>1, <3>3, <3>4, <3>5
  <2> HIDE DEF I
  <2> QED
    BY <1>1, <1>2, <2>1, ExtendsSelf
<1>3. CASE ~(d \in ToSet(s) \/ Len(Picked(s, I)) >= PerSource)
  <2> HIDE DEF I
  <2>1. /\ Append(s, d) \in Lists(S) /\ Len(Append(s, d)) = Len(s) + 1
        /\ \A i \in 1..Len(s) : Append(s, d)[i] = s[i]
    BY <1>3, AppendList
  <2>2. Len(s) \in Nat /\ s \in Seq(S)
    BY ListFacts
  <2>3. Append(s, d)[Len(s) + 1] = d
    BY <2>2
  <2>4. Extends(S, s, Append(s, d))
    BY <2>1, <2>2 DEF Extends
  <2>5. Len(s) = 0 => Len(Append(s, d)) # 0 /\ Append(s, d)[1] = d
    <3> SUFFICES ASSUME Len(s) = 0
                 PROVE  Len(Append(s, d)) # 0 /\ Append(s, d)[1] = d
      OBVIOUS
    <3>1. Len(Append(s, d)) = 1 /\ Len(s) + 1 = 1
      BY <2>1
    <3> QED
      BY <2>3, <3>1
  <2> QED
    BY <1>1, <1>3, <2>4, <2>5
<1> QED
  BY <1>2, <1>3

(* The neighbors of a chunk are added at the end. *)
LEMMA NeighborsList ==
    ASSUME NEW S, NEW s \in Lists(S), NEW t \in Lists(S)
    PROVE  Extends(S, s, AddNeighbors(s, t))
<1> DEFINE n == Len(t)
<1> DEFINE Body(f) == [i \in 0..n |-> IF i = 0 THEN s ELSE AddNeighbor(s, f[i - 1], t[i])]
<1> DEFINE add == CHOOSE f : f = Body(f)
<1>1. AddNeighbors(s, t) = add[n]
  BY DEF AddNeighbors
<1>2. n \in Nat /\ \A i \in 1..n : t[i] \in S
  BY ListFacts
<1>3. \A i \in 1..n, u \in Lists(S) :
        AddNeighbor(s, u, t[i]) \in Lists(S) /\ Extends(S, u, AddNeighbor(s, u, t[i]))
  <2> SUFFICES ASSUME NEW i \in 1..n, NEW u \in Lists(S)
               PROVE  /\ AddNeighbor(s, u, t[i]) \in Lists(S)
                      /\ Extends(S, u, AddNeighbor(s, u, t[i]))
    OBVIOUS
  <2>1. Extends(S, u, u) /\ Extends(S, u, AddWithinSource(u, t[i]))
    BY <1>2, ExtendsSelf, WithinSource
  <2>2. Extends(S, u, AddNeighbor(s, u, t[i]))
    BY <2>1 DEF AddNeighbor
  <2> QED
    BY <2>2, ExtendsFacts
<1>4. \E f : f = Body(f)
  <2> DEFINE G == [p \in (1..n) \X Lists(S) |-> AddNeighbor(s, p[2], t[p[1]])]
  <2>1. G \in [(1..n) \X Lists(S) -> Lists(S)]
    <3>1. \A p \in (1..n) \X Lists(S) : AddNeighbor(s, p[2], t[p[1]]) \in Lists(S)
      BY <1>3
    <3> QED
      BY <3>1
  <2>2. \A i \in 1..n, u \in Lists(S) : G[<<i, u>>] = AddNeighbor(s, u, t[i])
    OBVIOUS
  <2> HIDE DEF n, G
  <2>3. PICK f \in [0..n -> Lists(S)] : IsFold(n, s, G, f)
    BY <1>2, <2>1, Recursion
  <2>4. \A i \in 0..n : f[i] = IF i = 0 THEN s ELSE AddNeighbor(s, f[i - 1], t[i])
    <3>1. \A i \in 0..n : f[i] = IF i = 0 THEN s ELSE G[<<i, f[i - 1]>>]
      BY <2>3 DEF IsFold
    <3>2. \A i \in 0..n : i # 0 => i \in 1..n /\ i - 1 \in 0..n
      BY <1>2
    <3> QED
      BY <2>2, <3>1, <3>2
  <2>5. f = Body(f)
    BY <2>4
  <2> QED
    BY <2>5
<1>5. add = Body(add)
  BY <1>4
<1> HIDE DEF add
<1>6. add[0] = s /\ \A i \in 1..n : add[i] = AddNeighbor(s, add[i - 1], t[i])
  BY <1>2, <1>5
<1> DEFINE I == {i \in 0..n : add[i] \in Lists(S) /\ Extends(S, s, add[i])}
<1> HIDE DEF n
<1>7. 0 \in I
  BY <1>2, <1>6, ExtendsSelf
<1>8. \A i \in 1..n : i - 1 \in I => i \in I
  BY <1>3, <1>6, ExtendsOn
<1>9. I = 0..n
  <2> HIDE DEF I
  <2>1. I \in SUBSET (0..n)
    BY DEF I
  <2> QED
    BY <1>2, <1>7, <1>8, <2>1, Upto
<1> QED
  BY <1>1, <1>2, <1>9

(* A chunk is added with its neighbors, the first chunk of all in front. *)
LEMMA AnchorList ==
    ASSUME NEW S, NEW s \in Lists(S), NEW d \in S, NEW t \in Lists(S)
    PROVE  /\ AddAnchor(s, d, t) \in Lists(S)
           /\ Len(s) # 0 => Len(AddAnchor(s, d, t)) # 0 /\ AddAnchor(s, d, t)[1] = s[1]
           /\ Len(s) = 0 => Len(AddAnchor(s, d, t)) # 0 /\ AddAnchor(s, d, t)[1] = d
<1> DEFINE I == {i \in DOMAIN t : Beside(t[i], d)}
<1> DEFINE a == AddWithinSource(s, d)
<1>1. AddAnchor(s, d, t) = AddNeighbors(a, Picked(t, I))
  BY DEF AddAnchor, Selected
<1>2. Extends(S, s, a) /\ (Len(s) = 0 => Len(a) # 0 /\ a[1] = d)
  BY WithinSource
<1> HIDE DEF a
<1>3. a \in Lists(S) /\ (Len(s) # 0 => Len(a) # 0 /\ a[1] = s[1])
  BY <1>2, ExtendsFacts
<1>4. Picked(t, I) \in Lists(S)
  <2>1. I \in SUBSET DOMAIN t
    OBVIOUS
  <2> HIDE DEF I
  <2> QED
    BY <2>1, PickedList DEF IsSublist
<1> HIDE DEF I
<1>5. Extends(S, a, AddNeighbors(a, Picked(t, I)))
  BY <1>3, <1>4, NeighborsList
<1>6. /\ AddAnchor(s, d, t) \in Lists(S)
      /\ Len(a) # 0 => Len(AddAnchor(s, d, t)) # 0 /\ AddAnchor(s, d, t)[1] = a[1]
  BY <1>1, <1>3, <1>5, ExtendsFacts
<1> QED
  BY <1>2, <1>3, <1>6

(* The ranked chunks with their neighbors: the first ranked one first. *)
LEMMA ExpandedList ==
    ASSUME NEW S, NEW s \in Lists(S), NEW t \in Lists(S)
    PROVE  /\ Expanded(s, t) \in Lists(S)
           /\ Len(s) # 0 => Len(Expanded(s, t)) # 0 /\ Expanded(s, t)[1] = s[1]
<1> DEFINE n == Len(s)
<1> DEFINE Body(f) == [i \in 0..n |-> IF i = 0 THEN <<>> ELSE AddAnchor(f[i - 1], s[i], t)]
<1> DEFINE expand == CHOOSE f : f = Body(f)
<1>1. Expanded(s, t) = expand[n]
  BY DEF Expanded
<1>2. n \in Nat /\ \A i \in 1..n : s[i] \in S
  BY ListFacts
<1>3. \A i \in 1..n, u \in Lists(S) :
        /\ AddAnchor(u, s[i], t) \in Lists(S)
        /\ Len(u) # 0 => Len(AddAnchor(u, s[i], t)) # 0 /\ AddAnchor(u, s[i], t)[1] = u[1]
        /\ Len(u) = 0 => Len(AddAnchor(u, s[i], t)) # 0 /\ AddAnchor(u, s[i], t)[1] = s[i]
  BY <1>2, AnchorList
<1>4. \E f : f = Body(f)
  <2> DEFINE G == [p \in (1..n) \X Lists(S) |-> AddAnchor(p[2], s[p[1]], t)]
  <2>1. G \in [(1..n) \X Lists(S) -> Lists(S)]
    <3>1. \A p \in (1..n) \X Lists(S) : AddAnchor(p[2], s[p[1]], t) \in Lists(S)
      BY <1>3
    <3> QED
      BY <3>1
  <2>2. \A i \in 1..n, u \in Lists(S) : G[<<i, u>>] = AddAnchor(u, s[i], t)
    OBVIOUS
  <2> HIDE DEF n, G
  <2>3. PICK f \in [0..n -> Lists(S)] : IsFold(n, <<>>, G, f)
    BY <1>2, <2>1, EmptyList, Recursion
  <2>4. \A i \in 0..n : f[i] = IF i = 0 THEN <<>> ELSE AddAnchor(f[i - 1], s[i], t)
    <3>1. \A i \in 0..n : f[i] = IF i = 0 THEN <<>> ELSE G[<<i, f[i - 1]>>]
      BY <2>3 DEF IsFold
    <3>2. \A i \in 0..n : i # 0 => i \in 1..n /\ i - 1 \in 0..n
      BY <1>2
    <3> QED
      BY <2>2, <3>1, <3>2
  <2>5. f = Body(f)
    BY <2>4
  <2> QED
    BY <2>5
<1>5. expand = Body(expand)
  BY <1>4
<1> HIDE DEF expand
<1>6. expand[0] = <<>> /\ \A i \in 1..n : expand[i] = AddAnchor(expand[i - 1], s[i], t)
  BY <1>2, <1>5
<1> DEFINE I == {i \in 0..n : /\ expand[i] \in Lists(S)
                              /\ i = 0 => Len(expand[i]) = 0
                              /\ i # 0 => Len(expand[i]) # 0 /\ expand[i][1] = s[1]}
<1> HIDE DEF n
<1>7. 0 \in I
  BY <1>2, <1>6, EmptyList
<1>8. ASSUME NEW i \in 1..n, i - 1 \in I
      PROVE  i \in I
  <2>1. i # 0 /\ i \in 0..n /\ (i - 1 = 0 => i = 1)
    OBVIOUS
  <2>2. /\ expand[i - 1] \in Lists(S)
        /\ i = 1 => Len(expand[i - 1]) = 0
        /\ i # 1 => Len(expand[i - 1]) # 0 /\ expand[i - 1][1] = s[1]
    BY <1>8, <2>1
  <2> DEFINE e == expand[i - 1]
  <2>3. /\ expand[i] = AddAnchor(e, s[i], t) /\ expand[i] \in Lists(S)
        /\ Len(e) # 0 => Len(expand[i]) # 0 /\ expand[i][1] = e[1]
        /\ Len(e) = 0 => Len(expand[i]) # 0 /\ expand[i][1] = s[i]
    BY <1>3, <1>6, <2>2
  <2>4. Len(expand[i]) # 0 /\ expand[i][1] = s[1]
    <3>1. CASE i = 1
      BY <2>2, <2>3, <3>1
    <3>2. CASE i # 1
      BY <2>2, <2>3, <3>2
    <3> QED
      BY <3>1, <3>2
  <2> QED
    BY <2>1, <2>3, <2>4
<1>9. I = 0..n
  <2> HIDE DEF I
  <2>1. I \in SUBSET (0..n)
    BY DEF I
  <2> QED
    BY <1>2, <1>7, <1>8, <2>1, Upto
<1>10. n \in I
  BY <1>2, <1>9
<1> QED
  BY <1>1, <1>10 DEF n

(* The same within the limit. *)
LEMMA ExpandList ==
    ASSUME NEW S, NEW s \in Lists(S), NEW t \in Lists(S), NEW n \in Nat \ {0}
    PROVE  /\ ExpandNeighbors(s, t, n) \in Lists(S)
           /\ Len(s) # 0 => Len(ExpandNeighbors(s, t, n)) # 0 /\ ExpandNeighbors(s, t, n)[1] = s[1]
<1> DEFINE e == IF MaxNeighbors = 0 THEN s ELSE Expanded(s, t)
<1>1. ExpandNeighbors(s, t, n) = Window(e, n)
  BY DEF ExpandNeighbors
<1>2. e \in Lists(S) /\ (Len(s) # 0 => Len(e) # 0 /\ e[1] = s[1])
  BY ExpandedList
<1> HIDE DEF e
<1>3. /\ Window(e, n) \in Lists(S)
      /\ Len(e) # 0 => Len(Window(e, n)) # 0 /\ Window(e, n)[1] = e[1]
  BY <1>2, WindowList
<1> QED
  BY <1>1, <1>2, <1>3

(* A chunk of s satisfies the requirement. *)
Met(s, requirement) == \E d \in ToSet(s) : Satisfies(d, requirement)

(* A requirement is given a chunk, if a candidate satisfies it. *)
LEMMA PinList ==
    ASSUME NEW S, NEW s \in Lists(S), NEW t \in Lists(S), NEW r
    PROVE  Extends(S, s, Pin(s, t, r)) /\ (Met(t, r) => Met(Pin(s, t, r), r))
<1> DEFINE I == {i \in DOMAIN t : t[i] \notin ToSet(s) /\ Satisfies(t[i], r)}
<1> DEFINE h == Picked(t, I)
<1>1. Pin(s, t, r) = IF h = <<>> THEN s ELSE Append(s, Head(h))
  BY DEF Pin, Selected
<1>2. /\ DOMAIN t = 1..Len(t)
      /\ \A i \in 1..Len(t) : t[i] \in S
      /\ \A d \in ToSet(t) : \E i \in 1..Len(t) : t[i] = d
  BY ListFacts
<1>3. IsSublist(S, t, I, h)
  <2>1. I \in SUBSET DOMAIN t
    OBVIOUS
  <2> HIDE DEF I
  <2> QED
    BY <2>1, PickedList
<1>4. /\ h \in Lists(S) /\ \A i \in I : t[i] \in ToSet(h)
      /\ \A d \in ToSet(h) : \E i \in I : t[i] = d
  <2> HIDE DEF I, h
  <2> QED
    BY <1>3 DEF IsSublist
<1>5. \A d \in ToSet(h) : d \in S /\ d \notin ToSet(s) /\ Satisfies(d, r)
  BY <1>2, <1>4
<1>6. \A d \in ToSet(t) : d \notin ToSet(s) /\ Satisfies(d, r) => d \in ToSet(h)
  BY <1>2, <1>4
<1> HIDE DEF I, h
<1>7. CASE h = <<>>
  <2>1. ToSet(h) = {}
    BY <1>7, EmptyList
  <2>2. Met(t, r) => Met(s, r)
    BY <1>6, <2>1 DEF Met
  <2> QED
    BY <1>1, <1>7, <2>2, ExtendsSelf
<1>8. CASE h # <<>>
  <2>1. Len(h) # 0 /\ Len(h) \in Nat /\ h \in Seq(S)
    BY <1>4, <1>8, NoChunk, ListFacts
  <2>2. 1 \in 1..Len(h)
    BY <2>1
  <2>3. Head(h) = h[1]
    BY <2>1, <1>8, HeadTailProperties
  <2>4. Head(h) \in ToSet(h)
    BY <1>4, <2>2, <2>3, ListFacts
  <2> DEFINE d == Head(h)
  <2> HIDE DEF d
  <2>5. d \in S /\ d \notin ToSet(s) /\ Satisfies(d, r)
    BY <1>5, <2>4 DEF d
  <2>6. /\ Append(s, d) \in Lists(S) /\ Len(Append(s, d)) = Len(s) + 1
        /\ \A i \in 1..Len(s) : Append(s, d)[i] = s[i]
        /\ d \in ToSet(Append(s, d))
    BY <2>5, AppendList
  <2>7. Len(s) \in Nat
    BY ListFacts
  <2>8. Extends(S, s, Append(s, d))
    BY <2>6, <2>7 DEF Extends
  <2>9. Met(Append(s, d), r)
    BY <2>5, <2>6 DEF Met
  <2> QED
    BY <1>1, <1>8, <2>8, <2>9 DEF d
<1> QED
  BY <1>7, <1>8

(* What a list extends is met by it too. *)
LEMMA ExtendsMet ==
    ASSUME NEW S, NEW s \in Lists(S), NEW t, Extends(S, s, t), NEW r, Met(s, r)
    PROVE  Met(t, r)
BY ExtendsFacts DEF Met

(* Every requirement a candidate satisfies is met, after what was ranked. *)
LEMMA PinnedList ==
    ASSUME NEW S, NEW s \in Lists(S), NEW t \in Lists(S), NEW R, NEW r \in Seq(R)
    PROVE  /\ Extends(S, s, Pinned(s, t, r))
           /\ \A q \in ToSet(r) : Met(t, q) => Met(Pinned(s, t, r), q)
<1> DEFINE n == Len(r)
<1> DEFINE Body(f) == [i \in 0..n |-> IF i = 0 THEN s ELSE Pin(f[i - 1], t, r[i])]
<1> DEFINE pin == CHOOSE f : f = Body(f)
<1>1. Pinned(s, t, r) = pin[n]
  BY DEF Pinned
<1>2. n \in Nat /\ \A q \in ToSet(r) : \E i \in 1..n : r[i] = q
  <2>1. n \in Nat /\ DOMAIN r = 1..n
    BY LenProperties
  <2> QED
    BY <2>1 DEF ToSet
<1>3. \A i \in 1..n, u \in Lists(S) :
        /\ Pin(u, t, r[i]) \in Lists(S)
        /\ Extends(S, u, Pin(u, t, r[i]))
        /\ Met(t, r[i]) => Met(Pin(u, t, r[i]), r[i])
  BY PinList, ExtendsFacts
<1>4. \E f : f = Body(f)
  <2> DEFINE G == [p \in (1..n) \X Lists(S) |-> Pin(p[2], t, r[p[1]])]
  <2>1. G \in [(1..n) \X Lists(S) -> Lists(S)]
    <3>1. \A p \in (1..n) \X Lists(S) : Pin(p[2], t, r[p[1]]) \in Lists(S)
      BY <1>3
    <3> QED
      BY <3>1
  <2>2. \A i \in 1..n, u \in Lists(S) : G[<<i, u>>] = Pin(u, t, r[i])
    OBVIOUS
  <2> HIDE DEF n, G
  <2>3. PICK f \in [0..n -> Lists(S)] : IsFold(n, s, G, f)
    BY <1>2, <2>1, Recursion
  <2>4. \A i \in 0..n : f[i] = IF i = 0 THEN s ELSE Pin(f[i - 1], t, r[i])
    <3>1. \A i \in 0..n : f[i] = IF i = 0 THEN s ELSE G[<<i, f[i - 1]>>]
      BY <2>3 DEF IsFold
    <3>2. \A i \in 0..n : i # 0 => i \in 1..n /\ i - 1 \in 0..n
      BY <1>2
    <3> QED
      BY <2>2, <3>1, <3>2
  <2>5. f = Body(f)
    BY <2>4
  <2> QED
    BY <2>5
<1>5. pin = Body(pin)
  BY <1>4
<1> HIDE DEF pin
<1>6. pin[0] = s /\ \A i \in 1..n : pin[i] = Pin(pin[i - 1], t, r[i])
  BY <1>2, <1>5
<1> DEFINE I == {i \in 0..n : /\ pin[i] \in Lists(S) /\ Extends(S, s, pin[i])
                              /\ \A j \in 1..i : Met(t, r[j]) => Met(pin[i], r[j])}
<1> HIDE DEF n
<1>7. 0 \in I
  <2>1. \A j \in 1..0 : FALSE
    OBVIOUS
  <2> QED
    BY <1>2, <1>6, <2>1, ExtendsSelf
<1>8. ASSUME NEW i \in 1..n, i - 1 \in I
      PROVE  i \in I
  <2>1. /\ pin[i - 1] \in Lists(S) /\ Extends(S, s, pin[i - 1])
        /\ \A j \in 1..(i - 1) : Met(t, r[j]) => Met(pin[i - 1], r[j])
    BY <1>8
  <2>2. /\ pin[i] \in Lists(S) /\ Extends(S, pin[i - 1], pin[i])
        /\ Met(t, r[i]) => Met(pin[i], r[i])
    BY <1>3, <1>6, <2>1
  <2>3. Extends(S, s, pin[i])
    BY <2>1, <2>2, ExtendsOn
  <2>4. ASSUME NEW j \in 1..i, Met(t, r[j])
        PROVE  Met(pin[i], r[j])
    <3>1. CASE j = i
      BY <2>2, <2>4, <3>1
    <3>2. CASE j # i
      <4>1. j \in 1..(i - 1)
        BY <3>2
      <4>2. Met(pin[i - 1], r[j])
        BY <2>1, <2>4, <4>1
      <4> QED
        BY <2>1, <2>2, <4>2, ExtendsMet
    <3> QED
      BY <3>1, <3>2
  <2>5. i \in 0..n
    OBVIOUS
  <2> QED
    BY <2>2, <2>3, <2>4, <2>5
<1>9. I = 0..n
  <2> HIDE DEF I
  <2>1. I \in SUBSET (0..n)
    BY DEF I
  <2> QED
    BY <1>2, <1>7, <1>8, <2>1, Upto
<1>10. n \in I
  BY <1>2, <1>9
<1>11. Extends(S, s, pin[n]) /\ \A j \in 1..n : Met(t, r[j]) => Met(pin[n], r[j])
  BY <1>10
<1> QED
  BY <1>1, <1>2, <1>11

(* The same within the limit: unless it is reached nothing is cut, so what *)
(* was ranked is there and every requirement is met that can be.           *)
LEMMA PinRequirementsList ==
    ASSUME NEW S, NEW s \in Lists(S), NEW t \in Lists(S), NEW R, NEW r \in Seq(R),
           NEW n \in Nat \ {0}
    PROVE  /\ PinRequirements(s, t, r, n) \in Lists(S)
           /\ Len(s) # 0 =>
                Len(PinRequirements(s, t, r, n)) # 0 /\ PinRequirements(s, t, r, n)[1] = s[1]
           /\ Len(s) <= n /\ Len(PinRequirements(s, t, r, n)) < n =>
                /\ Len(s) < n
                /\ \A d \in ToSet(s) : d \in ToSet(PinRequirements(s, t, r, n))
                /\ \A q \in ToSet(r) : Met(t, q) => Met(PinRequirements(s, t, r, n), q)
<1> DEFINE p == Pinned(s, t, r)
<1> DEFINE w == Window(p, n)
<1>1. PinRequirements(s, t, r, n) = IF r = <<>> THEN s ELSE w
  BY DEF PinRequirements
<1>2. Extends(S, s, p) /\ \A q \in ToSet(r) : Met(t, q) => Met(p, q)
  BY PinnedList
<1> HIDE DEF p
<1>3. /\ p \in Lists(S) /\ \A d \in ToSet(s) : d \in ToSet(p)
      /\ Len(s) # 0 => Len(p) # 0 /\ p[1] = s[1]
  BY <1>2, ExtendsFacts
<1>4. /\ w \in Lists(S)
      /\ Len(w) < n => w = p
      /\ Len(p) # 0 => Len(w) # 0 /\ w[1] = p[1]
  BY <1>3, WindowList
<1> HIDE DEF w
<1>5. Len(s) \in Nat /\ Len(p) \in Nat /\ Len(s) <= Len(p)
  BY <1>2, <1>3, ListFacts DEF Extends
<1>6. CASE r = <<>>
  <2>1. ToSet(r) = {}
    BY <1>6, EmptyList
  <2> QED
    BY <1>1, <1>6, <2>1
<1>7. CASE r # <<>>
  <2>1. Len(w) < n => Len(s) < n
    BY <1>4, <1>5
  <2> QED
    BY <1>1, <1>2, <1>3, <1>4, <1>7, <2>1
<1> QED
  BY <1>6, <1>7

-----------------------------------------------------------------------------
(* Records *)

(* The arrangements of a finite set are the lists of all of it. *)
LEMMA SeqsOfSet ==
    ASSUME NEW S, IsFiniteSet(S)
    PROVE  /\ \A s \in SetToSeqs(S) : s \in Lists(S) /\ ToSet(s) = S
           /\ \A s \in Lists(S) : ToSet(s) = S => s \in SetToSeqs(S)
<1> DEFINE n == Cardinality(S)
<1>1. n \in Nat
  BY FS_CardinalityType
<1>2. SetToSeqs(S) = {f \in [1..n -> S] : \A i, j \in 1..n : i # j => f[i] # f[j]}
  BY DEF SetToSeqs
<1>3. IsFiniteSet(1..n) /\ Cardinality(1..n) = n
  <2>1. 1 \in Int /\ n \in Int
    BY <1>1
  <2> HIDE DEF n
  <2>2. IsFiniteSet(1..n) /\ Cardinality(1..n) = IF 1 > n THEN 0 ELSE n - 1 + 1
    BY <2>1, FS_Interval, Zenon
  <2> QED
    BY <1>1, <2>2
<1> HIDE DEF n
<1>4. ASSUME NEW s \in SetToSeqs(S)
      PROVE  s \in Lists(S) /\ ToSet(s) = S
  <2>1. s \in [1..n -> S] /\ \A i, j \in 1..n : s[i] = s[j] => i = j
    BY <1>2, <1>4
  <2>2. s \in Seq(S) /\ Len(s) = n
    BY <1>1, <2>1
  <2>3. s \in Lists(S)
    BY <2>1, <2>2, IsList
  <2>4. s \in Injection(1..n, S)
    BY <2>1 DEF Injection, IsInjective
  <2>5. s \in Surjection(1..n, S)
    BY <1>3, <2>4, FS_Injection DEF n
  <2>6. ToSet(s) = S
    BY <2>1, <2>5 DEF Surjection, ToSet
  <2> QED
    BY <2>3, <2>6
<1>5. ASSUME NEW s \in Lists(S), ToSet(s) = S
      PROVE  s \in SetToSeqs(S)
  <2>1. Len(s) = n
    BY <1>5, ListSize DEF n
  <2>2. s \in [1..n -> S]
    <3>1. s \in Seq(S)
      BY ListFacts
    <3>2. s = [i \in 1..Len(s) |-> s[i]]
      BY <3>1, LenProperties
    <3>3. \A i \in 1..Len(s) : s[i] \in S
      BY ListFacts
    <3> QED
      BY <2>1, <3>2, <3>3
  <2>3. \A i, j \in 1..n : i # j => s[i] # s[j]
    BY <2>1, ListFacts
  <2> QED
    BY <1>2, <2>2, <2>3
<1> QED
  BY <1>4, <1>5

(* A list of chunks in the order of their places. *)
Sorted(s) == \A i, j \in DOMAIN s : i < j => s[i].ordinal <= s[j].ordinal

(* Every finite set of chunks has one: its chunk of the least ordinal, then*)
(* the others in order.                                                    *)
LEMMA OrderExists ==
    ASSUME NEW S \in SUBSET Docs
    PROVE  \E s \in Lists(S) : ToSet(s) = S /\ Sorted(s)
<1> DEFINE HasOrder(T) == \E s \in Lists(T) : ToSet(s) = T /\ Sorted(s)
<1> DEFINE n == Cardinality(Docs)
<1> DEFINE I == {m \in 0..n : \A T \in SUBSET Docs : Cardinality(T) = m => HasOrder(T)}
<1>1. IsFiniteSet(Docs) /\ \A d \in Docs : d.ordinal \in Nat
  BY WindowAssumption
<1>2. n \in Nat
  BY <1>1, FS_CardinalityType
<1>3. \A T \in SUBSET Docs : IsFiniteSet(T) /\ Cardinality(T) \in Nat /\ Cardinality(T) <= n
  BY <1>1, FS_Subset, FS_CardinalityType
<1>4. 0 \in I
  <2> SUFFICES ASSUME NEW T \in SUBSET Docs, Cardinality(T) = 0
               PROVE  HasOrder(T)
    BY <1>2
  <2>1. T = {}
    BY <1>3, FS_EmptySet
  <2>2. <<>> \in Lists(T) /\ ToSet(<<>>) = T
    BY <2>1, EmptyList
  <2>3. DOMAIN <<>> = {}
    OBVIOUS
  <2>4. Sorted(<<>>)
    BY <2>3 DEF Sorted
  <2> QED
    BY <2>2, <2>4
<1>5. ASSUME NEW m \in 1..n, m - 1 \in I
      PROVE  m \in I
  <2> SUFFICES ASSUME NEW T \in SUBSET Docs, Cardinality(T) = m
               PROVE  HasOrder(T)
    BY <1>2
  <2>1. T # {}
    BY <1>3, FS_EmptySet
  <2> DEFINE O == {d.ordinal : d \in T}
  <2>2. O \in SUBSET Nat /\ O # {}
    BY <1>1, <2>1
  <2>3. PICK o \in O : \A p \in O : o <= p
    BY <2>2, Smallest
  <2>4. PICK d \in T : d.ordinal = o
    OBVIOUS
  <2>5. \A e \in T : d.ordinal <= e.ordinal
    BY <2>3, <2>4
  <2> HIDE DEF O
  <2> DEFINE U == T \ {d}
  <2>6. U \in SUBSET Docs /\ Cardinality(U) = m - 1
    BY <1>3, FS_RemoveElement
  <2>7. PICK s \in Lists(U) : ToSet(s) = U /\ Sorted(s)
    BY <1>5, <2>6
  <2>8. /\ s \in Seq(U) /\ Len(s) \in Nat /\ DOMAIN s = 1..Len(s)
        /\ \A i \in 1..Len(s) : s[i] \in U
    BY ListFacts
  <2>9. s \in Lists(T)
    BY <2>8, ListOf
  <2> DEFINE h == <<d>>
  <2>10. h \in Lists(T) /\ Len(h) = 1 /\ h[1] = d /\ ToSet(h) = {d}
    <3>1. h \in Seq(T) /\ Len(h) = 1 /\ h[1] = d /\ DOMAIN h = {1}
      BY <2>4
    <3>2. \A i, j \in 1..1 : i = j
      OBVIOUS
    <3> QED
      BY <3>1, <3>2, IsList DEF ToSet
  <2> HIDE DEF h
  <2> DEFINE c == h \o s
  <2>11. /\ c \in Lists(T) /\ Len(c) = 1 + Len(s)
         /\ \A e \in ToSet(h) : e \in ToSet(c)
         /\ \A e \in ToSet(s) : e \in ToSet(c)
         /\ \A e \in ToSet(c) : e \in ToSet(h) \/ e \in ToSet(s)
    <3>1. \A e \in ToSet(h) : e \notin ToSet(s)
      BY <2>7, <2>10
    <3> QED
      BY <2>9, <2>10, <3>1, ConcatList, ZenonT(60)
  <2>12. ToSet(c) = T
    BY <2>4, <2>7, <2>10, <2>11
  <2>13. c[1] = d /\ \A i \in 2..(1 + Len(s)) : c[i] = s[i - 1]
    <3>1. h \in Seq(T) /\ s \in Seq(T)
      BY <2>9, <2>10, ListFacts
    <3>2. \A i \in 1..(Len(h) + Len(s)) : c[i] = IF i <= Len(h) THEN h[i] ELSE s[i - Len(h)]
      <4>1. \A i \in 1..Len(c) : c[i] = IF i <= Len(h) THEN h[i] ELSE s[i - Len(h)]
        BY <3>1, ConcatProperties
      <4> QED
        BY <2>10, <2>11, <4>1
    <3> HIDE DEF c
    <3>3. c[1] = d
      <4>1. 1 \in 1..(Len(h) + Len(s)) /\ 1 <= Len(h)
        BY <2>8, <2>10
      <4> QED
        BY <2>10, <3>2, <4>1
    <3>4. ASSUME NEW i \in 2..(1 + Len(s))
          PROVE  c[i] = s[i - 1]
      <4>1. i \in 1..(Len(h) + Len(s)) /\ ~(i <= Len(h)) /\ i - Len(h) = i - 1
        BY <2>8, <2>10
      <4>2. c[i] = s[i - Len(h)]
        BY <3>2, <4>1
      <4> QED
        BY <4>1, <4>2
    <3> QED
      BY <3>3, <3>4
  <2> HIDE DEF c
  <2>14. Sorted(c)
    <3>1. DOMAIN c = 1..(1 + Len(s))
      BY <2>11, ListFacts
    <3> SUFFICES ASSUME NEW i \in 1..(1 + Len(s)), NEW j \in 1..(1 + Len(s)), i < j
                 PROVE  c[i].ordinal <= c[j].ordinal
      BY <3>1 DEF Sorted
    <3>2. j \in 2..(1 + Len(s)) /\ j - 1 \in 1..Len(s)
      BY <2>8
    <3>3. c[j] = s[j - 1] /\ c[j] \in T
      BY <2>8, <2>13, <3>2
    <3>4. CASE i = 1
      BY <2>5, <2>13, <3>3, <3>4
    <3>5. CASE i # 1
      <4>1. i \in 2..(1 + Len(s)) /\ i - 1 \in 1..Len(s) /\ i - 1 < j - 1
        BY <2>8, <3>5
      <4>2. c[i] = s[i - 1]
        BY <2>13, <4>1
      <4> QED
        BY <2>7, <2>8, <3>2, <3>3, <4>1, <4>2 DEF Sorted
    <3> QED
      BY <3>4, <3>5
  <2> QED
    BY <2>11, <2>12, <2>14
<1>6. I = 0..n
  <2> HIDE DEF I
  <2>1. I \in SUBSET (0..n)
    BY DEF I
  <2> HIDE DEF n
  <2> QED
    BY <1>2, <1>4, <1>5, <2>1, Upto
<1>7. Cardinality(S) \in I
  BY <1>2, <1>3, <1>6
<1> QED
  BY <1>7

(* The chunks of a record in their order are all of them, each once. *)
LEMMA RecordList ==
    ASSUME NEW d, NEW chunks \in SUBSET Docs
    PROVE  /\ Record(d, chunks) \in Lists(Docs)
           /\ ToSet(Record(d, chunks)) = {e \in chunks : SameRecord(d, e)}
<1> DEFINE S == {e \in chunks : SameRecord(d, e)}
<1>1. S \in SUBSET Docs
  OBVIOUS
<1>2. Record(d, chunks) = InOrder(S)
  BY DEF Record
<1> HIDE DEF S
<1>3. IsFiniteSet(S)
  BY <1>1, FS_Subset, WindowAssumption
<1>4. \E s \in SetToSeqs(S) :
        \A i, j \in DOMAIN s : i < j => s[i].ordinal <= s[j].ordinal
  BY <1>1, <1>3, OrderExists, SeqsOfSet DEF Sorted
<1>5. InOrder(S) \in SetToSeqs(S)
  BY <1>4 DEF InOrder
<1>6. InOrder(S) \in Lists(S) /\ ToSet(InOrder(S)) = S
  BY <1>3, <1>5, SeqsOfSet
<1>7. \A i \in 1..Len(InOrder(S)) : InOrder(S)[i] \in Docs
  BY <1>1, <1>6, ListFacts
<1>8. InOrder(S) \in Lists(Docs)
  BY <1>6, <1>7, ListOf
<1> QED
  BY <1>2, <1>6, <1>8 DEF S

(* A stretch of a list is a list. *)
IsStretch(S, s, a, n) ==
    /\ SubSeq(s, a + 1, a + n) \in Lists(S) /\ Len(SubSeq(s, a + 1, a + n)) = n
    /\ \A d \in ToSet(SubSeq(s, a + 1, a + n)) : d \in ToSet(s)

LEMMA StretchList ==
    ASSUME NEW S, NEW s \in Lists(S), NEW a \in Nat, NEW n \in Nat, a + n <= Len(s)
    PROVE  IsStretch(S, s, a, n)
<1> DEFINE w == SubSeq(s, a + 1, a + n)
<1>1. /\ s \in Seq(S) /\ Len(s) \in Nat
      /\ \A i \in 1..Len(s) : s[i] \in S /\ s[i] \in ToSet(s)
      /\ \A i, j \in 1..Len(s) : s[i] = s[j] => i = j
  BY ListFacts
<1>2. w \in Seq(S) /\ Len(w) = n /\ \A i \in 1..n : w[i] = s[a + i]
  <2>1. a + 1 \in Int /\ a + n \in Int /\ \A i \in (a + 1)..(a + n) : s[i] \in S
    BY <1>1
  <2>2. /\ w \in Seq(S)
        /\ Len(w) = IF a + 1 <= a + n THEN (a + n) - (a + 1) + 1 ELSE 0
        /\ \A i \in 1..((a + n) - (a + 1) + 1) : w[i] = s[(a + 1) + i - 1]
    BY <2>1, SubSeqProperties
  <2> HIDE DEF w
  <2>3. Len(w) = n
    BY <2>2
  <2>4. ASSUME NEW i \in 1..n
        PROVE  w[i] = s[a + i]
    <3>1. i \in 1..((a + n) - (a + 1) + 1) /\ (a + 1) + i - 1 = a + i
      OBVIOUS
    <3> QED
      BY <2>2, <3>1
  <2> QED
    BY <2>2, <2>3, <2>4
<1> HIDE DEF w
<1>3. \A i \in 1..n : a + i \in 1..Len(s)
  BY <1>1
<1>4. w \in Lists(S)
  <2>1. ASSUME NEW i \in 1..n, NEW j \in 1..n, w[i] = w[j]
        PROVE  i = j
    <3>1. a + i = a + j
      BY <1>1, <1>2, <1>3, <2>1
    <3> QED
      BY <3>1
  <2> QED
    BY <1>2, <2>1, IsList
<1>5. \A d \in ToSet(w) : d \in ToSet(s)
  <2> SUFFICES ASSUME NEW d \in ToSet(w)
               PROVE  d \in ToSet(s)
    OBVIOUS
  <2>1. PICK i \in 1..n : w[i] = d
    BY <1>2, <1>4, ListFacts
  <2> QED
    BY <1>1, <1>2, <1>3, <2>1
<1> QED
  BY <1>2, <1>4, <1>5 DEF w, IsStretch

(* A bounded record is some of the record, and something. *)
LEMMA AroundList ==
    ASSUME NEW S, NEW s \in Lists(S), NEW d \in ToSet(s), NEW n \in Nat \ {0}
    PROVE  /\ Around(s, d, n) \in Lists(S) /\ Len(Around(s, d, n)) # 0
           /\ \A e \in ToSet(Around(s, d, n)) : e \in ToSet(s)
<1> DEFINE at == CHOOSE i \in DOMAIN s : s[i] = d
<1> DEFINE start == Least(Most(0, (at - 1) - (n \div 2)), Len(s) - n)
<1>1. Around(s, d, n) = IF Len(s) <= n THEN s ELSE SubSeq(s, start + 1, start + n)
  BY DEF Around
<1>2. Len(s) \in Nat /\ DOMAIN s = 1..Len(s) /\ \E i \in 1..Len(s) : s[i] = d
  BY ListFacts
<1>3. at \in 1..Len(s)
  BY <1>2
<1> HIDE DEF at
<1>4. CASE Len(s) <= n
  <2>1. Len(s) # 0
    BY <1>2
  <2> QED
    BY <1>1, <1>4, <2>1
<1>5. CASE ~(Len(s) <= n)
  <2>1. start \in Nat /\ start + n <= Len(s)
    <3>1. n \div 2 \in Int
      OBVIOUS
    <3> QED
      BY <1>2, <1>3, <1>5, <3>1 DEF Least, Most
  <2> HIDE DEF start
  <2>2. /\ SubSeq(s, start + 1, start + n) \in Lists(S)
        /\ Len(SubSeq(s, start + 1, start + n)) = n
        /\ \A e \in ToSet(SubSeq(s, start + 1, start + n)) : e \in ToSet(s)
    <3>1. n \in Nat
      OBVIOUS
    <3>2. start \in Nat
      BY <2>1
    <3>3. start + n <= Len(s)
      BY <2>1
    <3>4. IsStretch(S, s, start, n)
      BY <3>1, <3>2, <3>3, StretchList
    <3> QED
      BY <3>4 DEF IsStretch
  <2> QED
    BY <1>1, <1>5, <2>2
<1> QED
  BY <1>4, <1>5

(* What takes a chunk's place is the chunk, or pieces of its record; when  *)
(* it is not bounded, the chunk and all of its record.                     *)
LEMMA WholeList ==
    ASSUME NEW chunks \in SUBSET Docs, NEW d \in chunks, NEW bounded \in BOOLEAN
    PROVE  /\ Whole(d, chunks, bounded) \in Lists(Docs)
           /\ Len(Whole(d, chunks, bounded)) # 0
           /\ \A e \in ToSet(Whole(d, chunks, bounded)) : e.parent = d.parent
           /\ ~bounded => d \in ToSet(Whole(d, chunks, bounded))
           /\ ~bounded /\ d.parent # NoParent =>
                \A e \in ToSet(Whole(d, chunks, bounded)) : SameRecord(d, e)
           /\ ~bounded /\ d.parent # NoParent =>
                \A e \in chunks : SameRecord(d, e) => e \in ToSet(Whole(d, chunks, bounded))
<1> DEFINE r == Record(d, chunks)
<1>1. r \in Lists(Docs) /\ ToSet(r) = {e \in chunks : SameRecord(d, e)}
  BY RecordList
<1> HIDE DEF r
<1>2. d \in ToSet(r) /\ \A e \in ToSet(r) : e.parent = d.parent
  BY <1>1 DEF SameRecord
<1>3. CASE d.parent = NoParent
  <2>1. Whole(d, chunks, bounded) = <<d>>
    BY <1>3 DEF Whole
  <2> DEFINE h == <<d>>
  <2>2. h \in Lists(Docs) /\ Len(h) # 0 /\ ToSet(h) = {d}
    <3>1. h \in Seq(Docs) /\ Len(h) = 1 /\ h[1] = d /\ DOMAIN h = {1}
      OBVIOUS
    <3> HIDE DEF h
    <3>2. \A i, j \in 1..1 : i = j
      OBVIOUS
    <3>3. h \in Lists(Docs)
      BY <3>1, <3>2, IsList
    <3>4. ToSet(h) = {d}
      BY <3>1 DEF ToSet
    <3> QED
      BY <3>1, <3>3, <3>4
  <2> QED
    BY <1>3, <2>1, <2>2
<1>4. CASE d.parent # NoParent /\ bounded
  <2>1. Whole(d, chunks, bounded) = Around(r, d, PerSource)
    BY <1>4 DEF Whole, r
  <2>2. /\ Around(r, d, PerSource) \in Lists(Docs) /\ Len(Around(r, d, PerSource)) # 0
        /\ \A e \in ToSet(Around(r, d, PerSource)) : e \in ToSet(r)
    BY <1>1, <1>2, AroundList, WindowAssumption
  <2> QED
    BY <1>2, <1>4, <2>1, <2>2
<1>5. CASE d.parent # NoParent /\ ~bounded
  <2>1. Whole(d, chunks, bounded) = r
    BY <1>5 DEF Whole, r
  <2>2. Len(r) # 0
    <3>1. \E i \in 1..Len(r) : r[i] = d
      BY <1>1, <1>2, ListFacts
    <3> QED
      BY <3>1
  <2> QED
    BY <1>1, <1>2, <1>5, <2>1, <2>2
<1> QED
  BY <1>3, <1>4, <1>5

(* What takes the places of chunks of different records: a list of just    *)
(* that.                                                                   *)
LEMMA JoinedList ==
    ASSUME NEW chunks \in SUBSET Docs, NEW s \in Lists(chunks), NEW bounded \in BOOLEAN,
           \A i, j \in 1..Len(s) : s[i].parent = s[j].parent => i = j
    PROVE  /\ Joined(s, chunks, bounded) \in Lists(Docs)
           /\ \A d \in ToSet(s) : \A e \in ToSet(Whole(d, chunks, bounded)) :
                e \in ToSet(Joined(s, chunks, bounded))
           /\ \A e \in ToSet(Joined(s, chunks, bounded)) :
                \E d \in ToSet(s) : e \in ToSet(Whole(d, chunks, bounded))
<1> DEFINE n == Len(s)
<1> DEFINE W(d) == Whole(d, chunks, bounded)
<1> DEFINE Body(f) == [i \in 0..n |-> IF i = 0 THEN <<>> ELSE f[i - 1] \o W(s[i])]
<1> DEFINE join == CHOOSE f : f = Body(f)
<1>1. Joined(s, chunks, bounded) = join[n]
  BY DEF Joined
<1>2. /\ n \in Nat /\ \A i \in 1..n : s[i] \in chunks /\ s[i] \in ToSet(s)
      /\ \A d \in ToSet(s) : \E i \in 1..n : s[i] = d
  BY ListFacts
<1>3. \A i \in 1..n : /\ W(s[i]) \in Lists(Docs)
                      /\ \A e \in ToSet(W(s[i])) : e.parent = s[i].parent
  <2> TAKE i \in 1..n
  <2>1. s[i] \in chunks
    BY <1>2
  <2> QED
    BY <2>1, WholeList
<1>4. \E f : f = Body(f)
  <2> DEFINE G == [p \in (1..n) \X Seq(Docs) |-> p[2] \o W(s[p[1]])]
  <2>1. G \in [(1..n) \X Seq(Docs) -> Seq(Docs)]
    <3>1. \A i \in 1..n : W(s[i]) \in Seq(Docs)
      BY <1>3, ListFacts
    <3> HIDE DEF W
    <3>2. \A p \in (1..n) \X Seq(Docs) : p[2] \o W(s[p[1]]) \in Seq(Docs)
      BY <3>1
    <3> QED
      BY <3>2
  <2>2. \A i \in 1..n, u \in Seq(Docs) : G[<<i, u>>] = u \o W(s[i])
    OBVIOUS
  <2>3. <<>> \in Seq(Docs)
    OBVIOUS
  <2> HIDE DEF n, G, W
  <2>4. PICK f \in [0..n -> Seq(Docs)] : IsFold(n, <<>>, G, f)
    BY <1>2, <2>1, <2>3, Recursion
  <2>5. \A i \in 0..n : f[i] = IF i = 0 THEN <<>> ELSE f[i - 1] \o W(s[i])
    <3>1. \A i \in 0..n : f[i] = IF i = 0 THEN <<>> ELSE G[<<i, f[i - 1]>>]
      BY <2>4 DEF IsFold
    <3>2. \A i \in 0..n : i # 0 => i \in 1..n /\ i - 1 \in 0..n
      BY <1>2
    <3>3. \A i \in 0..n : f[i] \in Seq(Docs)
      BY <2>4
    <3> QED
      BY <2>2, <3>1, <3>2, <3>3
  <2>6. f = Body(f)
    BY <2>5
  <2> QED
    BY <2>6
<1>5. join = Body(join)
  BY <1>4
<1> HIDE DEF join
<1>6. join[0] = <<>> /\ \A i \in 1..n : join[i] = join[i - 1] \o W(s[i])
  BY <1>2, <1>5
<1> DEFINE I == {i \in 0..n :
                   /\ join[i] \in Lists(Docs)
                   /\ \A k \in 1..i : \A e \in ToSet(W(s[k])) : e \in ToSet(join[i])
                   /\ \A e \in ToSet(join[i]) : \E k \in 1..i : e \in ToSet(W(s[k]))}
<1> HIDE DEF n, W
<1>7. 0 \in I
  <2>1. \A k \in 1..0 : FALSE
    OBVIOUS
  <2>2. <<>> \in Lists(Docs) /\ ToSet(<<>>) = {}
    BY EmptyList
  <2> QED
    BY <1>2, <1>6, <2>1, <2>2
<1>8. ASSUME NEW i \in 1..n, i - 1 \in I
      PROVE  i \in I
  <2> DEFINE t == join[i - 1]
  <2> DEFINE w == W(s[i])
  <2>1. /\ t \in Lists(Docs)
        /\ \A k \in 1..(i - 1) : \A e \in ToSet(W(s[k])) : e \in ToSet(t)
        /\ \A e \in ToSet(t) : \E k \in 1..(i - 1) : e \in ToSet(W(s[k]))
    BY <1>8
  <2>2. w \in Lists(Docs) /\ \A e \in ToSet(w) : e.parent = s[i].parent
    BY <1>3
  <2> HIDE DEF t, w
  <2>3. \A e \in ToSet(t) : e \notin ToSet(w)
    <3> SUFFICES ASSUME NEW e \in ToSet(t), e \in ToSet(w)
                 PROVE  FALSE
      OBVIOUS
    <3>1. PICK k \in 1..(i - 1) : e \in ToSet(W(s[k]))
      BY <2>1
    <3>2. k \in 1..n /\ k # i
      BY <1>2, <3>1
    <3>3. s[k].parent = s[i].parent
      BY <1>3, <2>2, <3>1, <3>2
    <3> QED
      BY <3>2, <3>3 DEF n
  <2>4. /\ t \o w \in Lists(Docs)
        /\ \A e \in ToSet(t) : e \in ToSet(t \o w)
        /\ \A e \in ToSet(w) : e \in ToSet(t \o w)
        /\ \A e \in ToSet(t \o w) : e \in ToSet(t) \/ e \in ToSet(w)
    BY <2>1, <2>2, <2>3, ConcatList
  <2>5. join[i] = t \o w
    BY <1>6 DEF t, w
  <2>6. \A k \in 1..i : k \in 1..(i - 1) \/ k = i
    OBVIOUS
  <2>7. \A k \in 1..(i - 1) : k \in 1..i
    OBVIOUS
  <2>8. ASSUME NEW k \in 1..i, NEW e \in ToSet(W(s[k]))
        PROVE  e \in ToSet(join[i])
    <3>1. CASE k \in 1..(i - 1)
      BY <2>1, <2>4, <2>5, <2>8, <3>1
    <3>2. CASE k = i
      BY <2>4, <2>5, <2>8, <3>2 DEF w
    <3> QED
      BY <2>6, <3>1, <3>2
  <2>9. ASSUME NEW e \in ToSet(join[i])
        PROVE  \E k \in 1..i : e \in ToSet(W(s[k]))
    <3>1. CASE e \in ToSet(t)
      BY <2>1, <2>7, <3>1
    <3>2. CASE e \in ToSet(w)
      <4>1. i \in 1..i
        OBVIOUS
      <4> QED
        BY <3>2, <4>1 DEF w
    <3> QED
      BY <2>4, <2>5, <3>1, <3>2
  <2>10. i \in 0..n
    OBVIOUS
  <2> QED
    BY <2>4, <2>5, <2>8, <2>9, <2>10
<1>9. I = 0..n
  <2> HIDE DEF I
  <2>1. I \in SUBSET (0..n)
    BY DEF I
  <2> QED
    BY <1>2, <1>7, <1>8, <2>1, Upto
<1>10. n \in I
  <2>1. n \in 0..n
    BY <1>2
  <2> HIDE DEF I
  <2> QED
    BY <1>9, <2>1
<1>11. /\ join[n] \in Lists(Docs)
       /\ \A k \in 1..n : \A e \in ToSet(W(s[k])) : e \in ToSet(join[n])
       /\ \A e \in ToSet(join[n]) : \E k \in 1..n : e \in ToSet(W(s[k]))
  BY <1>10
<1>12. \A d \in ToSet(s) : \A e \in ToSet(W(d)) : e \in ToSet(join[n])
  BY <1>2, <1>11
<1>13. \A e \in ToSet(join[n]) : \E d \in ToSet(s) : e \in ToSet(W(d))
  BY <1>2, <1>11
<1> QED
  BY <1>1, <1>11, <1>12, <1>13 DEF W

(* A list has, of every chunk that is part of a record, all chunks of E of *)
(* that record, or of the part the chunk is known to be cut from.          *)
Complete(s, E) ==
    \A d \in ToSet(s), e \in E : d.parent # NoParent /\ SameRecord(d, e) => e \in ToSet(s)

(* Records in their chunks' places: still a list, with the first chunk if  *)
(* the records are not bounded, and then with all of each record.          *)
LEMMA ReconstructList ==
    ASSUME NEW s \in Lists(Docs), NEW E \in SUBSET Docs, NEW bounded \in BOOLEAN
    PROVE  /\ Reconstruct(s, E, bounded) \in Lists(Docs)
           /\ Len(s) # 0 => Len(Reconstruct(s, E, bounded)) # 0
           /\ ~bounded /\ Len(s) # 0 => s[1] \in ToSet(Reconstruct(s, E, bounded))
           /\ ~bounded => Complete(Reconstruct(s, E, bounded), E)
<1>1. /\ s \in Seq(Docs) /\ Len(s) \in Nat /\ DOMAIN s = 1..Len(s)
      /\ \A i \in 1..Len(s) : s[i] \in Docs /\ s[i] \in ToSet(s)
      /\ \A d \in ToSet(s) : d \in Docs
  BY ListFacts
<1>2. CASE \A d \in ToSet(s) : d.parent = NoParent
  <2>1. Reconstruct(s, E, bounded) = s
    BY <1>2 DEF Reconstruct
  <2>2. Complete(s, E)
    BY <1>2 DEF Complete
  <2>3. Len(s) # 0 => s[1] \in ToSet(s)
    BY <1>1
  <2> QED
    BY <2>1, <2>2, <2>3
<1>3. CASE ~\A d \in ToSet(s) : d.parent = NoParent
  <2> DEFINE I == {i \in DOMAIN s : \A j \in DOMAIN s : j < i => s[j].parent # s[i].parent}
  <2> DEFINE f == Picked(s, I)
  <2> DEFINE chunks == ToSet(s) \cup E
  <2> DEFINE j == Joined(f, chunks, bounded)
  <2>1. Reconstruct(s, E, bounded) = j
    BY <1>3 DEF Reconstruct, FirstOfEach
  <2>2. I \in SUBSET DOMAIN s
    OBVIOUS
  <2>3. Len(s) # 0 => 1 \in I
    BY <1>1
  <2>4. \A a, b \in I : s[a].parent = s[b].parent => a = b
    <3> SUFFICES ASSUME NEW a \in I, NEW b \in I, s[a].parent = s[b].parent, a # b
                 PROVE  FALSE
      OBVIOUS
    <3>1. a \in DOMAIN s /\ b \in DOMAIN s /\ a \in Nat /\ b \in Nat
      BY <1>1
    <3>2. a < b \/ b < a
      BY <3>1
    <3> QED
      BY <3>1, <3>2
  <2>5. \A i \in I : s[i] \in ToSet(s)
    BY <1>1
  <2> HIDE DEF I
  <2>6. IsPicked(Docs, s, I, f) /\ IsSublist(Docs, s, I, f)
    BY <1>1, <2>2, PickedFacts, PickedList
  <2> HIDE DEF f
  <2>7. \A a, b \in 1..Len(f) : f[a].parent = f[b].parent => a = b
    <3> SUFFICES ASSUME NEW a \in 1..Len(f), NEW b \in 1..Len(f), f[a].parent = f[b].parent
                 PROVE  a = b
      OBVIOUS
    <3>1. Nth(I, a) \in I /\ Nth(I, b) \in I /\ f[a] = s[Nth(I, a)] /\ f[b] = s[Nth(I, b)]
      BY <2>6 DEF IsPicked
    <3>2. Nth(I, a) = Nth(I, b)
      BY <2>4, <3>1
    <3> QED
      BY <2>6, <3>2 DEF IsPicked
  <2>8. chunks \in SUBSET Docs
    BY <1>1
  <2>9. f \in Lists(Docs) /\ \A d \in ToSet(f) : d \in chunks
    <3>1. f \in Lists(Docs) /\ \A d \in ToSet(f) : \E i \in I : s[i] = d
      BY <2>6 DEF IsSublist
    <3> QED
      BY <2>5, <3>1
  <2>10. E \in SUBSET chunks
    OBVIOUS
  <2> HIDE DEF chunks
  <2>11. f \in Lists(chunks)
    <3>1. \A i \in 1..Len(f) : f[i] \in chunks
      BY <2>9, ListFacts
    <3> QED
      BY <2>9, <3>1, ListOf
  <2>12. /\ j \in Lists(Docs)
         /\ \A d \in ToSet(f) : \A e \in ToSet(Whole(d, chunks, bounded)) : e \in ToSet(j)
         /\ \A e \in ToSet(j) : \E d \in ToSet(f) : e \in ToSet(Whole(d, chunks, bounded))
    BY <2>7, <2>8, <2>11, JoinedList
  <2> HIDE DEF j
  <2>13. Len(s) # 0 => f[1] = s[1] /\ f[1] \in ToSet(f)
    <3> SUFFICES ASSUME Len(s) # 0
                 PROVE  f[1] = s[1] /\ f[1] \in ToSet(f)
      OBVIOUS
    <3>1. Len(f) # 0 /\ f[1] = s[1]
      BY <2>3, <2>6 DEF IsSublist
    <3>2. Len(f) \in Nat /\ \A i \in 1..Len(f) : f[i] \in ToSet(f)
      BY <2>9, ListFacts
    <3>3. 1 \in 1..Len(f)
      BY <3>1, <3>2
    <3> QED
      BY <3>1, <3>2, <3>3
  <2>14. Len(s) # 0 => Len(j) # 0
    <3> SUFFICES ASSUME Len(s) # 0
                 PROVE  Len(j) # 0
      OBVIOUS
    <3> DEFINE w == Whole(f[1], chunks, bounded)
    <3>1. f[1] \in ToSet(f) /\ f[1] \in chunks
      BY <2>9, <2>13
    <3>2. w \in Lists(Docs) /\ Len(w) # 0
      BY <2>8, <3>1, WholeList
    <3>3. \A e \in ToSet(w) : e \in ToSet(j)
      BY <2>12, <3>1
    <3> HIDE DEF w
    <3>4. w[1] \in ToSet(w)
      BY <3>2, ListFacts
    <3>5. \E i \in 1..Len(j) : j[i] = w[1]
      BY <2>12, <3>3, <3>4, ListFacts
    <3> QED
      BY <3>5
  <2>15. ~bounded /\ Len(s) # 0 => s[1] \in ToSet(j)
    <3> SUFFICES ASSUME ~bounded, Len(s) # 0
                 PROVE  s[1] \in ToSet(j)
      OBVIOUS
    <3>1. f[1] = s[1] /\ f[1] \in ToSet(f) /\ f[1] \in chunks
      BY <2>9, <2>13
    <3>2. f[1] \in ToSet(Whole(f[1], chunks, bounded))
      BY <2>8, <3>1, WholeList
    <3> QED
      BY <2>12, <3>1, <3>2
  <2>16. ASSUME ~bounded, NEW d \in ToSet(j), NEW e \in E, d.parent # NoParent, SameRecord(d, e)
         PROVE  e \in ToSet(j)
    <3>1. PICK g \in ToSet(f) : d \in ToSet(Whole(g, chunks, bounded))
      BY <2>12
    <3>2. g \in chunks
      BY <2>9
    <3>3. d.parent = g.parent
      BY <2>8, <3>1, <3>2, WholeList
    <3>4. /\ SameRecord(g, d)
          /\ \A x \in chunks : SameRecord(g, x) => x \in ToSet(Whole(g, chunks, bounded))
      BY <2>8, <2>16, <3>1, <3>2, <3>3, WholeList
    <3>5. SameRecord(g, e)
      BY <2>16, <3>3, <3>4 DEF SameRecord
    <3>6. e \in ToSet(Whole(g, chunks, bounded))
      BY <2>10, <3>4, <3>5
    <3> QED
      BY <2>12, <3>6
  <2>17. ~bounded => Complete(j, E)
    BY <2>16 DEF Complete
  <2> QED
    BY <2>1, <2>12, <2>14, <2>15, <2>17
<1> QED
  BY <1>2, <1>3

-----------------------------------------------------------------------------
(* What a pass ranks and keeps *)

(* A limit is at least one chunk. *)
LEMMA Limit == TopN \in Nat \ {0}
<1>1. {RerankTopN, MixedTopN, InventoryTopN, PageTopN} \subseteq Nat \ {0}
  BY SelectionAssumption
<1>2. Most(3, RerankTopN) \in Nat \ {0}
  BY <1>1 DEF Most
<1>3. CASE request.intent = "PROJECT_OVERVIEW"
  BY <1>2, <1>3 DEF TopN, Inventory
<1>4. CASE request.intent # "PROJECT_OVERVIEW" /\ Inventory
  BY <1>1, <1>4 DEF TopN, Inventory
<1>5. CASE request.intent # "PROJECT_OVERVIEW" /\ ~Inventory
  BY <1>1, <1>5 DEF TopN, Inventory
<1> QED
  BY <1>3, <1>4, <1>5

(* Any set of the chunks of a list is finite, and in what the list is from.*)
LEMMA SetOfList ==
    ASSUME NEW S, NEW s \in Lists(S), NEW T \in SUBSET ToSet(s)
    PROVE  IsFiniteSet(T) /\ T \in SUBSET S
<1>1. IsFiniteSet(ToSet(s)) /\ \A d \in ToSet(s) : d \in S
  BY ListSize, ListFacts
<1> QED
  BY <1>1, FS_Subset

(* What a list of some is, of all. *)
LEMMA ListOfMore ==
    ASSUME NEW S, NEW T \in SUBSET S, NEW s \in Lists(T)
    PROVE  s \in Lists(S)
<1>1. \A i \in 1..Len(s) : s[i] \in S
  BY ListFacts
<1> QED
  BY <1>1, ListOf

LEMMA SeqsOfList ==
    ASSUME NEW S, NEW s \in Lists(S), NEW T \in SUBSET ToSet(s), NEW r \in SetToSeqs(T)
    PROVE  r \in Lists(S)
<1>1. IsFiniteSet(T) /\ T \in SUBSET S
  BY SetOfList
<1>2. r \in Lists(T)
  BY <1>1, SeqsOfSet
<1> QED
  BY <1>1, <1>2, ListOfMore

(* What a cross encoder makes of some of the chunks of a list is a list. *)
LEMMA RankingsList ==
    ASSUME NEW S, NEW s \in Lists(S), NEW T \in SUBSET ToSet(s), NEW n,
           NEW r \in Rankings(T, n)
    PROVE  r \in Lists(S)
<1>1. PICK U \in SUBSET T : r \in SetToSeqs(U)
  BY DEF Rankings
<1>2. U \in SUBSET ToSet(s)
  OBVIOUS
<1> QED
  BY <1>1, <1>2, SeqsOfList

LEMMA ArrangementsList ==
    ASSUME NEW S, NEW s \in Lists(S), NEW T \in SUBSET ToSet(s), NEW n \in Nat,
           NEW r \in Arrangements(T, n)
    PROVE  r \in Lists(S)
<1>1. PICK q \in SetToSeqs(T) : r = Window(q, n)
  BY DEF Arrangements
<1>2. q \in Lists(S)
  BY SeqsOfList
<1> QED
  BY <1>1, <1>2, WindowList

(* Two rankings that share no chunk are one, alternately. *)
LEMMA AlternateList ==
    ASSUME NEW S, NEW s \in Lists(S), NEW t \in Lists(S),
           \A d \in ToSet(s) : d \notin ToSet(t)
    PROVE  Alternate(s, t) \in Lists(S)
<1> DEFINE b == Least(Len(s), Len(t))
<1> DEFINE f == [i \in 1..(2 * b) |-> IF i % 2 = 1 THEN s[(i + 1) \div 2] ELSE t[i \div 2]]
<1> DEFINE u == SubSeq(s, b + 1, Len(s))
<1> DEFINE v == SubSeq(t, b + 1, Len(t))
<1>1. Alternate(s, t) = (f \o u) \o v
  BY DEF Alternate
<1>2. /\ s \in Seq(S) /\ Len(s) \in Nat
      /\ \A i \in 1..Len(s) : s[i] \in S /\ s[i] \in ToSet(s)
      /\ \A i, j \in 1..Len(s) : s[i] = s[j] => i = j
  BY ListFacts
<1>3. /\ t \in Seq(S) /\ Len(t) \in Nat
      /\ \A i \in 1..Len(t) : t[i] \in S /\ t[i] \in ToSet(t)
      /\ \A i, j \in 1..Len(t) : t[i] = t[j] => i = j
  BY ListFacts
<1>4. b \in Nat /\ b <= Len(s) /\ b <= Len(t)
  BY <1>2, <1>3 DEF Least
<1> HIDE DEF b
<1>5. ASSUME NEW i \in 1..(2 * b)
      PROVE  /\ i % 2 = 1 => (i + 1) \div 2 \in 1..b /\ i = 2 * ((i + 1) \div 2) - 1
             /\ i % 2 # 1 => i \div 2 \in 1..b /\ i = 2 * (i \div 2)
  BY <1>4
<1>6. f \in Seq(S) /\ Len(f) = 2 * b
  <2>1. 2 * b \in Nat
    BY <1>4
  <2>2. \A i \in 1..(2 * b) : (IF i % 2 = 1 THEN s[(i + 1) \div 2] ELSE t[i \div 2]) \in S
    <3> TAKE i \in 1..(2 * b)
    <3>1. CASE i % 2 = 1
      <4>1. (i + 1) \div 2 \in 1..Len(s)
        BY <1>2, <1>4, <1>5, <3>1
      <4> QED
        BY <1>2, <3>1, <4>1
    <3>2. CASE i % 2 # 1
      <4>1. i \div 2 \in 1..Len(t)
        BY <1>3, <1>4, <1>5, <3>2
      <4> QED
        BY <1>3, <3>2, <4>1
    <3> QED
      BY <3>1, <3>2
  <2> QED
    BY <2>1, <2>2
<1>7. ASSUME NEW i \in 1..(2 * b)
      PROVE  \/ \E k \in 1..b : i = 2 * k - 1 /\ f[i] = s[k]
             \/ \E k \in 1..b : i = 2 * k /\ f[i] = t[k]
  <2>1. CASE i % 2 = 1
    <3>1. f[i] = s[(i + 1) \div 2]
      BY <2>1
    <3> HIDE DEF f
    <3> QED
      BY <1>5, <2>1, <3>1
  <2>2. CASE i % 2 # 1
    <3>1. f[i] = t[i \div 2]
      BY <2>2
    <3> HIDE DEF f
    <3> QED
      BY <1>5, <2>2, <3>1
  <2> QED
    BY <2>1, <2>2
<1> HIDE DEF f
<1>8. \A k \in 1..b : k \in 1..Len(s) /\ k \in 1..Len(t) /\ s[k] \in ToSet(s) /\ t[k] \in ToSet(t)
  BY <1>2, <1>3, <1>4
<1>9. f \in Lists(S)
  <2>1. ASSUME NEW i \in 1..(2 * b), NEW j \in 1..(2 * b), f[i] = f[j]
        PROVE  i = j
    <3>1. ASSUME NEW k \in 1..b, i = 2 * k - 1 /\ f[i] = s[k],
                 NEW l \in 1..b, j = 2 * l - 1 /\ f[j] = s[l]
          PROVE  i = j
      <4>1. k = l
        BY <1>2, <1>8, <2>1, <3>1
      <4> QED
        BY <3>1, <4>1
    <3>2. ASSUME NEW k \in 1..b, i = 2 * k /\ f[i] = t[k],
                 NEW l \in 1..b, j = 2 * l /\ f[j] = t[l]
          PROVE  i = j
      <4>1. k = l
        BY <1>3, <1>8, <2>1, <3>2
      <4> QED
        BY <3>2, <4>1
    <3>3. ASSUME NEW k \in 1..b, f[i] = s[k], NEW l \in 1..b, f[j] = t[l]
          PROVE  FALSE
      BY <1>8, <2>1, <3>3
    <3>4. ASSUME NEW k \in 1..b, f[i] = t[k], NEW l \in 1..b, f[j] = s[l]
          PROVE  FALSE
      BY <1>8, <2>1, <3>4
    <3> QED
      BY <1>7, <3>1, <3>2, <3>3, <3>4
  <2> QED
    BY <1>6, <2>1, IsList
<1>10. ASSUME NEW d \in ToSet(f)
       PROVE  \/ \E k \in 1..b : d = s[k]
              \/ \E k \in 1..b : d = t[k]
  <2>1. \E i \in 1..(2 * b) : f[i] = d
    BY <1>6, <1>9, ListFacts
  <2> QED
    BY <1>7, <2>1
<1>11. /\ u \in Lists(S)
       /\ \A d \in ToSet(u) : \E k \in (b + 1)..Len(s) : d = s[k]
  <2>1. /\ u \in Seq(S) /\ Len(u) = Len(s) - b
        /\ \A i \in 1..(Len(s) - b) : u[i] = s[b + i]
    <3>1. b + 1 \in Int /\ Len(s) \in Int /\ \A i \in (b + 1)..Len(s) : s[i] \in S
      BY <1>2, <1>4
    <3>2. /\ u \in Seq(S)
          /\ Len(u) = IF b + 1 <= Len(s) THEN Len(s) - (b + 1) + 1 ELSE 0
          /\ \A i \in 1..(Len(s) - (b + 1) + 1) : u[i] = s[(b + 1) + i - 1]
      BY <3>1, SubSeqProperties
    <3> HIDE DEF u
    <3>3. Len(u) = Len(s) - b
      BY <1>2, <1>4, <3>2
    <3>4. ASSUME NEW i \in 1..(Len(s) - b)
          PROVE  u[i] = s[b + i]
      <4>1. i \in 1..(Len(s) - (b + 1) + 1) /\ (b + 1) + i - 1 = b + i
        BY <1>2, <1>4
      <4> QED
        BY <3>2, <4>1
    <3> QED
      BY <3>2, <3>3, <3>4
  <2> HIDE DEF u
  <2>2. \A i \in 1..(Len(s) - b) : b + i \in 1..Len(s) /\ b + i \in (b + 1)..Len(s)
    BY <1>2, <1>4
  <2>3. ASSUME NEW i \in 1..Len(u), NEW j \in 1..Len(u), u[i] = u[j]
        PROVE  i = j
    <3>1. b + i = b + j
      BY <1>2, <2>1, <2>2, <2>3
    <3> QED
      BY <1>2, <1>4, <2>1, <3>1
  <2>4. u \in Lists(S)
    BY <2>1, <2>3, IsList
  <2>5. \A d \in ToSet(u) : \E i \in 1..Len(u) : u[i] = d
    BY <2>4, ListFacts
  <2>6. \A d \in ToSet(u) : \E k \in (b + 1)..Len(s) : d = s[k]
    BY <2>1, <2>2, <2>5
  <2> QED
    BY <2>4, <2>6
<1>12. /\ v \in Lists(S)
       /\ \A d \in ToSet(v) : \E k \in (b + 1)..Len(t) : d = t[k]
  <2>1. /\ v \in Seq(S) /\ Len(v) = Len(t) - b
        /\ \A i \in 1..(Len(t) - b) : v[i] = t[b + i]
    <3>1. b + 1 \in Int /\ Len(t) \in Int /\ \A i \in (b + 1)..Len(t) : t[i] \in S
      BY <1>3, <1>4
    <3>2. /\ v \in Seq(S)
          /\ Len(v) = IF b + 1 <= Len(t) THEN Len(t) - (b + 1) + 1 ELSE 0
          /\ \A i \in 1..(Len(t) - (b + 1) + 1) : v[i] = t[(b + 1) + i - 1]
      BY <3>1, SubSeqProperties
    <3> HIDE DEF v
    <3>3. Len(v) = Len(t) - b
      BY <1>3, <1>4, <3>2
    <3>4. ASSUME NEW i \in 1..(Len(t) - b)
          PROVE  v[i] = t[b + i]
      <4>1. i \in 1..(Len(t) - (b + 1) + 1) /\ (b + 1) + i - 1 = b + i
        BY <1>3, <1>4
      <4> QED
        BY <3>2, <4>1
    <3> QED
      BY <3>2, <3>3, <3>4
  <2> HIDE DEF v
  <2>2. \A i \in 1..(Len(t) - b) : b + i \in 1..Len(t) /\ b + i \in (b + 1)..Len(t)
    BY <1>3, <1>4
  <2>3. ASSUME NEW i \in 1..Len(v), NEW j \in 1..Len(v), v[i] = v[j]
        PROVE  i = j
    <3>1. b + i = b + j
      <4>1. i \in 1..(Len(t) - b) /\ j \in 1..(Len(t) - b)
        BY <2>1
      <4>2. t[b + i] = t[b + j]
        BY <2>1, <2>3, <4>1
      <4>3. b + i \in 1..Len(t) /\ b + j \in 1..Len(t)
        BY <2>2, <4>1
      <4> QED
        BY <1>3, <4>2, <4>3
    <3> QED
      BY <1>3, <1>4, <2>1, <3>1
  <2>4. v \in Lists(S)
    BY <2>1, <2>3, IsList
  <2>5. \A d \in ToSet(v) : \E i \in 1..Len(v) : v[i] = d
    BY <2>4, ListFacts
  <2>6. \A d \in ToSet(v) : \E k \in (b + 1)..Len(t) : d = t[k]
    BY <2>1, <2>2, <2>5
  <2> QED
    BY <2>4, <2>6
<1> HIDE DEF u, v
<1>13. \A k \in (b + 1)..Len(s) : k \in 1..Len(s) /\ s[k] \in ToSet(s) /\ \A l \in 1..b : k # l
  BY <1>2, <1>4
<1>14. \A k \in (b + 1)..Len(t) : k \in 1..Len(t) /\ t[k] \in ToSet(t) /\ \A l \in 1..b : k # l
  BY <1>3, <1>4
<1>15. f \o u \in Lists(S) /\ \A d \in ToSet(f \o u) : d \in ToSet(f) \/ d \in ToSet(u)
  <2>1. ASSUME NEW d \in ToSet(f), d \in ToSet(u)
        PROVE  FALSE
    <3>1. PICK k \in (b + 1)..Len(s) : d = s[k]
      BY <1>11, <2>1
    <3>2. CASE \E l \in 1..b : d = s[l]
      BY <1>2, <1>8, <1>13, <3>1, <3>2
    <3>3. CASE \E l \in 1..b : d = t[l]
      BY <1>8, <1>13, <3>1, <3>3
    <3> QED
      BY <1>10, <3>2, <3>3
  <2> QED
    BY <1>9, <1>11, <2>1, ConcatList
<1> DEFINE g == f \o u
<1> HIDE DEF g
<1>16. g \o v \in Lists(S)
  <2>1. ASSUME NEW d \in ToSet(g), d \in ToSet(v)
        PROVE  FALSE
    <3>1. PICK k \in (b + 1)..Len(t) : d = t[k]
      BY <1>12, <2>1
    <3>2. CASE d \in ToSet(u)
      BY <1>11, <1>13, <1>14, <3>1, <3>2
    <3>3. CASE \E l \in 1..b : d = s[l]
      BY <1>8, <1>14, <3>1, <3>3
    <3>4. CASE \E l \in 1..b : d = t[l]
      BY <1>3, <1>8, <1>14, <3>1, <3>4
    <3> QED
      BY <1>10, <1>15, <3>2, <3>3, <3>4 DEF g
  <2>2. g \in Lists(S)
    BY <1>15 DEF g
  <2> QED
    BY <1>12, <2>1, <2>2, ConcatList
<1> QED
  BY <1>1, <1>16 DEF g

(* The chunks of T a list keeps are a list of these chunks. *)
Kept(s, T) == Picked(s, {i \in DOMAIN s : s[i] \in T})

LEMMA KeptList ==
    ASSUME NEW S, NEW s \in Lists(S), NEW T
    PROVE  /\ Kept(s, T) \in Lists(S)
           /\ \A d \in ToSet(Kept(s, T)) : d \in T /\ d \in ToSet(s)
           /\ Len(s) # 0 /\ s[1] \in T => Len(Kept(s, T)) # 0 /\ Kept(s, T)[1] = s[1]
<1> DEFINE I == {i \in DOMAIN s : s[i] \in T}
<1>1. Kept(s, T) = Picked(s, I)
  BY DEF Kept
<1>2. Len(s) \in Nat /\ DOMAIN s = 1..Len(s) /\ \A i \in 1..Len(s) : s[i] \in ToSet(s)
  BY ListFacts
<1>3. I \in SUBSET DOMAIN s /\ (Len(s) # 0 /\ s[1] \in T => 1 \in I)
  BY <1>2
<1>4. \A i \in I : s[i] \in T /\ s[i] \in ToSet(s)
  BY <1>2
<1> HIDE DEF I
<1>5. IsSublist(S, s, I, Picked(s, I))
  BY <1>3, PickedList
<1>6. /\ Picked(s, I) \in Lists(S)
      /\ \A d \in ToSet(Picked(s, I)) : d \in T /\ d \in ToSet(s)
  BY <1>4, <1>5 DEF IsSublist
<1>7. Len(s) # 0 /\ s[1] \in T => Len(Picked(s, I)) # 0 /\ Picked(s, I)[1] = s[1]
  BY <1>3, <1>5 DEF IsSublist
<1> QED
  BY <1>1, <1>6, <1>7

(* What may be listed is a list of what is listed. *)
LEMMA ListedList ==
    ASSUME NEW S, NEW s \in Lists(S)
    PROVE  /\ Listed(s) \in Lists(S)
           /\ \A d \in ToSet(Listed(s)) : d \in request.listed /\ d \in ToSet(s)
           /\ request.intent # "FEATURE_INVENTORY" /\ Len(s) # 0 /\ s[1] \in request.listed =>
                Len(Listed(s)) # 0 /\ Listed(s)[1] = s[1]
<1> DEFINE l == Selected(s, LAMBDA d : d \in request.listed)
<1> DEFINE I == {i \in DOMAIN l : \A j \in DOMAIN l : j < i => l[j].source # l[i].source}
<1>1. Listed(s) = IF request.intent = "FEATURE_INVENTORY" THEN Picked(l, I) ELSE l
  BY DEF Listed, FirstOfEach
<1>2. /\ l \in Lists(S)
      /\ \A d \in ToSet(l) : d \in request.listed /\ d \in ToSet(s)
      /\ Len(s) # 0 /\ s[1] \in request.listed => Len(l) # 0 /\ l[1] = s[1]
  <2>1. l = Kept(s, request.listed)
    BY DEF Kept, Selected
  <2> HIDE DEF l
  <2> QED
    BY <2>1, KeptList
<1> HIDE DEF l
<1>3. Picked(l, I) \in Lists(S) /\ \A d \in ToSet(Picked(l, I)) : d \in ToSet(l)
  <2>1. I \in SUBSET DOMAIN l /\ \A i \in I : l[i] \in ToSet(l)
    BY <1>2, ListFacts
  <2> HIDE DEF I
  <2>2. IsSublist(S, l, I, Picked(l, I))
    BY <1>2, <2>1, PickedList
  <2> QED
    BY <2>1, <2>2 DEF IsSublist
<1> HIDE DEF I
<1> QED
  BY <1>1, <1>2, <1>3

(* A ranking of both kinds of sources is a list of their chunks. *)
LEMMA CrossSourceList ==
    ASSUME NEW S, NEW s \in Lists(S), NEW r \in CrossSourceRankings(ToSet(s))
    PROVE  r \in Lists(S)
<1> DEFINE P == {d \in ToSet(s) : d.type = "PAGE"}
<1> DEFINE C == {d \in ToSet(s) : d.type = "CODE"}
<1>1. \E m, n : \E p \in Rankings(P, m), c \in Rankings(C, n) : r = Alternate(p, c)
  <2> DEFINE m == IF ToSet(s) = P THEN MixedTopN ELSE PageTopN
  <2> DEFINE n == IF ToSet(s) = C THEN MixedTopN ELSE PageTopN
  <2>1. r \in {Alternate(p, c) : p \in Rankings(P, m), c \in Rankings(C, n)}
    BY DEF CrossSourceRankings
  <2> HIDE DEF P, C, m, n
  <2>2. \E p \in Rankings(P, m), c \in Rankings(C, n) : r = Alternate(p, c)
    BY <2>1
  <2> QED
    BY <2>2
<1>2. PICK p, c : /\ r = Alternate(p, c)
                  /\ \E m : p \in Rankings(P, m)
                  /\ \E n : c \in Rankings(C, n)
  BY <1>1
<1>3. P \in SUBSET ToSet(s) /\ C \in SUBSET ToSet(s)
  OBVIOUS
<1>4. \A d \in P : d.type = "PAGE"
  OBVIOUS
<1>5. \A d \in C : d.type = "CODE"
  OBVIOUS
<1>6. "PAGE" # "CODE"
  OBVIOUS
<1> HIDE DEF P, C
<1>7. /\ \A T \in SUBSET ToSet(s) : IsFiniteSet(T) /\ T \in SUBSET S
      /\ \A T \in SUBSET ToSet(s) : \A n : \A q \in Rankings(T, n) : q \in Lists(S)
  BY SetOfList, RankingsList
<1>8. p \in Lists(S) /\ c \in Lists(S)
  BY <1>2, <1>3, <1>7
<1>9. ToSet(p) \in SUBSET P
  <2>1. PICK U \in SUBSET P : p \in SetToSeqs(U)
    BY <1>2 DEF Rankings
  <2>2. IsFiniteSet(U)
    BY <1>3, <1>7
  <2> QED
    BY <2>1, <2>2, SeqsOfSet
<1>10. ToSet(c) \in SUBSET C
  <2>1. PICK U \in SUBSET C : c \in SetToSeqs(U)
    BY <1>2 DEF Rankings
  <2>2. IsFiniteSet(U)
    BY <1>3, <1>7
  <2> QED
    BY <2>1, <2>2, SeqsOfSet
<1>11. \A d \in ToSet(p) : d \notin ToSet(c)
  BY <1>4, <1>5, <1>6, <1>9, <1>10
<1> QED
  BY <1>2, <1>8, <1>11, AlternateList

(* Whatever the route, its ranking is a list of candidates. *)
LEMMA RankedList ==
    ASSUME NEW S, candidates \in Lists(S), NEW r \in Ranked
    PROVE  r \in Lists(S)
<1> DEFINE all == ToSet(candidates)
<1> DEFINE Arranged == \E T \in SUBSET all : r \in Arrangements(T, TopN)
<1> DEFINE Thresholded == \E T \in SUBSET all : \E n : r \in Rankings(T, n)
<1> DEFINE located == {d \in all : d \in request.located}
<1> DEFINE exact == {d \in all : d.anchored /\ d.type = "PAGE"}
<1>1. located \in SUBSET all /\ exact \in SUBSET all /\ all \in SUBSET all
  OBVIOUS
<1>2. ToSet(Listed(candidates)) \in SUBSET all
  BY ListedList
<1>3. {d \in all : d.type \in {"PAGE", "CODE"}} \in SUBSET all
  OBVIOUS
<1>4. \/ Arranged \/ Thresholded \/ r = candidates
      \/ \E q \in SetToSeqs(all) : r = Window(Listed(q), TopN)
      \/ \E q \in SetToSeqs(all) : r = Window(DiverseOrder(q), TopN)
      \/ r \in CrossSourceRankings(all)
  <2>1. CASE request.intent = "IMPLEMENTATION" /\ located # {}
    <3>1. r \in Arrangements(located, TopN)
      BY <2>1 DEF Ranked
    <3> QED
      BY <1>1, <3>1
  <2>2. CASE /\ ~(request.intent = "IMPLEMENTATION" /\ located # {})
             /\ request.intent = "DELIVERY" /\ Len(candidates) = 1
    BY <2>2 DEF Ranked
  <2>3. CASE /\ ~(request.intent = "IMPLEMENTATION" /\ located # {})
             /\ ~(request.intent = "DELIVERY" /\ Len(candidates) = 1)
             /\ request.intent = "STRUCTURED_INVENTORY" /\ exact # {}
    <3>1. r \in Arrangements(exact, TopN)
      BY <2>3 DEF Ranked
    <3> QED
      BY <1>1, <3>1
  <2>4. CASE /\ ~(request.intent = "IMPLEMENTATION" /\ located # {})
             /\ ~(request.intent = "DELIVERY" /\ Len(candidates) = 1)
             /\ ~(request.intent = "STRUCTURED_INVENTORY" /\ exact # {})
    <3> DEFINE mixed == {d \in all : d.type \in {"PAGE", "CODE"}}
    <3>1. \/ r \in Rankings(all, TopN) \/ r \in Arrangements(all, TopN)
          \/ \E q \in SetToSeqs(all) : r = Window(Listed(q), TopN)
          \/ r \in Arrangements(ToSet(Listed(candidates)), TopN)
          \/ r \in Rankings(mixed, MixedTopN)
          \/ r \in CrossSourceRankings(all)
          \/ \E q \in SetToSeqs(all) : r = Window(DiverseOrder(q), TopN)
          \/ r \in Rankings(all, Cardinality(all)) \/ r \in Rankings(all, RerankTopN)
      BY <2>4 DEF Ranked
    <3> HIDE DEF all, mixed
    <3> QED
      BY <1>1, <1>2, <1>3, <3>1 DEF mixed
  <2> QED
    BY <2>1, <2>2, <2>3, <2>4
<1>5. TopN \in Nat
  BY Limit
<1>6. CASE Arranged
  BY <1>5, <1>6, ArrangementsList
<1>7. CASE Thresholded
  BY <1>7, RankingsList
<1>8. ASSUME NEW q \in SetToSeqs(all), r = Window(Listed(q), TopN)
      PROVE  r \in Lists(S)
  <2>1. q \in Lists(S)
    BY <1>1, SeqsOfList
  <2>2. Listed(q) \in Lists(S)
    BY <2>1, ListedList
  <2> QED
    BY <1>5, <1>8, <2>2, WindowList
<1>9. ASSUME NEW q \in SetToSeqs(all), r = Window(DiverseOrder(q), TopN)
      PROVE  r \in Lists(S)
  <2>1. q \in Lists(S)
    BY <1>1, SeqsOfList
  <2>2. DiverseOrder(q) \in Lists(S)
    BY <2>1, DiverseList
  <2> QED
    BY <1>5, <1>9, <2>2, WindowList
<1>10. CASE r \in CrossSourceRankings(all)
  BY <1>10, CrossSourceList
<1> QED
  BY <1>4, <1>6, <1>7, <1>8, <1>9, <1>10

(* What the route makes of its ranking is a list; a candidate with an exact*)
(* identifier is first, where one is ranked and only candidates are listed.*)
LEMMA ShapedList ==
    ASSUME NEW S, candidates \in Lists(S), NEW r \in Lists(S)
    PROVE  /\ Shaped(r) \in Lists(S)
           /\ /\ ~Inventory /\ \E d \in ToSet(candidates) : d.anchored
              /\ request.intent = "PROJECT_OVERVIEW" =>
                   \A d \in ToSet(candidates) : d \in request.listed
              => Len(Shaped(r)) # 0 /\ Shaped(r)[1].anchored
<1> DEFINE a == ProtectAnchors(r, candidates, TopN)
<1> DEFINE w == IF Neighborly /\ a # <<>> THEN ExpandNeighbors(a, candidates, TopN) ELSE a
<1> DEFINE k == CASE request.intent = "FEATURE_INVENTORY" /\ ~request.listing -> Listed(w)
                  [] request.intent = "CODE_INVENTORY" -> Listed(w)
                  [] request.intent = "ENTITY_OVERVIEW" -> DiverseOrder(w)
                  [] request.intent = "PROJECT_OVERVIEW" -> DiverseOrder(Listed(w))
                  [] OTHER -> w
<1> DEFINE Expects ==
             /\ ~Inventory /\ \E d \in ToSet(candidates) : d.anchored
             /\ request.intent = "PROJECT_OVERVIEW" =>
                  \A d \in ToSet(candidates) : d \in request.listed
<1>1. Shaped(r) = IF request.intent = "FEATURE_INVENTORY" THEN ReserveForPages(k, TopN) ELSE k
  BY DEF Shaped
<1>2. TopN \in Nat \ {0}
  BY Limit
<1>3. /\ a \in Lists(S)
      /\ (\E d \in ToSet(candidates) : d.anchored) =>
           Len(a) # 0 /\ a[1] \in ToSet(candidates) /\ a[1].anchored
  BY <1>2, ProtectList
<1> HIDE DEF a
<1>4. w \in Lists(S) /\ (Len(a) # 0 => Len(w) # 0 /\ w[1] = a[1])
  <2>1. /\ ExpandNeighbors(a, candidates, TopN) \in Lists(S)
        /\ Len(a) # 0 => /\ Len(ExpandNeighbors(a, candidates, TopN)) # 0
                         /\ ExpandNeighbors(a, candidates, TopN)[1] = a[1]
    BY <1>2, <1>3, ExpandList
  <2> QED
    BY <1>3, <2>1
<1> HIDE DEF w
<1>5. /\ Listed(w) \in Lists(S) /\ DiverseOrder(w) \in Lists(S)
      /\ DiverseOrder(Listed(w)) \in Lists(S)
  BY <1>4, ListedList, DiverseList
<1>6. Inventory <=> request.intent \in {"FEATURE_INVENTORY", "CODE_INVENTORY"}
  BY DEF Inventory
<1>7. k \in Lists(S)
  BY <1>4, <1>5
<1>8. ASSUME Expects
      PROVE  Len(k) # 0 /\ k[1].anchored /\ request.intent # "FEATURE_INVENTORY"
  <2>1. Len(w) # 0 /\ w[1] \in ToSet(candidates) /\ w[1].anchored
    BY <1>3, <1>4, <1>8
  <2>2. request.intent # "FEATURE_INVENTORY" /\ request.intent # "CODE_INVENTORY"
    BY <1>6, <1>8
  <2>3. CASE request.intent = "ENTITY_OVERVIEW"
    <3>1. k = DiverseOrder(w)
      BY <2>3
    <3>2. Len(DiverseOrder(w)) = Len(w) /\ DiverseOrder(w)[1] = w[1]
      BY <1>4, <2>1, DiverseList
    <3> HIDE DEF k
    <3> QED
      BY <2>1, <2>2, <3>1, <3>2
  <2>4. CASE request.intent = "PROJECT_OVERVIEW"
    <3>1. k = DiverseOrder(Listed(w))
      BY <2>4
    <3>2. w[1] \in request.listed
      BY <1>8, <2>1, <2>4
    <3>3. Len(Listed(w)) # 0 /\ Listed(w)[1] = w[1]
      BY <1>4, <2>1, <2>2, <3>2, ListedList
    <3>4. Len(DiverseOrder(Listed(w))) # 0 /\ DiverseOrder(Listed(w))[1] = w[1]
      BY <1>5, <3>3, DiverseList
    <3> HIDE DEF k
    <3> QED
      BY <2>1, <2>2, <3>1, <3>4
  <2>5. CASE request.intent # "ENTITY_OVERVIEW" /\ request.intent # "PROJECT_OVERVIEW"
    <3>1. k = w
      BY <2>2, <2>5
    <3> HIDE DEF k
    <3> QED
      BY <2>1, <2>2, <3>1
  <2> QED
    BY <2>3, <2>4, <2>5
<1> HIDE DEF k
<1>9. ReserveForPages(k, TopN) \in Lists(S)
  BY <1>2, <1>7, ReserveList
<1>10. Shaped(r) \in Lists(S)
  BY <1>1, <1>7, <1>9
<1>11. Expects => Len(Shaped(r)) # 0 /\ Shaped(r)[1].anchored
  BY <1>1, <1>8
<1> QED
  BY <1>10, <1>11

(* Something is ranked if there is something to rank. *)
LEMMA FallbackList ==
    ASSUME NEW S, candidates \in Lists(S), NEW s \in Lists(S), NEW x \in Fallback(s)
    PROVE  /\ x \in Lists(S) /\ (Len(s) # 0 => x = s)
           /\ Len(candidates) # 0 => Len(x) # 0
<1>1. s = <<>> <=> Len(s) = 0
  BY NoChunk
<1>2. candidates = <<>> <=> Len(candidates) = 0
  BY NoChunk
<1>3. CASE s # <<>> \/ candidates = <<>>
  <2>1. x = s
    BY <1>3 DEF Fallback
  <2> QED
    BY <1>1, <1>2, <1>3, <2>1
<1>4. CASE ~(s # <<>> \/ candidates = <<>>)
  <2>1. x \in Rankings(ToSet(candidates), TopN) /\ x # <<>>
    BY <1>4 DEF Fallback
  <2>2. ToSet(candidates) \in SUBSET ToSet(candidates)
    OBVIOUS
  <2>3. x \in Lists(S)
    BY <2>1, <2>2, RankingsList
  <2>4. Len(x) # 0
    BY <2>1, <2>3, NoChunk
  <2> QED
    BY <1>1, <1>4, <2>3, <2>4
<1> QED
  BY <1>3, <1>4

(* What was selected with what a repair keeps: unless the limit is reached *)
(* the evidence before it is all there, and every requirement it is for is *)
(* met that a candidate meets.                                             *)
LEMMA MergedList ==
    ASSUME NEW S, candidates \in Lists(S), prior \in Lists(S), NEW s \in Lists(S),
           repairing \in Seq(ToSet(repairing))
    PROVE  /\ Merged(s) \in Lists(S) /\ Len(Merged(s)) <= TopN
           /\ Len(s) # 0 => Len(Merged(s)) # 0
           /\ request.intent # "FEATURE_INVENTORY" /\ Len(s) # 0 => Merged(s)[1] = s[1]
           /\ request.intent # "FEATURE_INVENTORY" /\ Len(Merged(s)) < TopN =>
                /\ \A d \in ToSet(prior) : d \in ToSet(Merged(s))
                /\ \A q \in ToSet(repairing) : Met(candidates, q) => Met(Merged(s), q)
<1> DEFINE m == MergeRanked(s, prior, TopN)
<1> DEFINE p == PinRequirements(m, candidates, repairing, TopN)
<1> DEFINE k == IF request.intent = "FEATURE_INVENTORY" THEN ReserveForPages(p, TopN) ELSE p
<1> DEFINE o == IF request.listing THEN k ELSE DiverseOrder(k)
<1> DEFINE w == Window(o, TopN)
<1>1. Merged(s) = w
  BY DEF Merged
<1>2. TopN \in Nat \ {0}
  BY Limit
<1>3. /\ m \in Lists(S) /\ Len(m) <= TopN
      /\ Len(s) # 0 => Len(m) # 0 /\ m[1] = s[1]
      /\ Len(m) < TopN => \A d \in ToSet(prior) : d \in ToSet(m)
  <2>1. TopN \in Nat /\ TopN # 0
    BY <1>2
  <2> QED
    BY <2>1, MergeList
<1> HIDE DEF m
<1>4. /\ p \in Lists(S)
      /\ Len(m) # 0 => Len(p) # 0 /\ p[1] = m[1]
      /\ Len(p) < TopN =>
           /\ Len(m) < TopN
           /\ \A d \in ToSet(m) : d \in ToSet(p)
           /\ \A q \in ToSet(repairing) : Met(candidates, q) => Met(p, q)
  BY <1>2, <1>3, PinRequirementsList
<1> HIDE DEF p
<1>5. /\ k \in Lists(S) /\ (Len(p) # 0 => Len(k) # 0)
      /\ request.intent # "FEATURE_INVENTORY" => k = p
  BY <1>2, <1>4, ReserveList
<1> HIDE DEF k
<1>6. /\ o \in Lists(S) /\ Len(o) = Len(k) /\ ToSet(o) = ToSet(k)
      /\ Len(k) # 0 => o[1] = k[1]
  BY <1>5, DiverseList
<1> HIDE DEF o
<1>7. /\ w \in Lists(S) /\ Len(w) <= TopN
      /\ Len(w) < TopN => w = o
      /\ Len(o) # 0 => Len(w) # 0 /\ w[1] = o[1]
  <2>1. TopN \in Nat /\ TopN # 0
    BY <1>2
  <2> QED
    BY <1>6, <2>1, WindowList
<1> HIDE DEF w
<1>8. Len(s) # 0 => Len(w) # 0
  BY <1>3, <1>4, <1>5, <1>6, <1>7
<1>9. request.intent # "FEATURE_INVENTORY" /\ Len(s) # 0 => w[1] = s[1]
  BY <1>3, <1>4, <1>5, <1>6, <1>7
<1>10. ASSUME request.intent # "FEATURE_INVENTORY", Len(w) < TopN
       PROVE  /\ \A d \in ToSet(prior) : d \in ToSet(w)
              /\ \A q \in ToSet(repairing) : Met(candidates, q) => Met(w, q)
  <2>1. w = o /\ k = p
    BY <1>5, <1>7, <1>10
  <2>2. ToSet(w) = ToSet(p) /\ Len(p) < TopN
    BY <1>6, <1>10, <2>1
  <2>3. \A d \in ToSet(prior) : d \in ToSet(p)
    BY <1>3, <1>4, <2>2
  <2>4. \A q : Met(p, q) => Met(w, q)
    BY <2>2 DEF Met
  <2> QED
    BY <1>4, <2>2, <2>3, <2>4
<1> QED
  BY <1>1, <1>7, <1>8, <1>9, <1>10

(* What is served is the window, or the records of the window's chunks. *)
LEMMA CompletedList ==
    ASSUME NEW s \in Lists(Docs), NEW w \in Completed(s)
    PROVE  /\ w \in Lists(Docs) /\ (~ByRecord => w = s)
           /\ Len(s) # 0 => Len(w) # 0
           /\ ~request.single /\ Len(s) # 0 => s[1] \in ToSet(w)
           /\ ByRecord /\ ~request.single => Complete(w, InScope)
<1>1. InScope \in SUBSET Docs
  BY DEF InScope
<1>2. s = <<>> <=> Len(s) = 0
  BY NoChunk
<1>3. request.single => ByRecord
  BY DEF ByRecord
<1>4. CASE request.single /\ s # <<>>
  <2>1. PICK d \in ToSet(s) : w = Reconstruct(<<d>>, InScope, TRUE)
    BY <1>4 DEF Completed
  <2> DEFINE h == <<d>>
  <2>2. h \in Lists(Docs) /\ Len(h) # 0
    <3>1. d \in Docs
      BY ListFacts
    <3>2. h \in Seq(Docs) /\ Len(h) = 1
      BY <3>1
    <3> HIDE DEF h
    <3>3. \A i, j \in 1..1 : i = j
      OBVIOUS
    <3> QED
      BY <3>2, <3>3, IsList
  <2>3. w = Reconstruct(h, InScope, TRUE)
    BY <2>1
  <2> HIDE DEF h
  <2>4. w \in Lists(Docs) /\ Len(w) # 0
    BY <1>1, <2>2, <2>3, ReconstructList
  <2> QED
    BY <1>3, <1>4, <2>4
<1>5. CASE ByRecord /\ ~(request.single /\ s # <<>>)
  <2>1. w = Reconstruct(s, InScope, FALSE)
    BY <1>5 DEF Completed
  <2>2. /\ w \in Lists(Docs) /\ (Len(s) # 0 => Len(w) # 0)
        /\ Len(s) # 0 => s[1] \in ToSet(w)
        /\ Complete(w, InScope)
    BY <1>1, <2>1, ReconstructList
  <2> QED
    BY <1>5, <2>2
<1>6. CASE ~ByRecord
  <2>1. w = s
    BY <1>3, <1>6 DEF Completed
  <2>2. Len(s) # 0 => s[1] \in ToSet(s)
    <3>1. Len(s) \in Nat /\ \A i \in 1..Len(s) : s[i] \in ToSet(s)
      BY ListFacts
    <3> QED
      BY <3>1
  <2> QED
    BY <1>6, <2>1, <2>2
<1> QED
  BY <1>4, <1>5, <1>6

-----------------------------------------------------------------------------
(* The invariant *)

(* The chunks that are no piece of a ticket's past. *)
Now == {d \in Docs : d.current}

(* The variables, with what each node is entered with. *)
Typed ==
    /\ request \in Requests
    /\ pc \in {"retrieve", "affinity", "rerank", "validate", "generate", "recover", "end"}
    /\ attempt \in 1..MaxAttempts /\ (pc = "recover" => attempt < MaxAttempts)
    /\ preserve \in BOOLEAN
    /\ slot \in 0..Len(queries) /\ (pc # "retrieve" => slot = 0)

(* Before a search there is something to search for. *)
QueriesReady ==
    pc = "retrieve" =>
        /\ queries \in Seq(ToSet(queries)) /\ queries # <<>>
        /\ slot # 0 => Len(queries) >= 2
        /\ \A i \in DOMAIN queries : i # slot => queries[i] # ""

(* No list holds a chunk twice, and there is evidence where it is used. *)
EvidenceListed ==
    /\ candidates \in Lists(Docs) /\ documents \in Lists(Docs) /\ prior \in Lists(Docs)
    /\ pc \in {"validate", "generate"} => Len(documents) # 0

(* What a repair is for. *)
RepairTerms ==
    repairing \in Seq(ToSet(repairing))

(* The window of evidence is within the route's limit. *)
WithinLimit == ~ByRecord => Len(documents) <= TopN

(* The state of a ticket is ranked, and answered, from its present record. *)
PresentRanked ==
    AskedState =>
        /\ documents \in Lists(Now) /\ prior \in Lists(Now)
        /\ pc = "rerank" => candidates \in Lists(Now)

(* What is looked up is the section, what an overview ranks is listed. *)
CandidatesMeant ==
    /\ pc = "affinity" /\ SectionLookup => candidates = request.sections
    /\ pc = "rerank" /\ request.intent = "PROJECT_OVERVIEW" /\ request.sections = <<>> =>
         \A d \in ToSet(candidates) : d \in request.listed

(* The window of evidence has its records whole. *)
RecordsComplete == ByRecord /\ ~request.single => Complete(documents, InScope)

(* Where the passes are, with all they rely on from the passes before. *)
IInv ==
    /\ Typed /\ QueriesReady /\ EvidenceListed /\ RepairTerms /\ WithinLimit
    /\ PresentRanked /\ CandidatesMeant /\ RecordsComplete
    /\ SearchesAsPlanned /\ RepairAddsUnlessFull /\ AnchorKept /\ EvidenceNotLost

(* What depends on the request alone does not change with it. *)
LEMMA SameRequest ==
    ASSUME request' = request
    PROVE  /\ ByRecord' = ByRecord /\ TopN' = TopN /\ AskedState' = AskedState
           /\ SectionLookup' = SectionLookup /\ InScope' = InScope
           /\ Inventory' = Inventory
<1>1. TopN' = TopN /\ Inventory' = Inventory
  BY DEF TopN, Inventory
<1>2. ByRecord' = ByRecord /\ AskedState' = AskedState /\ SectionLookup' = SectionLookup
  BY DEF ByRecord, AskedState, SectionLookup
<1>3. InScope' = InScope
  BY DEF InScope
<1> QED
  BY <1>1, <1>2, <1>3

(* A question about the state of tickets is not about one record. *)
LEMMA StateRequest ==
    ASSUME request \in Requests, AskedState
    PROVE  ~ByRecord /\ ~request.single
<1>1. request.intent = "DELIVERY"
  BY DEF AskedState
<1>2. request.single => request.intent = "CODE_ASSISTED"
  BY RequestsAssumption
<1> QED
  BY <1>1, <1>2 DEF ByRecord

(* A sequence is one of its own elements. *)
LEMMA OwnElements ==
    ASSUME NEW R, NEW s \in Seq(R)
    PROVE  s \in Seq(ToSet(s)) /\ \A x \in ToSet(s) : x \in R
<1>1. Len(s) \in Nat /\ DOMAIN s = 1..Len(s) /\ \A i \in 1..Len(s) : s[i] \in R
  BY LenProperties, ElementOfSeq
<1>2. \A i \in 1..Len(s) : s[i] \in ToSet(s)
  BY <1>1 DEF ToSet
<1>3. s = [i \in 1..Len(s) |-> s[i]]
  BY LenProperties
<1>4. s \in [1..Len(s) -> ToSet(s)]
  BY <1>2, <1>3
<1>5. s \in Seq(ToSet(s))
  BY <1>1, <1>4
<1>6. \A x \in ToSet(s) : x \in R
  BY <1>1 DEF ToSet
<1> QED
  BY <1>5, <1>6

(* The chunks of the present among candidates, and what affinity prefers. *)
LEMMA CurrentList ==
    ASSUME NEW s \in Lists(Docs)
    PROVE  Current(s) \in Lists(Docs) /\ Current(s) \in Lists(Now)
<1>1. \A i \in DOMAIN s : s[i] \in Docs
  BY ListFacts
<1>2. {i \in DOMAIN s : s[i].current} = {i \in DOMAIN s : s[i] \in Now}
  BY <1>1 DEF Now
<1>3. Current(s) = Kept(s, Now)
  BY <1>2 DEF Current, Selected, Kept
<1>4. Kept(s, Now) \in Lists(Docs) /\ \A d \in ToSet(Kept(s, Now)) : d \in Now
  BY KeptList
<1> DEFINE k == Kept(s, Now)
<1> HIDE DEF k
<1>5. \A i \in 1..Len(k) : k[i] \in Now
  BY <1>4, ListFacts DEF k
<1>6. k \in Lists(Now)
  BY <1>4, <1>5, ListOf DEF k
<1> QED
  BY <1>3, <1>4, <1>6 DEF k

LEMMA PreferredList ==
    ASSUME request \in Requests, candidates \in Lists(Docs),
           SectionLookup => candidates = request.sections
    PROVE  /\ Preferred \in Lists(Docs)
           /\ AskedState => Preferred \in Lists(Now)
           /\ request.intent = "PROJECT_OVERVIEW" /\ request.sections = <<>> =>
                \A d \in ToSet(Preferred) : d \in request.listed
<1> DEFINE named == Selected(candidates, LAMBDA d : d \in request.titled)
<1> DEFINE rest == IF request.sections # <<>> THEN request.sections
                   ELSE IF request.intent = "PROJECT_OVERVIEW" THEN Listed(candidates)
                   ELSE IF named # <<>> THEN named ELSE candidates
<1>1. Preferred = IF AskedState /\ Current(candidates) # candidates
                  THEN Current(candidates) ELSE rest
  BY DEF Preferred
<1>2. Current(candidates) \in Lists(Docs) /\ Current(candidates) \in Lists(Now)
  BY CurrentList
<1>3. request.sections \in Lists(Docs)
  BY RequestsAssumption DEF Lists
<1>4. \A S : candidates \in Lists(S) => named \in Lists(S)
  <2>1. named = Kept(candidates, request.titled)
    BY DEF Kept, Selected
  <2> HIDE DEF named
  <2> QED
    BY <2>1, KeptList
<1> HIDE DEF named
<1>5. Listed(candidates) \in Lists(Docs) /\ \A d \in ToSet(Listed(candidates)) : d \in request.listed
  BY ListedList
<1>6. rest \in Lists(Docs)
  BY <1>3, <1>4, <1>5
<1>7. Preferred \in Lists(Docs)
  BY <1>1, <1>2, <1>6
<1>8. ASSUME AskedState
      PROVE  Preferred \in Lists(Now)
  <2>1. CASE Current(candidates) # candidates
    BY <1>1, <1>2, <1>8, <2>1
  <2>2. CASE Current(candidates) = candidates
    <3>1. candidates \in Lists(Now) /\ Preferred = rest
      BY <1>1, <1>2, <2>2
    <3>2. request.intent = "DELIVERY"
      BY <1>8 DEF AskedState
    <3>3. request.sections # <<>> => candidates = request.sections
      BY <3>2 DEF SectionLookup
    <3>4. rest \in Lists(Now)
      BY <1>4, <3>1, <3>2, <3>3
    <3> QED
      BY <3>1, <3>4
  <2> QED
    BY <2>1, <2>2
<1>9. ASSUME request.intent = "PROJECT_OVERVIEW", request.sections = <<>>
      PROVE  Preferred = Listed(candidates)
  <2>1. ~AskedState
    BY <1>9 DEF AskedState
  <2> QED
    BY <1>1, <1>9, <2>1
<1> QED
  BY <1>5, <1>7, <1>8, <1>9

-----------------------------------------------------------------------------
(* The steps *)

(* At the beginning there is what the planner made ready, and no evidence. *)
LEMMA Begins ==
    ASSUME Init
    PROVE  IInv
<1>1. /\ request \in Requests /\ pc = "retrieve" /\ attempt = 1
      /\ queries = request.queries /\ slot = request.slot /\ preserve = FALSE
      /\ candidates = <<>> /\ documents = <<>> /\ prior = <<>> /\ repairing = <<>>
  BY DEF Init
<1>2. /\ request.queries \in Seq(ToSet(request.queries)) /\ request.queries # <<>>
      /\ request.slot \in 0..Len(request.queries)
      /\ request.slot # 0 => Len(request.queries) >= 2
      /\ \A i \in DOMAIN request.queries : i # request.slot => request.queries[i] # ""
  BY <1>1, RequestsAssumption
<1>3. Typed
  <2>1. 1 \in 1..MaxAttempts
    BY SelectionAssumption
  <2> QED
    BY <1>1, <1>2, <2>1 DEF Typed
<1>4. QueriesReady
  BY <1>1, <1>2 DEF QueriesReady
<1>5. <<>> \in Lists(Docs) /\ <<>> \in Lists(Now) /\ Len(<<>>) = 0 /\ ToSet(<<>>) = {}
  BY EmptyList
<1>6. EvidenceListed
  BY <1>1, <1>5 DEF EvidenceListed
<1>7. RepairTerms
  <2>1. <<>> \in Seq(ToSet(<<>>))
    OBVIOUS
  <2> QED
    BY <1>1, <2>1 DEF RepairTerms
<1>8. WithinLimit
  <2>1. TopN \in Nat /\ TopN # 0
    BY Limit
  <2>2. 0 <= TopN
    BY <2>1
  <2> QED
    BY <1>1, <1>5, <2>2 DEF WithinLimit
<1>9. PresentRanked /\ CandidatesMeant
  BY <1>1, <1>5 DEF PresentRanked, CandidatesMeant
<1>10. RecordsComplete
  BY <1>1, <1>5 DEF RecordsComplete, Complete
<1>11. SearchesAsPlanned /\ RepairAddsUnlessFull /\ AnchorKept /\ EvidenceNotLost
  BY <1>1 DEF SearchesAsPlanned, RepairAddsUnlessFull, AnchorKept, EvidenceNotLost
<1> QED
  BY <1>3, <1>4, <1>6, <1>7, <1>8, <1>9, <1>10, <1>11 DEF IInv

(* A step that leaves the evidence alone, and is no step to a search, to a *)
(* ranking or back from one, keeps what is known of the evidence.          *)
LEMMA EvidenceUntouched ==
    ASSUME IInv, UNCHANGED <<request, candidates, documents, prior, repairing>>,
           Typed', QueriesReady', pc' \in {"retrieve", "generate", "end"},
           pc' = "generate" => pc \in {"validate", "generate"}
    PROVE  IInv'
<1>1. /\ ByRecord' = ByRecord /\ TopN' = TopN /\ AskedState' = AskedState
      /\ InScope' = InScope
  BY SameRequest
<1>2. EvidenceListed' /\ RepairTerms'
  BY DEF IInv, EvidenceListed, RepairTerms
<1>3. WithinLimit'
  BY <1>1 DEF IInv, WithinLimit
<1>4. PresentRanked' /\ CandidatesMeant'
  BY <1>1 DEF IInv, PresentRanked, CandidatesMeant
<1>5. RecordsComplete'
  BY <1>1 DEF IInv, RecordsComplete, Complete
<1>6. SearchesAsPlanned' /\ RepairAddsUnlessFull' /\ AnchorKept' /\ EvidenceNotLost'
  BY DEF SearchesAsPlanned, RepairAddsUnlessFull, AnchorKept, EvidenceNotLost
<1> QED
  BY <1>2, <1>3, <1>4, <1>5, <1>6 DEF IInv

(* A repair begins from the evidence there is. *)
LEMMA RepairStep ==
    ASSUME IInv, pc \in {"validate", "generate"}, NEW missing,
           missing \in Seq(ToSet(missing)), missing # <<>>, Repair(missing)
    PROVE  IInv'
<1>1. /\ attempt < MaxAttempts /\ attempt' = attempt + 1
      /\ queries' = <<"repair">> /\ preserve' = TRUE /\ prior' = documents
      /\ repairing' = missing /\ pc' = "retrieve"
      /\ UNCHANGED <<request, slot, searched, candidates, documents>>
  BY DEF Repair
<1>2. /\ ByRecord' = ByRecord /\ TopN' = TopN /\ AskedState' = AskedState
      /\ InScope' = InScope
  BY <1>1, SameRequest
<1>3. slot = 0
  BY DEF IInv, Typed
<1>4. Typed'
  <2>1. attempt' \in 1..MaxAttempts
    BY <1>1, SelectionAssumption DEF IInv, Typed
  <2>2. 0 \in 0..Len(<<"repair">>)
    OBVIOUS
  <2> QED
    BY <1>1, <1>3, <2>1, <2>2 DEF IInv, Typed
<1>5. QueriesReady'
  <2>1. /\ <<"repair">> \in Seq(ToSet(<<"repair">>)) /\ <<"repair">> # <<>>
        /\ \A i \in DOMAIN <<"repair">> : <<"repair">>[i] # ""
    <3>1. <<"repair">> \in Seq({"repair"}) /\ <<"repair">> # <<>>
      OBVIOUS
    <3>2. /\ <<"repair">> \in Seq(ToSet(<<"repair">>))
          /\ \A x \in ToSet(<<"repair">>) : x \in {"repair"}
      BY <3>1, OwnElements
    <3>3. \A i \in DOMAIN <<"repair">> : <<"repair">>[i] = "repair"
      OBVIOUS
    <3> QED
      BY <3>1, <3>2, <3>3
  <2> QED
    BY <1>1, <1>3, <2>1 DEF QueriesReady
<1>6. EvidenceListed' /\ RepairTerms'
  BY <1>1 DEF IInv, EvidenceListed, RepairTerms
<1>7. WithinLimit'
  BY <1>1, <1>2 DEF IInv, WithinLimit
<1>8. PresentRanked' /\ CandidatesMeant'
  BY <1>1, <1>2 DEF IInv, PresentRanked, CandidatesMeant
<1>9. RecordsComplete'
  BY <1>1, <1>2 DEF IInv, RecordsComplete, Complete
<1>10. SearchesAsPlanned' /\ RepairAddsUnlessFull' /\ AnchorKept' /\ EvidenceNotLost'
  BY <1>1 DEF SearchesAsPlanned, RepairAddsUnlessFull, AnchorKept, EvidenceNotLost
<1> QED
  BY <1>4, <1>5, <1>6, <1>7, <1>8, <1>9, <1>10 DEF IInv

(* What is left of a sequence is a sequence. *)
LEMMA SelectedSeq ==
    ASSUME NEW R, NEW s \in Seq(R), NEW T
    PROVE  Kept(s, T) \in Seq(R)
<1>1. {i \in DOMAIN s : s[i] \in T} \in SUBSET DOMAIN s
  OBVIOUS
<1> QED
  BY <1>1, PickedFacts DEF IsPicked, Kept

(* What evidence is short of are some of the needs, and source types. *)
LEMMA MissingSeq ==
    ASSUME request \in Requests
    PROVE  Missing \in Seq(ToSet(Missing))
<1> DEFINE types == MissingTypes(RequiredTypes, documents)
<1> DEFINE terms == MissingTerms(request.needs, documents)
<1> DEFINE sources == [i \in DOMAIN types |-> SourceType(types[i])]
<1>1. Missing = terms \o sources
  BY DEF Missing
<1>2. \E T : terms = Kept(request.needs, T)
  <2> DEFINE T == {r \in ToSet(request.needs) : ~\E d \in ToSet(documents) : Satisfies(d, r)}
  <2>1. \A i \in DOMAIN request.needs : request.needs[i] \in ToSet(request.needs)
    BY DEF ToSet
  <2>2. {i \in DOMAIN request.needs : ~\E d \in ToSet(documents) : Satisfies(d, request.needs[i])}
          = {i \in DOMAIN request.needs : request.needs[i] \in T}
    BY <2>1
  <2>3. terms = Kept(request.needs, T)
    BY <2>2 DEF MissingTerms, Selected, Kept
  <2> QED
    BY <2>3
<1>3. terms \in Seq(ToSet(request.needs))
  BY <1>2, SelectedSeq, RequestsAssumption
<1>4. \E T : types = Kept(RequiredTypes, T)
  <2> DEFINE T == {t \in ToSet(RequiredTypes) : ~\E d \in ToSet(documents) : d.type = t}
  <2>1. \A i \in DOMAIN RequiredTypes : RequiredTypes[i] \in ToSet(RequiredTypes)
    BY DEF ToSet
  <2>2. {i \in DOMAIN RequiredTypes : ~\E d \in ToSet(documents) : d.type = RequiredTypes[i]}
          = {i \in DOMAIN RequiredTypes : RequiredTypes[i] \in T}
    BY <2>1
  <2>3. types = Kept(RequiredTypes, T)
    BY <2>2 DEF MissingTypes, Selected, Kept
  <2> QED
    BY <2>3
<1> DEFINE Types == {"PAGE", "CODE", "ISSUE"}
<1>5. RequiredTypes \in Seq(Types)
  <2>1. /\ <<"CODE">> \in Seq(Types) /\ <<"ISSUE">> \in Seq(Types)
        /\ <<"PAGE", "CODE">> \in Seq(Types) /\ <<"PAGE">> \in Seq(Types)
        /\ <<>> \in Seq(Types)
    OBVIOUS
  <2> HIDE DEF Types
  <2> QED
    BY <2>1 DEF RequiredTypes
<1>6. types \in Seq(Types)
  BY <1>4, <1>5, SelectedSeq
<1> HIDE DEF terms, types, Types
<1> DEFINE R == ToSet(request.needs) \cup {SourceType(t) : t \in Types}
<1>7. sources \in Seq(R)
  <2>1. Len(types) \in Nat /\ DOMAIN types = 1..Len(types)
        /\ \A i \in 1..Len(types) : types[i] \in Types
    BY <1>6, LenProperties, ElementOfSeq
  <2>2. \A i \in 1..Len(types) : SourceType(types[i]) \in R
    BY <2>1
  <2> HIDE DEF R
  <2> QED
    BY <2>1, <2>2
<1>8. terms \in Seq(R)
  <2>1. Len(terms) \in Nat /\ \A i \in 1..Len(terms) : terms[i] \in ToSet(request.needs)
    BY <1>3, LenProperties, ElementOfSeq
  <2>2. \A i \in 1..Len(terms) : terms[i] \in R
    BY <2>1
  <2>3. terms = [i \in 1..Len(terms) |-> terms[i]]
    BY <1>3, LenProperties
  <2> HIDE DEF R
  <2>4. terms \in [1..Len(terms) -> R]
    BY <2>2, <2>3
  <2> QED
    BY <2>1, <2>4
<1> HIDE DEF R, sources
<1>9. terms \o sources \in Seq(R)
  BY <1>7, <1>8, ConcatProperties
<1> QED
  BY <1>1, <1>9, OwnElements

(* A sequence without the entry at a place. *)
LEMMA RemovedAt ==
    ASSUME NEW R, NEW s \in Seq(R), NEW k \in 1..Len(s)
    PROVE  /\ RemoveAt(s, k) \in Seq(R) /\ Len(RemoveAt(s, k)) = Len(s) - 1
           /\ \A x \in ToSet(RemoveAt(s, k)) : \E i \in 1..Len(s) : i # k /\ s[i] = x
           /\ \A i \in 1..Len(s) : i # k => s[i] \in ToSet(RemoveAt(s, k))
<1> DEFINE a == SubSeq(s, 1, k - 1)
<1> DEFINE b == SubSeq(s, k + 1, Len(s))
<1> DEFINE c == a \o b
<1>1. RemoveAt(s, k) = c
  BY DEF RemoveAt
<1>2. Len(s) \in Nat /\ \A i \in 1..Len(s) : s[i] \in R
  BY LenProperties, ElementOfSeq
<1>3. a \in Seq(R) /\ Len(a) = k - 1 /\ \A i \in 1..(k - 1) : a[i] = s[i]
  <2>1. 1 \in Int /\ k - 1 \in Int /\ \A i \in 1..(k - 1) : s[i] \in R
    BY <1>2
  <2>2. /\ a \in Seq(R) /\ Len(a) = IF 1 <= k - 1 THEN (k - 1) - 1 + 1 ELSE 0
        /\ \A i \in 1..((k - 1) - 1 + 1) : a[i] = s[1 + i - 1]
    BY <2>1, SubSeqProperties
  <2> HIDE DEF a
  <2>3. Len(a) = k - 1
    BY <1>2, <2>2
  <2>4. ASSUME NEW i \in 1..(k - 1)
        PROVE  a[i] = s[i]
    <3>1. i \in 1..((k - 1) - 1 + 1) /\ 1 + i - 1 = i
      BY <1>2
    <3> QED
      BY <2>2, <3>1
  <2> QED
    BY <2>2, <2>3, <2>4
<1>4. b \in Seq(R) /\ Len(b) = Len(s) - k /\ \A i \in 1..(Len(s) - k) : b[i] = s[k + i]
  <2>1. k + 1 \in Int /\ Len(s) \in Int /\ \A i \in (k + 1)..Len(s) : s[i] \in R
    BY <1>2
  <2>2. /\ b \in Seq(R) /\ Len(b) = IF k + 1 <= Len(s) THEN Len(s) - (k + 1) + 1 ELSE 0
        /\ \A i \in 1..(Len(s) - (k + 1) + 1) : b[i] = s[(k + 1) + i - 1]
    BY <2>1, SubSeqProperties
  <2> HIDE DEF b
  <2>3. Len(b) = Len(s) - k
    BY <1>2, <2>2
  <2>4. ASSUME NEW i \in 1..(Len(s) - k)
        PROVE  b[i] = s[k + i]
    <3>1. i \in 1..(Len(s) - (k + 1) + 1) /\ (k + 1) + i - 1 = k + i
      BY <1>2
    <3> QED
      BY <2>2, <3>1
  <2> QED
    BY <2>2, <2>3, <2>4
<1> HIDE DEF a, b
<1>5. /\ c \in Seq(R) /\ Len(c) = Len(a) + Len(b)
      /\ \A i \in 1..Len(c) : c[i] = IF i <= Len(a) THEN a[i] ELSE b[i - Len(a)]
  <2>1. a \in Seq(R) /\ b \in Seq(R)
    BY <1>3, <1>4
  <2> QED
    BY <2>1, ConcatProperties
<1> HIDE DEF c
<1>6. Len(c) = Len(s) - 1
  BY <1>2, <1>3, <1>4, <1>5
<1>7. DOMAIN c = 1..Len(c)
  BY <1>5, LenProperties
<1>8. ASSUME NEW i \in 1..Len(c)
      PROVE  \/ i < k /\ c[i] = s[i]
             \/ i >= k /\ i + 1 \in 1..Len(s) /\ c[i] = s[i + 1]
  <2>1. CASE i < k
    <3>1. i <= Len(a) /\ i \in 1..(k - 1)
      BY <1>2, <1>3, <2>1
    <3> QED
      BY <1>3, <1>5, <2>1, <3>1
  <2>2. CASE ~(i < k)
    <3>1. /\ ~(i <= Len(a)) /\ i - Len(a) = i - (k - 1) /\ i - (k - 1) \in 1..(Len(s) - k)
          /\ k + (i - (k - 1)) = i + 1 /\ i >= k /\ i + 1 \in 1..Len(s)
      BY <1>2, <1>3, <1>6, <2>2
    <3>2. c[i] = b[i - (k - 1)]
      BY <1>5, <3>1
    <3>3. b[i - (k - 1)] = s[k + (i - (k - 1))]
      BY <1>4, <3>1
    <3> QED
      BY <3>1, <3>2, <3>3
  <2> QED
    BY <2>1, <2>2
<1>9. ASSUME NEW x \in ToSet(c)
      PROVE  \E i \in 1..Len(s) : i # k /\ s[i] = x
  <2>1. PICK i \in 1..Len(c) : c[i] = x
    BY <1>7 DEF ToSet
  <2>2. CASE i < k /\ c[i] = s[i]
    <3>1. i \in 1..Len(s) /\ i # k
      BY <1>2, <2>2
    <3> QED
      BY <2>1, <2>2, <3>1
  <2>3. CASE i >= k /\ i + 1 \in 1..Len(s) /\ c[i] = s[i + 1]
    <3>1. i + 1 # k
      BY <1>2, <2>3
    <3> QED
      BY <2>1, <2>3, <3>1
  <2> QED
    BY <1>8, <2>2, <2>3
<1>10. ASSUME NEW i \in 1..Len(s), i # k
       PROVE  s[i] \in ToSet(c)
  <2>1. CASE i < k
    <3>1. i \in 1..Len(c) /\ ~(i >= k)
      BY <1>2, <1>6, <2>1
    <3>2. c[i] = s[i]
      BY <1>8, <3>1
    <3> QED
      BY <1>7, <3>1, <3>2 DEF ToSet
  <2>2. CASE ~(i < k)
    <3>1. i - 1 \in 1..Len(c) /\ ~(i - 1 < k) /\ (i - 1) + 1 = i
      BY <1>2, <1>6, <1>10, <2>2
    <3>2. c[i - 1] = s[i]
      BY <1>8, <3>1
    <3> QED
      BY <1>7, <3>1, <3>2 DEF ToSet
  <2> QED
    BY <2>1, <2>2
<1> QED
  BY <1>1, <1>5, <1>6, <1>9, <1>10

(* Whatever becomes of the place kept for a translation, the queries there *)
(* were stay, and what is searched is not empty.                           *)
LEMMA TranslationPlaced ==
    ASSUME QueriesReady, pc = "retrieve", slot \in 0..Len(queries), NEW q \in Translated
    PROVE  /\ q \in Seq(ToSet(q)) /\ ToSet(q) # {} /\ BaseQueries \in SUBSET ToSet(q)
           /\ \A x \in ToSet(q) : x # ""
<1> DEFINE n == Len(queries)
<1> DEFINE R == ToSet(queries) \cup {"translation", "terminology"}
<1>0. /\ queries \in Seq(ToSet(queries)) /\ queries # <<>>
      /\ slot # 0 => n >= 2
  BY DEF QueriesReady
<1>1. /\ n \in Nat /\ DOMAIN queries = 1..n
      /\ \A i \in 1..n : queries[i] \in ToSet(queries)
      /\ \A x \in ToSet(queries) : \E i \in 1..n : queries[i] = x
  <2>1. n \in Nat /\ DOMAIN queries = 1..n
    BY <1>0, LenProperties
  <2> QED
    BY <2>1 DEF ToSet
<1>2. n # 0 /\ n \in Nat /\ slot \in 0..n /\ (slot # 0 => n >= 2)
  <2>1. n # 0
    BY <1>0, EmptySeq
  <2> QED
    BY <1>0, <1>1, <2>1
<1>6. \A i \in 1..n : i # slot => queries[i] # ""
  BY <1>1 DEF QueriesReady
<1> HIDE DEF n
<1>3. \A x \in BaseQueries : \E i \in 1..n : i # slot /\ queries[i] = x
  BY <1>1 DEF BaseQueries
<1>4. ASSUME slot = 0
      PROVE  /\ q \in Seq(ToSet(q)) /\ ToSet(q) # {} /\ BaseQueries \in SUBSET ToSet(q)
             /\ \A x \in ToSet(q) : x # ""
  <2>1. q = queries
    BY <1>4 DEF Translated
  <2>2. 1 \in 1..n
    BY <1>2
  <2>3. \A x \in ToSet(queries) : x # ""
    <3>1. \A i \in 1..n : i # slot
      BY <1>2, <1>4
    <3> QED
      BY <1>1, <1>6, <3>1
  <2>4. ToSet(queries) # {} /\ BaseQueries \in SUBSET ToSet(queries)
    BY <1>1, <1>3, <2>2
  <2> QED
    BY <1>0, <2>1, <2>3, <2>4
<1>5. ASSUME slot # 0
      PROVE  /\ q \in Seq(ToSet(q)) /\ ToSet(q) # {} /\ BaseQueries \in SUBSET ToSet(q)
             /\ \A x \in ToSet(q) : x # ""
  <2> DEFINE r == RemoveAt(queries, slot)
  <2> DEFINE a == ReplaceAt(queries, slot, "translation")
  <2>1. slot \in 1..n /\ n >= 2
    BY <1>2, <1>5
  <2>2. q \in {r, a, Append(a, "terminology")}
    BY <1>5 DEF Translated
  <2>3. CASE q = r
    <3>1. /\ r \in Seq(ToSet(queries))
          /\ \A x \in ToSet(r) : \E i \in 1..n : i # slot /\ queries[i] = x
          /\ \A i \in 1..n : i # slot => queries[i] \in ToSet(r)
      BY <1>0, <2>1, RemovedAt DEF n
    <3> HIDE DEF r
    <3>2. ToSet(r) # {}
      <4>1. \E i \in 1..n : i # slot
        <5>1. 1 \in 1..n /\ 2 \in 1..n
          BY <1>2, <2>1
        <5>2. slot # 1 \/ slot # 2
          BY <2>1
        <5> QED
          BY <5>1, <5>2
      <4> QED
        BY <3>1, <4>1
    <3>3. \A x \in ToSet(r) : x # ""
      BY <1>6, <3>1
    <3>4. BaseQueries \in SUBSET ToSet(r)
      BY <1>3, <3>1
    <3>5. r \in Seq(ToSet(r))
      BY <3>1, OwnElements
    <3> QED
      BY <2>3, <3>2, <3>3, <3>4, <3>5
  <2>4. /\ a \in Seq(R) /\ Len(a) = n /\ a[slot] = "translation"
        /\ \A i \in 1..n : i # slot => a[i] = queries[i]
    <3>1. a = [i \in 1..n |-> IF i = slot THEN "translation" ELSE queries[i]]
      <4>1. queries = [i \in 1..n |-> queries[i]]
        BY <1>0, <1>1, LenProperties DEF n
      <4> QED
        BY <1>1, <2>1, <4>1 DEF ReplaceAt
    <3> HIDE DEF a
    <3>2. \A i \in 1..n : a[i] \in R
      BY <1>1, <3>1
    <3>3. a \in [1..n -> R]
      BY <3>1, <3>2
    <3> HIDE DEF R
    <3>4. a \in Seq(R) /\ Len(a) = n
      BY <1>2, <3>3
    <3>5. a[slot] = "translation"
      BY <2>1, <3>1
    <3>6. \A i \in 1..n : i # slot => a[i] = queries[i]
      BY <3>1
    <3> QED
      BY <3>4, <3>5, <3>6
  <2> HIDE DEF a
  <2>5. "translation" # "" /\ "terminology" # "" /\ "translation" \in R /\ "terminology" \in R
    OBVIOUS
  <2>6. ASSUME NEW b \in Seq(R), NEW m \in Nat, Len(b) = m, n <= m,
               \A i \in 1..n : b[i] = a[i],
               \A i \in 1..m : i \in 1..n \/ b[i] = "terminology"
        PROVE  /\ b \in Seq(ToSet(b)) /\ ToSet(b) # {} /\ BaseQueries \in SUBSET ToSet(b)
               /\ \A x \in ToSet(b) : x # ""
    <3>1. DOMAIN b = 1..m
      BY <2>6, LenProperties
    <3>2. \A i \in 1..n : i \in 1..m
      BY <1>2, <2>6
    <3>3. \A i \in 1..n : a[i] \in ToSet(b)
      BY <2>6, <3>1, <3>2 DEF ToSet
    <3>4. BaseQueries \in SUBSET ToSet(b)
      <4>1. \A i \in 1..n : i # slot => queries[i] \in ToSet(b)
        BY <2>4, <3>3
      <4> QED
        BY <1>3, <4>1
    <3>5. ToSet(b) # {}
      BY <2>1, <3>3
    <3>6. ASSUME NEW i \in 1..m
          PROVE  b[i] # ""
      <4>1. CASE i \in 1..n
        <5>1. CASE i = slot
          BY <2>4, <2>5, <2>6, <4>1, <5>1
        <5>2. CASE i # slot
          BY <1>6, <2>4, <2>6, <4>1, <5>2
        <5> QED
          BY <5>1, <5>2
      <4>2. CASE i \notin 1..n
        BY <2>5, <2>6, <4>2
      <4> QED
        BY <4>1, <4>2
    <3>7. \A x \in ToSet(b) : x # ""
      BY <3>1, <3>6 DEF ToSet
    <3>8. b \in Seq(ToSet(b))
      BY OwnElements
    <3> QED
      BY <3>4, <3>5, <3>7, <3>8
  <2>7. CASE q = a
    <3>1. a \in Seq(R) /\ n \in Nat /\ Len(a) = n /\ n <= n
      BY <1>2, <2>4
    <3>2. \A i \in 1..n : i \in 1..n \/ a[i] = "terminology"
      OBVIOUS
    <3> QED
      BY <2>6, <2>7, <3>1, <3>2
  <2>8. CASE q = Append(a, "terminology")
    <3> DEFINE b == Append(a, "terminology")
    <3> HIDE DEF R
    <3>1. /\ b \in Seq(R) /\ Len(b) = n + 1
          /\ \A i \in 1..n : b[i] = a[i]
          /\ b[n + 1] = "terminology"
      <4>1. a \in Seq(R) /\ Len(a) = n /\ "terminology" \in R
        BY <2>4, <2>5
      <4> QED
        BY <4>1, AppendProperties
    <3> HIDE DEF b
    <3>2. q = b
      BY <2>8 DEF b
    <3>3. n + 1 \in Nat /\ n <= n + 1
      BY <1>2
    <3>4. \A i \in 1..(n + 1) : i \in 1..n \/ i = n + 1
      BY <1>2
    <3>5. \A i \in 1..(n + 1) : i \in 1..n \/ b[i] = "terminology"
      BY <3>1, <3>4
    <3> QED
      BY <2>6, <3>1, <3>2, <3>3, <3>5
  <2> QED
    BY <2>2, <2>3, <2>7, <2>8
<1> QED
  BY <1>4, <1>5

(* A section that is looked up is what the pass goes on with. *)
LEMMA RetrieveSectionsStep ==
    ASSUME IInv, RetrieveSections
    PROVE  IInv'
<1>1. /\ pc = "retrieve" /\ SectionLookup /\ candidates' = request.sections
      /\ slot' = 0 /\ preserve' = FALSE /\ pc' = "affinity"
      /\ UNCHANGED <<request, attempt, queries, documents, prior, repairing>>
  BY DEF RetrieveSections
<1>2. /\ ByRecord' = ByRecord /\ TopN' = TopN /\ AskedState' = AskedState
      /\ InScope' = InScope /\ SectionLookup' = SectionLookup
  BY <1>1, SameRequest
<1>3. Typed'
  <2>1. queries \in Seq(ToSet(queries))
    BY <1>1 DEF IInv, QueriesReady
  <2>2. 0 \in 0..Len(queries)
    BY <2>1, LenProperties
  <2> QED
    BY <1>1, <2>2 DEF IInv, Typed
<1>4. QueriesReady'
  BY <1>1 DEF QueriesReady
<1>5. request.sections \in Lists(Docs)
  BY RequestsAssumption DEF IInv, Typed, Lists
<1>6. EvidenceListed' /\ RepairTerms'
  BY <1>1, <1>5 DEF IInv, EvidenceListed, RepairTerms
<1>7. WithinLimit'
  BY <1>1, <1>2 DEF IInv, WithinLimit
<1>8. PresentRanked' /\ CandidatesMeant'
  BY <1>1, <1>2 DEF IInv, PresentRanked, CandidatesMeant
<1>9. RecordsComplete'
  BY <1>1, <1>2 DEF IInv, RecordsComplete, Complete
<1>10. SearchesAsPlanned'
  BY <1>1, <1>2 DEF SearchesAsPlanned
<1>11. RepairAddsUnlessFull' /\ AnchorKept' /\ EvidenceNotLost'
  BY <1>1 DEF RepairAddsUnlessFull, AnchorKept, EvidenceNotLost
<1> QED
  BY <1>3, <1>4, <1>6, <1>7, <1>8, <1>9, <1>10, <1>11 DEF IInv

(* The scopes a query is searched over make up the scope of the request. *)
LEMMA ScopesCover == Scopes # {} /\ UNION Scopes = request.scope
<1>1. CASE request.intent \in {"CROSS_SOURCE", "CODE_ASSISTED"} /\ request.scope # {}
  <2>1. Scopes = {{type} : type \in request.scope}
    BY <1>1 DEF Scopes
  <2> QED
    BY <1>1, <2>1
<1>2. CASE ~(request.intent \in {"CROSS_SOURCE", "CODE_ASSISTED"} /\ request.scope # {})
  <2>1. Scopes = {request.scope}
    BY <1>2 DEF Scopes
  <2> QED
    BY <2>1
<1> QED
  BY <1>1, <1>2

(* A search is over every query, over the scope, and nothing else. *)
LEMMA RetrieveStep ==
    ASSUME IInv, Retrieve
    PROVE  IInv'
<1>1. /\ pc = "retrieve" /\ ~SectionLookup /\ queries' \in Translated
      /\ searched' = (BaseQueries \cup ToSet(queries')) \X Scopes
      /\ \E found \in SUBSET Reachable : candidates' \in SetToSeqs(found)
      /\ slot' = 0 /\ preserve' = FALSE /\ pc' = "affinity"
      /\ UNCHANGED <<request, attempt, documents, prior, repairing>>
  BY DEF Retrieve
<1>2. /\ ByRecord' = ByRecord /\ TopN' = TopN /\ AskedState' = AskedState
      /\ InScope' = InScope /\ SectionLookup' = SectionLookup
  BY <1>1, SameRequest
<1>3. PICK q : q = queries'
  OBVIOUS
<1>4. /\ q \in Seq(ToSet(q)) /\ ToSet(q) # {} /\ BaseQueries \in SUBSET ToSet(q)
      /\ \A x \in ToSet(q) : x # ""
  <2>1. QueriesReady /\ slot \in 0..Len(queries) /\ q \in Translated
    BY <1>1, <1>3 DEF IInv, Typed
  <2> QED
    BY <1>1, <2>1, TranslationPlaced
<1>5. Typed'
  <2>1. 0 \in 0..Len(q)
    <3>1. q \in Seq(ToSet(q))
      BY <1>4
    <3>2. Len(q) \in Nat
      BY <3>1, LenProperties
    <3> QED
      BY <3>2
  <2> QED
    BY <1>1, <1>3, <2>1 DEF IInv, Typed
<1>6. QueriesReady'
  BY <1>1 DEF QueriesReady
<1>7. candidates' \in Lists(Docs)
  <2>1. PICK found \in SUBSET Reachable : candidates' \in SetToSeqs(found)
    BY <1>1
  <2>2. Reachable \in SUBSET Docs
    <3>1. candidates \in Lists(Docs)
      BY DEF IInv, EvidenceListed
    <3>2. \A d \in ToSet(candidates) : d \in Docs
      BY <3>1, ListFacts
    <3> QED
      BY <3>2 DEF Reachable, InScope
  <2>3. found \in SUBSET Docs
    BY <2>2
  <2>4. IsFiniteSet(found)
    BY <2>3, FS_Subset, WindowAssumption
  <2>5. \A c \in SetToSeqs(found) : c \in Lists(found)
    BY <2>4, SeqsOfSet
  <2>6. \A c \in Lists(found) : c \in Lists(Docs)
    BY <2>3, ListOfMore
  <2> QED
    BY <2>1, <2>5, <2>6
<1>8. EvidenceListed' /\ RepairTerms'
  BY <1>1, <1>7 DEF IInv, EvidenceListed, RepairTerms
<1>9. WithinLimit'
  BY <1>1, <1>2 DEF IInv, WithinLimit
<1>10. PresentRanked' /\ CandidatesMeant'
  BY <1>1, <1>2 DEF IInv, PresentRanked, CandidatesMeant
<1>11. RecordsComplete'
  BY <1>1, <1>2 DEF IInv, RecordsComplete, Complete
<1>12. SearchesAsPlanned'
  <2> DEFINE Q == ToSet(q)
  <2> DEFINE P == Q \X Scopes
  <2>1. searched' = P
    <3>1. BaseQueries \cup ToSet(q) = ToSet(q)
      BY <1>4
    <3> QED
      BY <1>1, <1>3, <3>1
  <2>2. Q # {} /\ \A x \in Q : x # ""
    BY <1>4
  <2>3. Scopes # {} /\ UNION Scopes = request.scope
    BY ScopesCover
  <2> HIDE DEF Q
  <2>4. P # {} /\ Q = {pair[1] : pair \in P} /\ \A pair \in P : pair[1] # ""
    <3>1. \A pair \in P : pair[1] \in Q /\ pair[2] \in Scopes
      OBVIOUS
    <3>2. \A x \in Q, y \in Scopes : <<x, y>> \in P /\ <<x, y>>[1] = x
      OBVIOUS
    <3>3. PICK y \in Scopes : TRUE
      BY <2>3
    <3> HIDE DEF P
    <3>4. \A x \in Q : \E pair \in P : pair[1] = x
      BY <3>2, <3>3
    <3>5. Q = {pair[1] : pair \in P}
      BY <3>1, <3>4
    <3>6. P # {}
      BY <2>2, <3>4
    <3> QED
      BY <2>2, <3>1, <3>5, <3>6
  <2>5. ASSUME NEW query \in Q
        PROVE  UNION {pair[2] : pair \in {p \in P : p[1] = query}} = request.scope
    <3>1. {pair[2] : pair \in {p \in P : p[1] = query}} = Scopes
      <4> DEFINE H == {p \in P : p[1] = query}
      <4>1. \A pair \in H : pair[2] \in Scopes
        OBVIOUS
      <4>2. \A y \in Scopes : <<query, y>> \in P /\ <<query, y>>[1] = query /\ <<query, y>>[2] = y
        OBVIOUS
      <4>3. \A y \in Scopes : \E pair \in H : pair[2] = y
        BY <4>2
      <4> HIDE DEF H
      <4> QED
        BY <4>1, <4>3 DEF H
    <3> QED
      BY <2>3, <3>1
  <2> HIDE DEF P
  <2>6. ToSet(queries)' = Q
    BY <1>3 DEF Q, ToSet
  <2> QED
    BY <1>1, <2>1, <2>4, <2>5, <2>6 DEF SearchesAsPlanned
<1>13. RepairAddsUnlessFull' /\ AnchorKept' /\ EvidenceNotLost'
  BY <1>1 DEF RepairAddsUnlessFull, AnchorKept, EvidenceNotLost
<1> QED
  BY <1>5, <1>6, <1>8, <1>9, <1>10, <1>11, <1>12, <1>13 DEF IInv

(* Exact evidence takes the place of similar evidence. *)
LEMMA FeatureAffinityStep ==
    ASSUME IInv, FeatureAffinity
    PROVE  IInv'
<1>1. /\ pc = "affinity" /\ candidates' = Preferred /\ pc' = "rerank"
      /\ UNCHANGED <<request, attempt, queries, slot, preserve, documents, prior,
                     repairing>>
  BY DEF FeatureAffinity
<1>2. /\ ByRecord' = ByRecord /\ TopN' = TopN /\ AskedState' = AskedState
      /\ InScope' = InScope
  BY <1>1, SameRequest
<1>3. /\ request \in Requests /\ candidates \in Lists(Docs)
      /\ SectionLookup => candidates = request.sections
  BY <1>1 DEF IInv, Typed, EvidenceListed, CandidatesMeant
<1>4. /\ Preferred \in Lists(Docs)
      /\ AskedState => Preferred \in Lists(Now)
      /\ request.intent = "PROJECT_OVERVIEW" /\ request.sections = <<>> =>
           \A d \in ToSet(Preferred) : d \in request.listed
  BY <1>3, PreferredList
<1>5. Typed' /\ QueriesReady'
  BY <1>1 DEF IInv, Typed, QueriesReady
<1>6. EvidenceListed' /\ RepairTerms'
  BY <1>1, <1>4 DEF IInv, EvidenceListed, RepairTerms
<1>7. WithinLimit'
  BY <1>1, <1>2 DEF IInv, WithinLimit
<1>8. PresentRanked' /\ CandidatesMeant'
  BY <1>1, <1>2, <1>4 DEF IInv, PresentRanked, CandidatesMeant
<1>9. RecordsComplete'
  BY <1>1, <1>2 DEF IInv, RecordsComplete, Complete
<1>10. SearchesAsPlanned' /\ RepairAddsUnlessFull' /\ AnchorKept' /\ EvidenceNotLost'
  BY <1>1 DEF SearchesAsPlanned, RepairAddsUnlessFull, AnchorKept, EvidenceNotLost
<1> QED
  BY <1>5, <1>6, <1>7, <1>8, <1>9, <1>10 DEF IInv

(* Where a ranking's outcome leads. *)
LEMMA RouteFacts ==
    ASSUME NEW found
    PROVE  /\ Route(found) \in {"validate", "recover", "end"}
           /\ Route(found) = "validate" => found # <<>>
           /\ Route(found) = "recover" => found = <<>> /\ attempt < MaxAttempts
<1>1. CASE found # <<>>
  BY <1>1 DEF Route
<1>2. CASE found = <<>> /\ attempt < MaxAttempts
  BY <1>2 DEF Route
<1>3. CASE found = <<>> /\ ~(attempt < MaxAttempts)
  BY <1>3 DEF Route
<1> QED
  BY <1>1, <1>2, <1>3

(* What the window of a pass is, before it is held against the question. *)
IsWindow(window) ==
    /\ window \in Lists(Docs)
    /\ ~ByRecord => Len(window) <= TopN
    /\ AskedState => window \in Lists(Now)
    /\ ByRecord /\ ~request.single => Complete(window, InScope)
    /\ Len(candidates) # 0 => Len(window) # 0
    /\ ~ByRecord /\ request.intent # "FEATURE_INVENTORY" /\ Len(window) < TopN =>
         /\ \A d \in ToSet(prior) : d \in ToSet(window)
         /\ \A q \in ToSet(repairing) : Met(candidates, q) => Met(window, q)
    /\ /\ ~request.single /\ ~Inventory
       /\ request.intent = "PROJECT_OVERVIEW" => request.sections = <<>>
       /\ \E d \in ToSet(candidates) : d.anchored
       => \E d \in ToSet(window) : d.anchored

(* It is that, whatever the ranking was. *)
LEMMA WindowOfPass ==
    ASSUME IInv, pc = "rerank", NEW ranked \in Ranked, NEW shaped \in Fallback(Shaped(ranked)),
           NEW window \in Completed(Merged(shaped))
    PROVE  IsWindow(window)
<1>1. /\ request \in Requests /\ candidates \in Lists(Docs) /\ prior \in Lists(Docs)
      /\ repairing \in Seq(ToSet(repairing))
      /\ AskedState => prior \in Lists(Now) /\ candidates \in Lists(Now)
      /\ request.intent = "PROJECT_OVERVIEW" /\ request.sections = <<>> =>
           \A d \in ToSet(candidates) : d \in request.listed
  BY DEF IInv, Typed, EvidenceListed, RepairTerms, PresentRanked, CandidatesMeant
<1> DEFINE s == Shaped(ranked)
<1> DEFINE m == Merged(shaped)
<1>2. \A S : candidates \in Lists(S) => s \in Lists(S) /\ shaped \in Lists(S)
  <2> SUFFICES ASSUME NEW S, candidates \in Lists(S)
               PROVE  s \in Lists(S) /\ shaped \in Lists(S)
    OBVIOUS
  <2>1. ranked \in Lists(S)
    BY RankedList
  <2>2. s \in Lists(S)
    BY <2>1, ShapedList
  <2> QED
    BY <2>2, FallbackList
<1>3. /\ (Len(s) # 0 => shaped = s)
      /\ Len(candidates) # 0 => Len(shaped) # 0
  <2>1. s \in Lists(Docs)
    BY <1>1, <1>2
  <2> QED
    BY <1>1, <2>1, FallbackList
<1>4. /\ ~Inventory /\ \E d \in ToSet(candidates) : d.anchored
      /\ request.intent = "PROJECT_OVERVIEW" =>
           \A d \in ToSet(candidates) : d \in request.listed
      => Len(s) # 0 /\ s[1].anchored
  <2>1. ranked \in Lists(Docs)
    BY <1>1, RankedList
  <2> QED
    BY <1>1, <2>1, ShapedList
<1> HIDE DEF s
<1>5. \A S : candidates \in Lists(S) /\ prior \in Lists(S) => m \in Lists(S)
  BY <1>1, <1>2, MergedList
<1>6. /\ Len(m) <= TopN
      /\ Len(shaped) # 0 => Len(m) # 0
      /\ request.intent # "FEATURE_INVENTORY" /\ Len(shaped) # 0 => m[1] = shaped[1]
      /\ request.intent # "FEATURE_INVENTORY" /\ Len(m) < TopN =>
           /\ \A d \in ToSet(prior) : d \in ToSet(m)
           /\ \A q \in ToSet(repairing) : Met(candidates, q) => Met(m, q)
  <2>1. shaped \in Lists(Docs)
    BY <1>1, <1>2
  <2> QED
    BY <1>1, <2>1, MergedList
<1>7. m \in Lists(Docs)
  BY <1>1, <1>5
<1>8. /\ window \in Lists(Docs) /\ (~ByRecord => window = m)
      /\ Len(m) # 0 => Len(window) # 0
      /\ ~request.single /\ Len(m) # 0 => m[1] \in ToSet(window)
      /\ ByRecord /\ ~request.single => Complete(window, InScope)
  BY <1>7, CompletedList
<1> HIDE DEF m
<1>9. AskedState => window \in Lists(Now)
  <2> SUFFICES ASSUME AskedState
               PROVE  window \in Lists(Now)
    OBVIOUS
  <2>1. ~ByRecord
    BY <1>1, StateRequest
  <2> QED
    BY <1>1, <1>5, <1>8, <2>1
<1>10. ~ByRecord => Len(window) <= TopN
  BY <1>6, <1>8
<1>11. Len(candidates) # 0 => Len(window) # 0
  BY <1>3, <1>6, <1>8
<1>12. ~ByRecord /\ request.intent # "FEATURE_INVENTORY" /\ Len(window) < TopN =>
         /\ \A d \in ToSet(prior) : d \in ToSet(window)
         /\ \A q \in ToSet(repairing) : Met(candidates, q) => Met(window, q)
  BY <1>6, <1>8
<1>13. ASSUME ~request.single, ~Inventory,
              request.intent = "PROJECT_OVERVIEW" => request.sections = <<>>,
              \E d \in ToSet(candidates) : d.anchored
       PROVE  \E d \in ToSet(window) : d.anchored
  <2>1. request.intent # "FEATURE_INVENTORY"
    BY <1>13 DEF Inventory
  <2>2. Len(s) # 0 /\ s[1].anchored
    BY <1>1, <1>4, <1>13
  <2>3. shaped = s /\ Len(m) # 0 /\ m[1] = s[1]
    BY <1>3, <1>6, <2>1, <2>2
  <2>4. s[1] \in ToSet(window)
    BY <1>8, <1>13, <2>3
  <2> QED
    BY <2>2, <2>4
<1> QED
  BY <1>8, <1>9, <1>10, <1>11, <1>12, <1>13 DEF IsWindow

(* A window that is not about another product is the evidence. *)
LEMMA RerankStep ==
    ASSUME IInv, Rerank
    PROVE  IInv'
<1>1. /\ pc = "rerank" /\ pc' = Route(documents')
      /\ UNCHANGED <<request, attempt, queries, slot, candidates, preserve, prior, repairing>>
  BY DEF Rerank
<1>2. PICK window : /\ IsWindow(window)
                    /\ documents' = IF Mismatched(window) THEN <<>> ELSE window
  <2>1. PICK ranked \in Ranked :
          \E shaped \in Fallback(Shaped(ranked)) : \E window \in Completed(Merged(shaped)) :
             documents' = IF Mismatched(window) THEN <<>> ELSE window
    BY DEF Rerank
  <2>2. PICK shaped \in Fallback(Shaped(ranked)) : \E window \in Completed(Merged(shaped)) :
             documents' = IF Mismatched(window) THEN <<>> ELSE window
    BY <2>1
  <2>3. PICK window \in Completed(Merged(shaped)) :
          documents' = IF Mismatched(window) THEN <<>> ELSE window
    BY <2>2
  <2>4. IsWindow(window)
    BY <1>1, WindowOfPass
  <2> QED
    BY <2>3, <2>4
<1>3. /\ ByRecord' = ByRecord /\ TopN' = TopN /\ AskedState' = AskedState
      /\ InScope' = InScope /\ Inventory' = Inventory
  BY <1>1, SameRequest
<1>4. /\ pc' \in {"validate", "recover", "end"}
      /\ pc' = "validate" => documents' # <<>>
      /\ pc' = "recover" => documents' = <<>> /\ attempt < MaxAttempts
  BY <1>1, RouteFacts
<1>5. /\ <<>> \in Lists(Docs) /\ <<>> \in Lists(Now) /\ ToSet(<<>>) = {}
      /\ Complete(<<>>, InScope)
  BY EmptyList DEF Complete
<1>6. /\ documents' \in Lists(Docs)
      /\ AskedState => documents' \in Lists(Now)
      /\ ByRecord /\ ~request.single => Complete(documents', InScope)
  BY <1>2, <1>5 DEF IsWindow
<1>7. ~ByRecord => Len(documents') <= TopN
  <2>1. 0 <= TopN /\ Len(<<>>) = 0
    BY Limit
  <2>2. CASE Mismatched(window)
    BY <1>2, <2>1, <2>2
  <2>3. CASE ~Mismatched(window)
    BY <1>2, <2>3 DEF IsWindow
  <2> QED
    BY <2>2, <2>3
<1>8. pc' = "validate" => documents' = window
  BY <1>2, <1>4
<1>9. Typed' /\ QueriesReady'
  <2>1. Typed'
    BY <1>1, <1>4 DEF IInv, Typed
  <2> QED
    BY <1>4, <2>1 DEF QueriesReady
<1>10. EvidenceListed' /\ RepairTerms'
  <2>1. pc' \in {"validate", "generate"} => Len(documents') # 0
    BY <1>4, <1>6, NoChunk
  <2> QED
    BY <1>1, <1>6, <2>1 DEF IInv, EvidenceListed, RepairTerms
<1>11. WithinLimit'
  BY <1>1, <1>3, <1>7 DEF IInv, WithinLimit
<1>12. PresentRanked' /\ CandidatesMeant'
  BY <1>1, <1>3, <1>4, <1>6 DEF IInv, PresentRanked, CandidatesMeant
<1>13. RecordsComplete'
  <2>1. ByRecord /\ ~request.single => Complete(documents, InScope)'
    BY <1>1, <1>3, <1>6 DEF IInv, RecordsComplete, Complete
  <2> QED
    BY <1>1, <1>3, <2>1 DEF RecordsComplete
<1>14. SearchesAsPlanned'
  BY <1>4 DEF SearchesAsPlanned
<1>15. RepairAddsUnlessFull'
  BY <1>1, <1>2, <1>3, <1>8 DEF RepairAddsUnlessFull, IsWindow, Met
<1>16. AnchorKept'
  BY <1>1, <1>2, <1>3, <1>8 DEF AnchorKept, IsWindow
<1>17. EvidenceNotLost'
  <2> SUFFICES ASSUME pc' = "recover", candidates # <<>>
               PROVE  request.asked # NoEntity \/ request.uncertain
    BY <1>1 DEF EvidenceNotLost
  <2>1. Len(candidates) # 0
    BY NoChunk DEF IInv, EvidenceListed
  <2>2. window # <<>>
    BY <1>2, <2>1, NoChunk DEF IsWindow
  <2>3. Mismatched(window)
    BY <1>2, <1>4, <2>2
  <2> QED
    BY <2>3 DEF Mismatched
<1> QED
  BY <1>9, <1>10, <1>11, <1>12, <1>13, <1>14, <1>15, <1>16, <1>17 DEF IInv

(* What the evidence is short of is looked for once more, or must do.      *)
LEMMA ValidateStep ==
    ASSUME IInv, ValidateEvidence
    PROVE  IInv'
<1>1. /\ pc = "validate" /\ pc' \in {"generate", "end"}
      /\ UNCHANGED <<request, attempt, queries, slot, candidates, preserve, documents,
                     prior, repairing>>
  BY DEF ValidateEvidence
<1>2. Typed' /\ QueriesReady'
  BY <1>1 DEF IInv, Typed, QueriesReady
<1> QED
  BY <1>1, <1>2, EvidenceUntouched

LEMMA RepairEvidenceStep ==
    ASSUME IInv, RepairEvidence
    PROVE  IInv'
<1>1. PICK m : m = Missing
  OBVIOUS
<1>2. pc = "validate" /\ m # <<>> /\ Repair(m)
  BY <1>1 DEF RepairEvidence, Repair
<1>3. m \in Seq(ToSet(m))
  BY <1>1, MissingSeq DEF IInv, Typed
<1> QED
  BY <1>2, <1>3, RepairStep

LEMMA AnsweredStep ==
    ASSUME IInv, Answered
    PROVE  IInv'
<1>1. /\ pc = "generate" /\ pc' = "end"
      /\ UNCHANGED <<request, attempt, queries, slot, candidates, preserve, documents,
                     prior, repairing>>
  BY DEF Answered
<1>2. Typed' /\ QueriesReady'
  BY <1>1 DEF IInv, Typed, QueriesReady
<1> QED
  BY <1>1, <1>2, EvidenceUntouched

(* What an answer left out is looked for as what its evidence lacked is.   *)
LEMMA RepairAnswerStep ==
    ASSUME IInv, RepairAnswer
    PROVE  IInv'
<1>1. PICK left \in SUBSET ToSet(request.needs), uncited \in SUBSET {AllSources} :
        LET missing == Selected(request.needs, LAMBDA r : r \in left)
                       \o IF uncited = {} THEN <<>> ELSE <<AllSources>>
        IN  missing # <<>> /\ (uncited # {} => Inventory) /\ Repair(missing)
  BY DEF RepairAnswer
<1> DEFINE kept == Selected(request.needs, LAMBDA r : r \in left)
<1> DEFINE more == IF uncited = {} THEN <<>> ELSE <<AllSources>>
<1>2. PICK m : m = kept \o more
  OBVIOUS
<1>3. pc = "generate" /\ m # <<>> /\ Repair(m)
  BY <1>1, <1>2 DEF RepairAnswer, Repair
<1>4. kept \in Seq(ToSet(request.needs))
  <2>1. kept = Kept(request.needs, left)
    BY DEF Selected, Kept
  <2>2. request.needs \in Seq(ToSet(request.needs))
    BY RequestsAssumption DEF IInv, Typed
  <2> QED
    BY <2>1, <2>2, SelectedSeq
<1> HIDE DEF kept
<1> DEFINE R == ToSet(request.needs) \cup {AllSources}
<1>5. kept \in Seq(R)
  <2>1. Len(kept) \in Nat /\ \A i \in 1..Len(kept) : kept[i] \in ToSet(request.needs)
    BY <1>4, LenProperties, ElementOfSeq
  <2>2. \A i \in 1..Len(kept) : kept[i] \in R
    BY <2>1
  <2>3. kept = [i \in 1..Len(kept) |-> kept[i]]
    BY <1>4, LenProperties
  <2> HIDE DEF R
  <2>4. kept \in [1..Len(kept) -> R]
    BY <2>2, <2>3
  <2> QED
    BY <2>1, <2>4
<1>6. more \in Seq(R)
  <2>1. AllSources \in R
    OBVIOUS
  <2> HIDE DEF R
  <2>2. <<>> \in Seq(R) /\ <<AllSources>> \in Seq(R)
    BY <2>1
  <2> QED
    BY <2>2
<1> HIDE DEF more, R
<1>7. m \in Seq(R)
  BY <1>2, <1>5, <1>6, ConcatProperties
<1>8. m \in Seq(ToSet(m))
  BY <1>7, OwnElements
<1> QED
  BY <1>3, <1>8, RepairStep

(* A recovery has another wording, and a pass left to search with it.      *)
LEMMA RecoverStep ==
    ASSUME IInv, Recover
    PROVE  IInv'
<1>1. /\ pc = "recover" /\ attempt' = attempt + 1
      /\ \/ queries' = <<"recovery">> /\ pc' = "retrieve"
         \/ queries' = <<>> /\ pc' = "end"
      /\ UNCHANGED <<request, slot, candidates, preserve, documents, prior, repairing>>
  BY DEF Recover
<1>2. slot = 0
  BY <1>1 DEF IInv, Typed
<1>3. attempt' \in 1..MaxAttempts
  <2>1. attempt \in 1..MaxAttempts /\ attempt < MaxAttempts
    BY <1>1 DEF IInv, Typed
  <2> QED
    BY <1>1, <2>1, SelectionAssumption
<1>4. 0 \in 0..Len(queries')
  <2>1. Len(<<"recovery">>) \in Nat /\ Len(<<>>) \in Nat
    OBVIOUS
  <2> QED
    BY <1>1, <2>1
<1>5. Typed'
  BY <1>1, <1>2, <1>3, <1>4 DEF IInv, Typed
<1>6. /\ <<"recovery">> \in Seq(ToSet(<<"recovery">>)) /\ <<"recovery">> # <<>>
      /\ \A i \in DOMAIN <<"recovery">> : <<"recovery">>[i] # ""
  <2>1. <<"recovery">> \in Seq({"recovery"}) /\ <<"recovery">> # <<>>
    OBVIOUS
  <2>2. <<"recovery">> \in Seq(ToSet(<<"recovery">>))
    BY <2>1, OwnElements
  <2>3. \A i \in DOMAIN <<"recovery">> : <<"recovery">>[i] = "recovery"
    OBVIOUS
  <2> QED
    BY <2>1, <2>2, <2>3
<1>7. QueriesReady'
  <2>1. CASE queries' = <<"recovery">> /\ pc' = "retrieve"
    BY <1>1, <1>2, <1>6, <2>1 DEF QueriesReady
  <2>2. CASE queries' = <<>> /\ pc' = "end"
    BY <2>2 DEF QueriesReady
  <2> QED
    BY <1>1, <2>1, <2>2
<1> QED
  BY <1>1, <1>5, <1>7, EvidenceUntouched

(* The invariant survives a step that changes nothing. *)
LEMMA Stutters ==
    ASSUME IInv, UNCHANGED vars
    PROVE  IInv'
<1> USE DEF vars
<1>1. /\ ByRecord' = ByRecord /\ TopN' = TopN /\ AskedState' = AskedState
      /\ InScope' = InScope /\ Inventory' = Inventory /\ SectionLookup' = SectionLookup
  BY SameRequest
<1>2. Typed' /\ QueriesReady' /\ EvidenceListed' /\ RepairTerms'
  BY DEF IInv, Typed, QueriesReady, EvidenceListed, RepairTerms
<1>3. WithinLimit' /\ PresentRanked' /\ CandidatesMeant'
  BY <1>1 DEF IInv, WithinLimit, PresentRanked, CandidatesMeant
<1>4. RecordsComplete'
  BY <1>1 DEF IInv, RecordsComplete, Complete
<1>5. SearchesAsPlanned'
  BY <1>1 DEF IInv, SearchesAsPlanned
<1>6. RepairAddsUnlessFull'
  BY <1>1 DEF IInv, RepairAddsUnlessFull
<1>7. AnchorKept' /\ EvidenceNotLost'
  BY <1>1 DEF IInv, AnchorKept, EvidenceNotLost
<1> QED
  BY <1>2, <1>3, <1>4, <1>5, <1>6, <1>7 DEF IInv

LEMMA Preserved == IInv /\ [Next]_vars => IInv'
<1> SUFFICES ASSUME IInv, [Next]_vars
             PROVE  IInv'
  OBVIOUS
<1>1. CASE RetrieveSections
  BY <1>1, RetrieveSectionsStep
<1>2. CASE Retrieve
  BY <1>2, RetrieveStep
<1>3. CASE FeatureAffinity
  BY <1>3, FeatureAffinityStep
<1>4. CASE Rerank
  BY <1>4, RerankStep
<1>5. CASE ValidateEvidence
  BY <1>5, ValidateStep
<1>6. CASE RepairEvidence
  BY <1>6, RepairEvidenceStep
<1>7. CASE Answered
  BY <1>7, AnsweredStep
<1>8. CASE RepairAnswer
  BY <1>8, RepairAnswerStep
<1>9. CASE Recover
  BY <1>9, RecoverStep
<1>10. CASE Terminated \/ UNCHANGED vars
  BY <1>10, Stutters DEF Terminated
<1> QED
  BY <1>1, <1>2, <1>3, <1>4, <1>5, <1>6, <1>7, <1>8, <1>9, <1>10 DEF Next

-----------------------------------------------------------------------------
(* What holds of every request, whatever is found and however it is ranked *)

(* The inductive invariant: what each node of the graph is entered with    *)
(* (retrieval.py, completeness.py).                                        *)
THEOREM InvariantHolds == Spec => []IInv
<1>1. Init => IInv
  BY Begins
<1>2. IInv /\ [Next]_vars => IInv'
  BY Preserved
<1> QED
  BY <1>1, <1>2, PTL DEF Spec

(* Every pass, a repair or a recovery as well, searches each of its        *)
(* queries over just the scope planned for the request, and never the      *)
(* empty place of a translation (_retrieve, _recover_query).               *)
THEOREM PassesSearchAsPlanned == Spec => []SearchesAsPlanned
<1>1. IInv => SearchesAsPlanned
  BY DEF IInv
<1> QED
  BY <1>1, InvariantHolds, PTL

(* The window of evidence never holds a chunk twice, and no more chunks    *)
(* than the route's limit unless records take their chunks' place: through *)
(* merging, pinning, expansion and reconstruction (retrieval.py).          *)
THEOREM WindowStaysSound == Spec => []WindowSound
<1>1. IInv => WindowSound
  <2> SUFFICES ASSUME IInv
               PROVE  WindowSound
    OBVIOUS
  <2>1. candidates \in Lists(Docs) /\ documents \in Lists(Docs) /\ prior \in Lists(Docs)
    BY DEF IInv, EvidenceListed
  <2>2. ToSet(candidates) \cup ToSet(documents) \cup ToSet(prior) \subseteq Docs
    <3>1. \A d \in ToSet(candidates) : d \in Docs
      BY <2>1, ListFacts
    <3>2. \A d \in ToSet(documents) : d \in Docs
      BY <2>1, ListFacts
    <3>3. \A d \in ToSet(prior) : d \in Docs
      BY <2>1, ListFacts
    <3> QED
      BY <3>1, <3>2, <3>3
  <2>3. preserve \in BOOLEAN
    BY DEF IInv, Typed
  <2>4. TypeOK
    BY <2>2, <2>3 DEF TypeOK, IInv, Typed
  <2>5. IsInjective(documents)
    BY <2>1 DEF Lists
  <2> QED
    BY <2>4, <2>5 DEF WindowSound, IInv, WithinLimit
<1> QED
  BY <1>1, InvariantHolds, PTL

(* A repair adds to the evidence it repairs, unless the window is full: no *)
(* chunk of the pass before is lost, and what was missing is there if a    *)
(* candidate had it (_merge_ranked_documents, _include_repair_evidence).   *)
THEOREM RepairOnlyAdds == Spec => []RepairAddsUnlessFull
<1>1. IInv => RepairAddsUnlessFull
  BY DEF IInv
<1> QED
  BY <1>1, InvariantHolds, PTL

(* A chunk with an identifier of the question is among the evidence if a   *)
(* candidate is one, and no evidence is left of candidates only if it was  *)
(* about another product (_protect_anchors, the fallback of _rerank).      *)
THEOREM EvidenceIsKept == Spec => []EvidenceKept
<1>1. IInv => EvidenceKept
  BY DEF IInv, EvidenceKept
<1> QED
  BY <1>1, InvariantHolds, PTL

(* The state of a ticket is told from its present record alone, and a      *)
(* record that takes its chunks' place is there with all of its chunks in  *)
(* scope (current_jira_status_evidence, _reconstruct_parent_records).      *)
THEOREM RecordsAreFaithful == Spec => []RecordsFaithful
<1>1. IInv => RecordsFaithful
  <2> SUFFICES ASSUME IInv
               PROVE  RecordsFaithful
    OBVIOUS
  <2>1. PresentStateOnly
    <3> SUFFICES ASSUME AskedState, NEW d \in ToSet(documents)
                 PROVE  d.current
      BY DEF PresentStateOnly
    <3>1. documents \in Lists(Now)
      BY DEF IInv, PresentRanked
    <3>2. d \in Now
      BY <3>1, ListFacts
    <3> QED
      BY <3>2 DEF Now
  <2>2. RecordsWhole
    BY DEF IInv, RecordsComplete, Complete, RecordsWhole
  <2> QED
    BY <2>1, <2>2 DEF RecordsFaithful
<1> QED
  BY <1>1, InvariantHolds, PTL
=============================================================================
