--------------------------- MODULE Service_proofs ---------------------------
(***************************************************************************)
(* Proofs about the service around the workflow: Admission, for every      *)
(* capacity and every finite set of requests, and Startup, for every       *)
(* number of callers, corpora, outages and ticks, and every time to live.  *)
(***************************************************************************)
EXTENDS Admission, Startup, FiniteSetTheorems, SequenceTheorems, TLAPS

-----------------------------------------------------------------------------
(* Admission: the parts of the invariant, for any assignment of places and *)
(* any queue                                                               *)

HoldPlaces == {"woken", "admitted", "responding", "running", "lost"}

Holders(pcs) == {r \in Requests : pcs[r] \in HoldPlaces}
Users(pcs) == {r \in Requests : pcs[r] \in HoldPlaces \ {"woken"}}

Queued(pcs, s) ==
    /\ s \in Seq(Requests)
    /\ \A r \in Requests : pcs[r] = "waiting" <=> \E i \in DOMAIN s : s[i] = r
    /\ \A i, j \in DOMAIN s : s[i] = s[j] => i = j

(* What every step preserves, with the sets of holders and users named.     *)
SlotInv ==
    /\ endpoint \in [Requests -> {"answer", "stream"}]
    /\ pc \in [Requests -> Places]
    /\ Queued(pc, waiters)
    /\ free \in Nat
    /\ free + Cardinality(Holders(pc)) = Capacity
    /\ gauge = Cardinality(Users(pc))
    /\ NoIdleSlot

(* It is the invariant the runs check, regrouped.                           *)
LEMMA SlotInvIsSlotsSound == SlotInv <=> SlotsSound
<1>1. Holders(pc) = Holding
  BY DEF Holders, Holding, HoldPlaces
<1>2. Users(pc) = {r \in Holding : pc[r] # "woken"}
  BY DEF Users, Holding, HoldPlaces
<1>3. Cardinality(Holding) \in Nat
      /\ Cardinality({r \in Holding : pc[r] # "woken"}) \in Nat
  BY FS_Subset, FS_CardinalityType, RequestsAssumption DEF Holding
<1>4. free \in Nat /\ free + Cardinality(Holding) = Capacity => free \in 0..Capacity
  BY <1>3, CapacityAssumption
<1>5. SlotInv => SlotsSound
  BY <1>1, <1>2, <1>3, <1>4
     DEF SlotInv, SlotsSound, TypeOK, SlotsConserved, Queued
<1>6. SlotsSound => SlotInv
  BY <1>1, <1>2, CapacityAssumption
     DEF SlotInv, SlotsSound, TypeOK, SlotsConserved, Queued
<1>7. QED
  BY <1>5, <1>6

-----------------------------------------------------------------------------
(* Holders and users are finite, and change one request at a time.          *)

LEMMA FiniteHolders ==
    ASSUME NEW pcs
    PROVE  /\ IsFiniteSet(Holders(pcs)) /\ Cardinality(Holders(pcs)) \in Nat
           /\ IsFiniteSet(Users(pcs)) /\ Cardinality(Users(pcs)) \in Nat
BY FS_Subset, FS_CardinalityType, RequestsAssumption DEF Holders, Users

(* A request that moves to a place of the same kind changes neither count.  *)
LEMMA MoveWithin ==
    ASSUME NEW pcs \in [Requests -> Places], NEW r \in Requests, NEW p \in Places,
           pcs[r] \in HoldPlaces <=> p \in HoldPlaces,
           pcs[r] = "woken" <=> p = "woken"
    PROVE  /\ Holders([pcs EXCEPT ![r] = p]) = Holders(pcs)
           /\ Users([pcs EXCEPT ![r] = p]) = Users(pcs)
BY DEF Holders, Users

(* Nor does the queue change when neither place is the queue's.             *)
LEMMA QueueKept ==
    ASSUME NEW pcs \in [Requests -> Places], NEW r \in Requests, NEW p \in Places,
           NEW s, Queued(pcs, s), pcs[r] # "waiting", p # "waiting"
    PROVE  Queued([pcs EXCEPT ![r] = p], s)
BY DEF Queued

-----------------------------------------------------------------------------
(* Queues *)

(* The first n of a queue are n different requests.                         *)
LEMMA FirstOfQueue ==
    ASSUME NEW s \in Seq(Requests), NEW n \in 0..Len(s),
           \A i, j \in DOMAIN s : s[i] = s[j] => i = j
    PROVE  LET first == {s[i] : i \in 1..n}
           IN  /\ first \subseteq Requests /\ IsFiniteSet(first)
               /\ Cardinality(first) = n
<1> DEFINE first == {s[i] : i \in 1..n}
           f == [i \in 1..n |-> s[i]]
<1>1. DOMAIN s = 1..Len(s) /\ Len(s) \in Nat /\ \A i \in 1..Len(s) : s[i] \in Requests
  BY LenProperties, ElementOfSeq
<1>2. first \subseteq Requests
  BY <1>1
<1>3. f \in Bijection(1..n, first)
  <2>1. f \in Injection(1..n, first)
    BY <1>1 DEF Injection, IsInjective
  <2>2. f \in Surjection(1..n, first)
    BY DEF Surjection
  <2>3. QED
    BY <2>1, <2>2 DEF Bijection
<1>4. Cardinality(first) = n
  BY <1>1, <1>3, FS_CountingElements DEF ExistsBijection
<1>5. IsFiniteSet(first)
  BY <1>2, FS_Subset, RequestsAssumption
<1>6. QED
  BY <1>2, <1>4, <1>5

(* The queue behind the first n.                                            *)
LEMMA RestOfQueue ==
    ASSUME NEW s \in Seq(Requests), NEW n \in 0..Len(s)
    PROVE  /\ SubSeq(s, n + 1, Len(s)) \in Seq(Requests)
           /\ Len(SubSeq(s, n + 1, Len(s))) = Len(s) - n
           /\ \A i \in 1..(Len(s) - n) : SubSeq(s, n + 1, Len(s))[i] = s[n + i]
<1>1. Len(s) \in Nat /\ \A i \in 1..Len(s) : s[i] \in Requests
  BY LenProperties, ElementOfSeq
<1>2. \A i \in (n + 1)..Len(s) : s[i] \in Requests
  BY <1>1
<1>3. /\ SubSeq(s, n + 1, Len(s)) \in Seq(Requests)
      /\ Len(SubSeq(s, n + 1, Len(s))) =
            IF n + 1 <= Len(s) THEN Len(s) - (n + 1) + 1 ELSE 0
      /\ \A i \in 1..(Len(s) - (n + 1) + 1) :
            SubSeq(s, n + 1, Len(s))[i] = s[(n + 1) + i - 1]
  BY <1>1, <1>2, SubSeqProperties
<1>4. QED
  BY <1>1, <1>3

(* Leaving the queue: the others stay, in their order, each once.           *)
LEMMA WithoutQueued ==
    ASSUME NEW pcs \in [Requests -> Places], NEW s, Queued(pcs, s),
           NEW r \in Requests, pcs[r] = "waiting"
    PROVE  Queued([pcs EXCEPT ![r] = "shed"], Without(s, r))
<1>1. s \in Seq(Requests) /\ Len(s) \in Nat /\ DOMAIN s = 1..Len(s)
      /\ \A i \in 1..Len(s) : s[i] \in Requests
  BY LenProperties, ElementOfSeq DEF Queued
<1>2. PICK k \in 1..Len(s) : k = CHOOSE j \in DOMAIN s : s[j] = r
  BY <1>1 DEF Queued
<1>3. s[k] = r /\ \A i, j \in 1..Len(s) : s[i] = s[j] => i = j
  BY <1>1, <1>2 DEF Queued
<1> DEFINE a == SubSeq(s, 1, k - 1)
           b == SubSeq(s, k + 1, Len(s))
<1>4. /\ a \in Seq(Requests) /\ Len(a) = k - 1
      /\ \A i \in 1..(k - 1) : a[i] = s[i]
  <2>1. \A i \in 1..(k - 1) : s[i] \in Requests
    BY <1>1
  <2>2. /\ a \in Seq(Requests)
        /\ Len(a) = IF 1 <= k - 1 THEN (k - 1) - 1 + 1 ELSE 0
        /\ \A i \in 1..((k - 1) - 1 + 1) : a[i] = s[1 + i - 1]
    BY <2>1, SubSeqProperties
  <2>3. QED
    BY <2>2
<1>5. /\ b \in Seq(Requests) /\ Len(b) = Len(s) - k
      /\ \A i \in 1..(Len(s) - k) : b[i] = s[k + i]
  <2>1. s \in Seq(Requests) /\ k \in 0..Len(s)
    BY <1>1
  <2>2. QED
    BY <2>1, RestOfQueue
<1> DEFINE w == a \o b
<1> HIDE DEF a, b
<1>6. /\ w \in Seq(Requests) /\ Len(w) = Len(s) - 1 /\ DOMAIN w = 1..(Len(s) - 1)
      /\ \A i \in 1..(Len(s) - 1) : w[i] = IF i < k THEN s[i] ELSE s[i + 1]
  <2>1. /\ w \in Seq(Requests) /\ Len(w) = Len(a) + Len(b)
        /\ \A i \in 1..(Len(a) + Len(b)) :
              w[i] = IF i <= Len(a) THEN a[i] ELSE b[i - Len(a)]
    BY <1>4, <1>5, ConcatProperties
  <2>2. DOMAIN w = 1..Len(w)
    BY <2>1, LenProperties
  <2>3. \A i \in 1..(Len(s) - 1) : w[i] = IF i < k THEN s[i] ELSE s[i + 1]
    <3> SUFFICES ASSUME NEW i \in 1..(Len(s) - 1)
                 PROVE w[i] = IF i < k THEN s[i] ELSE s[i + 1]
      OBVIOUS
    <3>1. CASE i < k
      BY <3>1, <2>1, <1>1, <1>4, <1>5
    <3>2. CASE ~(i < k)
      <4>1. i - (k - 1) \in 1..(Len(s) - k) /\ k + (i - (k - 1)) = i + 1
        BY <3>2, <1>1
      <4>2. w[i] = b[i - (k - 1)]
        BY <3>2, <2>1, <1>1, <1>4, <1>5
      <4>3. QED
        BY <4>1, <4>2, <3>2, <1>5
    <3>3. QED
      BY <3>1, <3>2
  <2>4. QED
    BY <2>1, <2>2, <2>3, <1>4, <1>5, <1>1
<1>7. Without(s, r) = w
  BY <1>2 DEF Without, a, b
<1> HIDE DEF w
<1> DEFINE place(i) == IF i < k THEN i ELSE i + 1
<1>7a. \A i \in DOMAIN w : w[i] = s[place(i)] /\ place(i) \in (1..Len(s)) \ {k}
  BY <1>1, <1>6
<1>8. \A i, j \in DOMAIN w : w[i] = w[j] => i = j
  <2> SUFFICES ASSUME NEW i \in 1..(Len(s) - 1), NEW j \in 1..(Len(s) - 1), w[i] = w[j]
               PROVE  i = j
    BY <1>6
  <2>1. place(i) = place(j)
    BY <1>7a, <1>6, <1>3
  <2>2. QED
    BY <2>1, <1>1
<1>9. ASSUME NEW q \in Requests
      PROVE  [pcs EXCEPT ![r] = "shed"][q] = "waiting"
                <=> \E i \in DOMAIN w : w[i] = q
  <2>1. CASE q = r
    <3>1. \A i \in DOMAIN w : w[i] # r
      BY <1>7a, <1>3
    <3>2. QED
      BY <2>1, <3>1
  <2>2. CASE q # r
    <3>1. ASSUME pcs[q] = "waiting" PROVE \E i \in DOMAIN w : w[i] = q
      <4>1. PICK j \in 1..Len(s) : s[j] = q
        BY <3>1, <1>1 DEF Queued
      <4>2. j # k
        BY <4>1, <2>2, <1>3
      <4>3. CASE j < k
        <5>1. j \in 1..(Len(s) - 1) /\ w[j] = q
          BY <4>1, <4>3, <1>1, <1>6
        <5>2. QED
          BY <5>1, <1>6
      <4>4. CASE j > k
        <5>1. j - 1 \in 1..(Len(s) - 1) /\ w[j - 1] = q
          BY <4>1, <4>4, <1>1, <1>6
        <5>2. QED
          BY <5>1, <1>6
      <4>5. QED
        BY <4>2, <4>3, <4>4, <1>1
    <3>2. ASSUME NEW i \in DOMAIN w, w[i] = q PROVE pcs[q] = "waiting"
      <4>1. \E j \in 1..Len(s) : s[j] = q
        BY <3>2, <1>1, <1>6
      <4>2. QED
        BY <4>1, <1>1 DEF Queued
    <3>3. QED
      BY <2>2, <3>1, <3>2
  <2>3. QED
    BY <2>1, <2>2
<1>10. QED
  BY <1>6, <1>7, <1>8, <1>9 DEF Queued

(* Joining the queue at its end.                                            *)
LEMMA AppendQueued ==
    ASSUME NEW pcs \in [Requests -> Places], NEW s, Queued(pcs, s),
           NEW r \in Requests, pcs[r] # "waiting"
    PROVE  Queued([pcs EXCEPT ![r] = "waiting"], Append(s, r))
<1>1. s \in Seq(Requests) /\ Len(s) \in Nat /\ DOMAIN s = 1..Len(s)
  BY LenProperties DEF Queued
<1> DEFINE w == Append(s, r)
<1>2. /\ w \in Seq(Requests) /\ DOMAIN w = 1..(Len(s) + 1)
      /\ \A i \in 1..Len(s) : w[i] = s[i]
      /\ w[Len(s) + 1] = r
  BY <1>1, AppendProperties, LenProperties
<1> HIDE DEF w
<1>3. \A i \in 1..Len(s) : s[i] # r
  BY <1>1 DEF Queued
<1>4. \A i, j \in DOMAIN w : w[i] = w[j] => i = j
  BY <1>1, <1>2, <1>3 DEF Queued
<1>5. ASSUME NEW q \in Requests
      PROVE  [pcs EXCEPT ![r] = "waiting"][q] = "waiting"
                <=> \E i \in DOMAIN w : w[i] = q
  <2>1. CASE q = r
    BY <2>1, <1>1, <1>2
  <2>2. CASE q # r
    BY <2>2, <1>1, <1>2 DEF Queued
  <2>3. QED
    BY <2>1, <2>2
<1>6. QED
  BY <1>2, <1>4, <1>5 DEF Queued, w

-----------------------------------------------------------------------------
(* Handing slots over *)

(* Waking the first n waiters moves n free slots to them and to nobody      *)
(* else; whoever still waits stands behind somebody woken.                  *)
LEMMA WakeKeeps ==
    ASSUME NEW pcs \in [Requests -> Places], NEW s, Queued(pcs, s),
           NEW avail \in Nat, NEW n \in 0..Len(s), n <= avail,
           avail + Cardinality(Holders(pcs)) = Capacity,
           Wake(n, avail, s, pcs)
    PROVE  /\ pc' \in [Requests -> Places]
           /\ Queued(pc', waiters')
           /\ free' \in Nat /\ free' = avail - n
           /\ free' + Cardinality(Holders(pc')) = Capacity
           /\ Users(pc') = Users(pcs)
           /\ waiters' # <<>> => n < Len(s)
           /\ n > 0 => \E r \in Requests : pc'[r] = "woken"
           /\ \A r \in Requests : pcs[r] = "woken" => pc'[r] = "woken"
<1>1. s \in Seq(Requests) /\ Len(s) \in Nat /\ DOMAIN s = 1..Len(s)
      /\ \A i \in 1..Len(s) : s[i] \in Requests
  BY LenProperties, ElementOfSeq DEF Queued
<1> DEFINE first == {s[i] : i \in 1..n}
<1>2. first \subseteq Requests /\ IsFiniteSet(first) /\ Cardinality(first) = n
  BY <1>1, FirstOfQueue DEF Queued
<1>3. \A r \in first : pcs[r] = "waiting"
  BY <1>1 DEF Queued
<1>4. /\ pc' = [r \in Requests |-> IF r \in first THEN "woken" ELSE pcs[r]]
      /\ free' = avail - n
      /\ waiters' = SubSeq(s, n + 1, Len(s))
  BY DEF Wake
<1>5. pc' \in [Requests -> Places]
  BY <1>4 DEF Places
<1>6. /\ waiters' \in Seq(Requests) /\ Len(waiters') = Len(s) - n
      /\ DOMAIN waiters' = 1..(Len(s) - n)
      /\ \A i \in 1..(Len(s) - n) : waiters'[i] = s[n + i]
  BY <1>1, <1>4, RestOfQueue, LenProperties
<1>7. Queued(pc', waiters')
  <2>1. \A i, j \in DOMAIN waiters' : waiters'[i] = waiters'[j] => i = j
    <3> SUFFICES ASSUME NEW i \in 1..(Len(s) - n), NEW j \in 1..(Len(s) - n),
                        waiters'[i] = waiters'[j]
                 PROVE  i = j
      BY <1>6
    <3>1. s[n + i] = s[n + j] /\ n + i \in 1..Len(s) /\ n + j \in 1..Len(s)
      BY <1>1, <1>6
    <3>2. n + i = n + j
      BY <3>1, <1>1, SMTT(30) DEF Queued
    <3>3. QED
      BY <3>2, <1>1
  <2>2. ASSUME NEW r \in Requests
        PROVE  pc'[r] = "waiting" <=> \E i \in DOMAIN waiters' : waiters'[i] = r
    <3>1. ASSUME pc'[r] = "waiting"
          PROVE  \E i \in DOMAIN waiters' : waiters'[i] = r
      <4>1. pcs[r] = "waiting" /\ r \notin first
        BY <3>1, <1>4
      <4>2. PICK j \in 1..Len(s) : s[j] = r
        BY <4>1, <1>1 DEF Queued
      <4>3. j > n
        BY <4>1, <4>2, <1>1
      <4>4. j - n \in 1..(Len(s) - n) /\ waiters'[j - n] = r
        BY <4>2, <4>3, <1>1, <1>6
      <4>5. QED
        BY <4>4, <1>6
    <3>2. ASSUME NEW i \in 1..(Len(s) - n), waiters'[i] = r
          PROVE  pc'[r] = "waiting"
      <4>1. n + i \in 1..Len(s) /\ s[n + i] = r
        BY <3>2, <1>1, <1>6
      <4>2. pcs[r] = "waiting"
        BY <4>1, <1>1 DEF Queued
      <4>3. r \notin first
        <5>1. ASSUME NEW j \in 1..n, s[j] = r PROVE FALSE
          BY <5>1, <4>1, <1>1 DEF Queued
        <5>2. QED
          BY <5>1
      <4>4. QED
        BY <4>2, <4>3, <1>4
    <3>3. QED
      BY <3>1, <3>2, <1>6
  <2>3. QED
    BY <1>6, <2>1, <2>2 DEF Queued
<1> HIDE DEF first
<1>8. Holders(pc') = Holders(pcs) \cup first /\ Holders(pcs) \cap first = {}
  BY <1>2, <1>3, <1>4 DEF Holders, HoldPlaces
<1>9. Cardinality(Holders(pc')) = Cardinality(Holders(pcs)) + n
  <2>1. Cardinality(Holders(pcs) \cup first)
           = Cardinality(Holders(pcs)) + Cardinality(first)
             - Cardinality(Holders(pcs) \cap first)
    BY <1>2, FS_Union, FiniteHolders
  <2>2. Cardinality(Holders(pcs) \cap first) = 0
    BY <1>8, FS_EmptySet
  <2>3. Cardinality(Holders(pcs)) \in Nat
    BY FiniteHolders
  <2>4. QED
    BY <1>2, <1>8, <2>1, <2>2, <2>3
<1>10. Users(pc') = Users(pcs)
  BY <1>2, <1>3, <1>4 DEF Users, HoldPlaces
<1>11. waiters' # <<>> => n < Len(s)
  <2>1. CASE n = Len(s)
    BY <2>1, <1>1, <1>6, EmptySeq
  <2>2. Len(s) \in Nat
    BY <1>1
  <2>3. n # Len(s) => n < Len(s)
    BY <2>2
  <2>4. QED
    BY <2>1, <2>3
<1>12. n > 0 => \E r \in Requests : pc'[r] = "woken"
  <2>1. ASSUME n > 0 PROVE s[1] \in first /\ s[1] \in Requests
    BY <2>1, <1>1 DEF first
  <2>2. QED
    BY <2>1, <1>4
<1>13. free' \in Nat /\ free' + Cardinality(Holders(pc')) = Capacity
  BY <1>4, <1>9, FiniteHolders, CapacityAssumption
<1>14. QED
  BY <1>4, <1>5, <1>7, <1>10, <1>11, <1>12, <1>13

(* Leaving acquire() leaves no waiter unless all the slots are given away.  *)
LEMMA LeaveKeeps ==
    ASSUME NEW pcs \in [Requests -> Places], NEW s, Queued(pcs, s),
           NEW avail \in Nat, avail + Cardinality(Holders(pcs)) = Capacity,
           LeaveQueue(avail, s, pcs)
    PROVE  /\ pc' \in [Requests -> Places]
           /\ Queued(pc', waiters')
           /\ free' \in Nat
           /\ free' + Cardinality(Holders(pc')) = Capacity
           /\ Users(pc') = Users(pcs)
           /\ NoIdleSlot'
<1>1. Len(s) \in Nat
  BY LenProperties DEF Queued
<1> DEFINE n == AsManyAs(avail, s)
<1>2. n \in 0..Len(s) /\ n <= avail /\ (n = avail \/ n = Len(s))
  BY <1>1 DEF AsManyAs
<1>3. Wake(n, avail, s, pcs)
  BY DEF LeaveQueue
<1> HIDE DEF n
<1>4. /\ pc' \in [Requests -> Places] /\ Queued(pc', waiters')
      /\ free' \in Nat /\ free' = avail - n
      /\ free' + Cardinality(Holders(pc')) = Capacity
      /\ Users(pc') = Users(pcs)
      /\ waiters' # <<>> => n < Len(s)
  BY <1>2, <1>3, WakeKeeps
<1>5. NoIdleSlot'
  BY <1>1, <1>2, <1>4 DEF NoIdleSlot
<1>6. QED
  BY <1>4, <1>5

-----------------------------------------------------------------------------
(* The invariant *)

(* Nobody has arrived.                                                      *)
LEMMA InitSlotInv == Init => SlotInv
<1> SUFFICES ASSUME Init PROVE SlotInv
  OBVIOUS
<1>1. Holders(pc) = {} /\ Users(pc) = {}
  BY DEF Init, Holders, Users, HoldPlaces
<1>2. Queued(pc, waiters)
  BY EmptySeq DEF Init, Queued
<1>3. pc \in [Requests -> Places]
  BY DEF Init, Places
<1>4. Cardinality(Holders(pc)) = 0 /\ Cardinality(Users(pc)) = 0
  BY <1>1, FS_EmptySet
<1>5. free \in Nat /\ free + 0 = Capacity
  BY CapacityAssumption DEF Init
<1>6. NoIdleSlot
  BY DEF Init, NoIdleSlot
<1>7. QED
  BY <1>2, <1>3, <1>4, <1>5, <1>6 DEF Init, SlotInv

(* A newcomer queues or takes a slot nobody waits for.                      *)
LEMMA AcquireStep ==
    ASSUME SlotInv, NEW r \in Requests, Acquire(r)
    PROVE  SlotInv'
<1> USE DEF SlotInv
<1>1. endpoint' = endpoint /\ pc[r] = "new"
  BY DEF Acquire
<1>2. CASE Locked
  <2>1. /\ waiters' = Append(waiters, r) /\ pc' = [pc EXCEPT ![r] = "waiting"]
        /\ free' = free /\ gauge' = gauge
    BY <1>2 DEF Acquire
  <2>2. Holders(pc') = Holders(pc) /\ Users(pc') = Users(pc)
    BY <1>1, <2>1, MoveWithin DEF HoldPlaces, Places
  <2>3. Queued(pc', waiters')
    BY <1>1, <2>1, AppendQueued
  <2>4. free > 0 => \E q \in Requests : pc[q] = "woken"
    BY <1>2, EmptySeq DEF Locked, NoIdleSlot, Queued
  <2>5. NoIdleSlot'
    BY <1>1, <2>1, <2>4 DEF NoIdleSlot
  <2>6. QED
    BY <1>1, <2>1, <2>2, <2>3, <2>5 DEF Places
<1>3. CASE ~Locked
  <2>1. /\ waiters' = waiters /\ pc' = [pc EXCEPT ![r] = "admitted"]
        /\ free' = free - 1 /\ gauge' = gauge + 1
    BY <1>3 DEF Acquire
  <2>2. Holders(pc') = Holders(pc) \cup {r} /\ r \notin Holders(pc)
        /\ Users(pc') = Users(pc) \cup {r} /\ r \notin Users(pc)
    BY <1>1, <2>1 DEF Holders, Users, HoldPlaces
  <2>3. Cardinality(Holders(pc')) = Cardinality(Holders(pc)) + 1
        /\ Cardinality(Users(pc')) = Cardinality(Users(pc)) + 1
    BY <2>2, FS_AddElement, FiniteHolders
  <2>4. free # 0 /\ \A q \in Requests : pc[q] # "waiting"
    BY <1>3 DEF Locked
  <2>5. waiters = <<>>
    <3>1. ASSUME waiters # <<>> PROVE FALSE
      <4>1. waiters \in Seq(Requests) /\ 1 \in DOMAIN waiters
        BY <3>1, EmptySeq, LenProperties DEF Queued
      <4>2. waiters[1] \in Requests /\ pc[waiters[1]] = "waiting"
        BY <4>1, ElementOfSeq, LenProperties DEF Queued
      <4>3. QED
        BY <4>2, <2>4
    <3>2. QED
      BY <3>1
  <2>6. Queued(pc', waiters')
    BY <1>1, <2>1, QueueKept DEF Places
  <2>7. QED
    BY <1>1, <2>1, <2>3, <2>4, <2>5, <2>6, FiniteHolders, CapacityAssumption
       DEF Places, NoIdleSlot
<1>4. QED
  BY <1>2, <1>3

(* A woken task takes the slot it was given.                                *)
LEMMA ResumeStep ==
    ASSUME SlotInv, NEW r \in Requests, Resume(r)
    PROVE  SlotInv'
<1> DEFINE pcs == [pc EXCEPT ![r] = "admitted"]
<1>1. /\ pc[r] = "woken" /\ LeaveQueue(free, waiters, pcs)
      /\ gauge' = gauge + 1 /\ endpoint' = endpoint
  BY DEF Resume
<1>2. pcs \in [Requests -> Places] /\ Queued(pcs, waiters)
  BY <1>1, QueueKept DEF SlotInv, Places
<1>3. Holders(pcs) = Holders(pc)
      /\ Users(pcs) = Users(pc) \cup {r} /\ r \notin Users(pc)
  BY <1>1 DEF SlotInv, Holders, Users, HoldPlaces
<1>4. Cardinality(Users(pcs)) = Cardinality(Users(pc)) + 1
  BY <1>3, FS_AddElement, FiniteHolders
<1> HIDE DEF pcs
<1>5. free \in Nat /\ free + Cardinality(Holders(pcs)) = Capacity
  BY <1>3 DEF SlotInv
<1>6. /\ pc' \in [Requests -> Places] /\ Queued(pc', waiters')
      /\ free' \in Nat /\ free' + Cardinality(Holders(pc')) = Capacity
      /\ Users(pc') = Users(pcs) /\ NoIdleSlot'
  BY <1>1, <1>2, <1>5, LeaveKeeps
<1>7. QED
  BY <1>1, <1>4, <1>6 DEF SlotInv

(* A waiter that times out leaves the queue and no slot behind.             *)
LEMMA ShedWaitingStep ==
    ASSUME SlotInv, NEW r \in Requests, ShedWaiting(r)
    PROVE  SlotInv'
<1> DEFINE pcs == [pc EXCEPT ![r] = "shed"]
           s == Without(waiters, r)
<1>1. /\ pc[r] = "waiting" /\ LeaveQueue(free, s, pcs)
      /\ gauge' = gauge /\ endpoint' = endpoint
  BY DEF ShedWaiting
<1>2. pcs \in [Requests -> Places] /\ Queued(pcs, s)
  BY <1>1, WithoutQueued DEF SlotInv, Places
<1>3. Holders(pcs) = Holders(pc) /\ Users(pcs) = Users(pc)
  BY <1>1, MoveWithin DEF SlotInv, HoldPlaces, Places
<1> HIDE DEF pcs, s
<1>4. free \in Nat /\ free + Cardinality(Holders(pcs)) = Capacity
  BY <1>3 DEF SlotInv
<1>5. /\ pc' \in [Requests -> Places] /\ Queued(pc', waiters')
      /\ free' \in Nat /\ free' + Cardinality(Holders(pc')) = Capacity
      /\ Users(pc') = Users(pcs) /\ NoIdleSlot'
  BY <1>1, <1>2, <1>4, LeaveKeeps
<1>6. QED
  BY <1>1, <1>3, <1>5 DEF SlotInv

(* A woken task that times out gives its slot back to the next.             *)
LEMMA ShedWokenStep ==
    ASSUME SlotInv, NEW r \in Requests, ShedWoken(r)
    PROVE  SlotInv'
<1> DEFINE pcs == [pc EXCEPT ![r] = "shed"]
<1>1. /\ pc[r] = "woken" /\ LeaveQueue(free + 1, waiters, pcs)
      /\ gauge' = gauge /\ endpoint' = endpoint
  BY DEF ShedWoken
<1>2. pcs \in [Requests -> Places] /\ Queued(pcs, waiters)
  BY <1>1, QueueKept DEF SlotInv, Places
<1>3. /\ Holders(pcs) = Holders(pc) \ {r} /\ r \in Holders(pc)
      /\ Users(pcs) = Users(pc)
  BY <1>1 DEF SlotInv, Holders, Users, HoldPlaces
<1>4. Cardinality(Holders(pcs)) = Cardinality(Holders(pc)) - 1
  BY <1>3, FS_RemoveElement, FiniteHolders
<1> HIDE DEF pcs
<1>5. free + 1 \in Nat /\ (free + 1) + Cardinality(Holders(pcs)) = Capacity
  BY <1>4, FiniteHolders, CapacityAssumption DEF SlotInv
<1>6. /\ pc' \in [Requests -> Places] /\ Queued(pc', waiters')
      /\ free' \in Nat /\ free' + Cardinality(Holders(pc')) = Capacity
      /\ Users(pc') = Users(pcs) /\ NoIdleSlot'
  BY <1>1, <1>2, <1>5, LeaveKeeps
<1>7. QED
  BY <1>1, <1>3, <1>6 DEF SlotInv

(* A request that keeps its slot moves from one place to the next.          *)
LEMMA KeepStep ==
    ASSUME SlotInv, NEW r \in Requests, Begin(r) \/ StartBody(r) \/ LoseBody(r)
    PROVE  SlotInv'
<1>1. PICK p \in {"running", "responding", "lost"} :
         /\ pc[r] \in {"admitted", "responding"} /\ pc' = [pc EXCEPT ![r] = p]
         /\ UNCHANGED <<endpoint, free, waiters, gauge>>
  BY DEF Begin, StartBody, LoseBody
<1>2. Holders(pc') = Holders(pc) /\ Users(pc') = Users(pc)
  <2>1. /\ pc \in [Requests -> Places] /\ p \in Places
        /\ pc[r] \in HoldPlaces /\ pc[r] # "woken"
        /\ p \in HoldPlaces /\ p # "woken"
    BY <1>1 DEF SlotInv, HoldPlaces, Places
  <2>2. QED
    BY <2>1, <1>1, MoveWithin
<1>3. Queued(pc', waiters') /\ pc' \in [Requests -> Places]
  BY <1>1, QueueKept DEF SlotInv, Places
<1>4. NoIdleSlot'
  BY <1>1 DEF SlotInv, NoIdleSlot
<1>5. QED
  BY <1>1, <1>2, <1>3, <1>4 DEF SlotInv

(* A request that ends hands its slot to the first waiter.                  *)
LEMMA FinishStep ==
    ASSUME SlotInv, NEW r \in Requests, Finish(r)
    PROVE  SlotInv'
<1> DEFINE pcs == [pc EXCEPT ![r] = "done"]
           n == AsManyAs(1, waiters)
<1>1. /\ pc[r] = "running" /\ Wake(n, free + 1, waiters, pcs)
      /\ gauge' = gauge - 1 /\ endpoint' = endpoint
  BY DEF Finish, Release
<1>2. pcs \in [Requests -> Places] /\ Queued(pcs, waiters)
      /\ \A q \in Requests : pc[q] = "woken" => pcs[q] = "woken"
  BY <1>1, QueueKept DEF SlotInv, Places
<1>3. /\ Holders(pcs) = Holders(pc) \ {r} /\ r \in Holders(pc)
      /\ Users(pcs) = Users(pc) \ {r} /\ r \in Users(pc)
  BY <1>1 DEF SlotInv, Holders, Users, HoldPlaces
<1>4. /\ Cardinality(Holders(pcs)) = Cardinality(Holders(pc)) - 1
      /\ Cardinality(Users(pcs)) = Cardinality(Users(pc)) - 1
  BY <1>3, FS_RemoveElement, FiniteHolders
<1>5. Len(waiters) \in Nat
  BY LenProperties DEF SlotInv, Queued
<1>6. n \in 0..Len(waiters) /\ n <= free + 1 /\ (n = 1 \/ n = Len(waiters))
  BY <1>5 DEF AsManyAs, SlotInv
<1> HIDE DEF pcs, n
<1>7. free + 1 \in Nat /\ (free + 1) + Cardinality(Holders(pcs)) = Capacity
  BY <1>4, FiniteHolders, CapacityAssumption DEF SlotInv
<1>8. /\ pc' \in [Requests -> Places] /\ Queued(pc', waiters')
      /\ free' \in Nat /\ free' + Cardinality(Holders(pc')) = Capacity
      /\ Users(pc') = Users(pcs)
      /\ waiters' # <<>> => n < Len(waiters)
      /\ n > 0 => \E q \in Requests : pc'[q] = "woken"
  BY <1>1, <1>2, <1>6, <1>7, WakeKeeps
<1>9. NoIdleSlot'
  BY <1>5, <1>6, <1>8 DEF NoIdleSlot
<1>10. QED
  BY <1>1, <1>4, <1>8, <1>9 DEF SlotInv

(* Every step, and stuttering, preserves the invariant.                     *)
LEMMA NextSlotInv == SlotInv /\ [Next]_vars => SlotInv'
<1> SUFFICES ASSUME SlotInv, [Next]_vars PROVE SlotInv'
  OBVIOUS
<1>1. CASE \E r \in Requests : Acquire(r) \/ Serve(r)
  BY <1>1, AcquireStep, ResumeStep, ShedWaitingStep, ShedWokenStep, KeepStep,
     FinishStep DEF Serve
<1>2. CASE UNCHANGED vars
  BY <1>2 DEF vars, SlotInv, Queued, Holders, Users, NoIdleSlot
<1>3. QED
  BY <1>1, <1>2 DEF Next, Ended

(* No order of releases, wake-ups and timeouts loses a slot, counts one     *)
(* twice or leaves one idle beside a waiter, for any number of requests.    *)
THEOREM SlotsAreSound == Spec => []SlotsSound
<1>1. Spec => []SlotInv
  BY InitSlotInv, NextSlotInv, PTL DEF Spec
<1>2. QED
  BY <1>1, SlotInvIsSlotsSound, PTL

-----------------------------------------------------------------------------
(* Startup: the inductive invariant                                        *)

Vocabularies == [known : BOOLEAN, age : Nat, expires : Nat, read : Nat]

(* A vocabulary counts for the time to live from the look-up that missed.   *)
Dated ==
    /\ clock \in Nat
    /\ vocabulary \in Vocabularies
    /\ vocabulary.read <= clock /\ vocabulary.expires <= vocabulary.read + VocabularyTtl
    /\ began \in [Callers -> Nat] /\ \A r \in Callers : began[r] <= clock
    /\ given \in [Callers -> Vocabularies]

VocabularyInv == Dated /\ VocabularyRecovers

-----------------------------------------------------------------------------
(* The steps *)

(* Nothing was read yet.                                                    *)
LEMMA InitVocabularyInv == StartupInit => VocabularyInv
<1> SUFFICES ASSUME StartupInit PROVE VocabularyInv
  OBVIOUS
<1>1. None \in Vocabularies /\ None.age = 0 /\ None.read = 0 /\ None.expires = 0
  BY DEF None, Vocabularies
<1>2. /\ clock = 0 /\ vocabulary = None
      /\ began = [r \in Callers |-> 0] /\ given = [r \in Callers |-> None]
  BY DEF StartupInit
<1>3. Dated
  BY <1>1, <1>2, StartupAssumption DEF Dated
<1>4. VocabularyRecovers
  BY <1>1, <1>2 DEF VocabularyRecovers
<1> QED
  BY <1>3, <1>4 DEF VocabularyInv

(* A step of the loop, of the warm-up or of Chroma dates nothing anew.      *)
LEMMA Undated ==
    ASSUME VocabularyInv, UNCHANGED <<vocabulary, began, given>>,
           clock' = clock \/ clock' = clock + 1
    PROVE  VocabularyInv'
<1> USE DEF VocabularyInv, Dated
<1>1. clock' \in Nat /\ clock <= clock'
  OBVIOUS
<1>2. vocabulary'.read <= clock'
  BY <1>1 DEF Vocabularies
<1>3. \A r \in Callers : began'[r] <= clock'
  <2> SUFFICES ASSUME NEW r \in Callers PROVE began[r] <= clock'
    OBVIOUS
  <2>1. began[r] \in Nat /\ began[r] <= clock
    OBVIOUS
  <2> QED
    BY <1>1, <2>1
<1> QED
  BY <1>1, <1>2, <1>3 DEF VocabularyRecovers

(* What is found in the cache is younger than the time to live.             *)
LEMMA FindKeepsInv ==
    ASSUME VocabularyInv, NEW r \in Callers, FindVocabulary(r)
    PROVE  VocabularyInv'
<1> USE StartupAssumption DEF VocabularyInv, Dated
<1>1. clock' = clock /\ vocabulary' = vocabulary /\ began' = [began EXCEPT ![r] = clock]
  BY DEF FindVocabulary, environmentVars
<1>2. CASE Expired(vocabulary)
  <2>1. given' = given
    BY <1>2 DEF FindVocabulary
  <2> QED
    BY <1>1, <2>1 DEF VocabularyRecovers
<1>3. CASE ~Expired(vocabulary)
  <2> DEFINE age == clock - vocabulary.read
  <2>1. age \in Nat /\ age < VocabularyTtl
    BY <1>3 DEF Expired, Vocabularies
  <2>2. given' = [given EXCEPT ![r] = [None EXCEPT !.known = vocabulary.known, !.age = age]]
    BY <1>3 DEF FindVocabulary, Give
  <2>3. [None EXCEPT !.known = vocabulary.known, !.age = age] \in Vocabularies
    BY <2>1 DEF None, Vocabularies
  <2>4. [None EXCEPT !.known = vocabulary.known, !.age = age].age = age
    BY DEF None
  <2> QED
    BY <1>1, <2>1, <2>2, <2>3, <2>4 DEF VocabularyRecovers
<1> QED
  BY <1>2, <1>3

(* What was read, an empty vocabulary too, is as old as its look-up, and is *)
(* given fresh.                                                             *)
LEMMA ReadKeepsInv ==
    ASSUME VocabularyInv, NEW r \in Callers, ReadVocabulary(r)
    PROVE  VocabularyInv'
<1> USE StartupAssumption DEF VocabularyInv, Dated
<1>1. clock' = clock /\ began' = began
  BY DEF ReadVocabulary, environmentVars
<1>2. CASE UNCHANGED <<vocabulary, given>>
  BY <1>1, <1>2, Undated
<1>3. ASSUME NEW known \in BOOLEAN,
             vocabulary' = [None EXCEPT !.known = known, !.read = began[r],
                                        !.expires = began[r] + VocabularyTtl],
             Give(r, known, 0)
      PROVE  VocabularyInv'
  <2> DEFINE expires == began[r] + VocabularyTtl
  <2>1. vocabulary' \in Vocabularies /\ vocabulary'.read = began[r]
        /\ vocabulary'.expires = expires
    <3>1. began[r] \in Nat /\ expires \in Nat
      OBVIOUS
    <3>2. vocabulary' = [None EXCEPT !.known = known, !.read = began[r], !.expires = expires]
      BY <1>3
    <3>3. vocabulary' = [known |-> known, age |-> 0, expires |-> expires, read |-> began[r]]
      BY <3>2 DEF None
    <3> HIDE DEF expires
    <3> QED
      BY <3>1, <3>3 DEF Vocabularies
  <2>2. [None EXCEPT !.known = known, !.age = 0] \in Vocabularies
        /\ [None EXCEPT !.known = known, !.age = 0].age = 0
    BY DEF None, Vocabularies
  <2>3. given' \in [Callers -> Vocabularies] /\ VocabularyRecovers'
    BY <1>3, <2>2 DEF Give, VocabularyRecovers
  <2> QED
    BY <1>1, <2>1, <2>3
<1> QED
  BY <1>2, <1>3 DEF ReadVocabulary

(* Every step keeps the dates.                                              *)
LEMMA NextVocabularyInv == VocabularyInv /\ [StartupNext]_startupVars => VocabularyInv'
<1> SUFFICES ASSUME VocabularyInv, [StartupNext]_startupVars PROVE VocabularyInv'
  OBVIOUS
<1>1. ASSUME NEW r \in Callers, Construct(r) PROVE VocabularyInv'
  <2>1. CASE Connect(r) \/ GetCollection(r)
    BY <2>1, Undated DEF Connect, GetCollection, environmentVars
  <2> QED
    BY <1>1, <2>1, FindKeepsInv, ReadKeepsInv DEF Construct
<1>2. CASE WarmUp
  BY <1>2, Undated DEF WarmUp, MakeClient, ListCollections, OpenCollection, FetchCorpus,
                       environmentVars, requestVars
<1>3. CASE AwaitWarmUp \/ Stop \/ UNCHANGED startupVars
  BY <1>3, Undated DEF AwaitWarmUp, Stop, startupVars, environmentVars, requestVars
<1>4. CASE Environment
  BY <1>4, Undated DEF Environment, requestVars
<1> QED
  BY <1>1, <1>2, <1>3, <1>4 DEF StartupNext

-----------------------------------------------------------------------------
(* The theorem *)

(* Whatever Chroma does, no request plans with a vocabulary older than its  *)
(* time to live, be it the empty one of a read that failed.                 *)
THEOREM VocabularyIsRecent == StartupSpec => []VocabularyRecovers
<1>1. VocabularyInv => VocabularyRecovers
  BY DEF VocabularyInv
<1>2. QED
  BY <1>1, InitVocabularyInv, NextVocabularyInv, PTL DEF StartupSpec
=============================================================================
