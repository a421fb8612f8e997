--------------------------- MODULE Generation_proofs ---------------------------
(***************************************************************************)
(* Proofs about Generation, for every number of requests, slots, permits,  *)
(* attempts, repairs and passes, and every answer the model may stream.    *)
(*                                                                         *)
(* A step is of one request: it leaves what the others have of their own   *)
(* as it is (OthersUnmoved), so the invariant of a request is proved for   *)
(* the request that moves, and the slots and the permits, which all share, *)
(* by counting who comes and who leaves.                                   *)
(***************************************************************************)
EXTENDS Generation, WellFoundedInduction, FiniteSetTheorems, SequenceTheorems, TLAPS

-----------------------------------------------------------------------------
(* The next claim to verify *)

(* The smaller of two naturals comes first in an order in which every set  *)
(* of naturals has a first one.                                            *)
LEMMA NatOrder ==
  \E R : IsWellFoundedOn(R, Nat) /\ \A x, y \in Nat : y < x => <<y, x>> \in R
<1> DEFINE Less == OpToRel(<, Nat)
<1>1. IsWellFoundedOn(Less, Nat)
  BY NatLessThanWellFounded
<1>2. \A x, y \in Nat : y < x => <<y, x>> \in Less
  BY DEF OpToRel
<1> HIDE DEF Less
<1>3. QED
  BY <1>1, <1>2

(* Any set of naturals has a least one. *)
LEMMA Smallest ==
  ASSUME NEW T \in SUBSET Nat, T # {}
  PROVE  \E m \in T : \A n \in T : m <= n
<1>1. PICK R : IsWellFoundedOn(R, Nat) /\ \A x, y \in Nat : y < x => <<y, x>> \in R
  BY NatOrder
<1>2. PICK m \in T : \A y \in T : <<y, m>> \notin R
  BY <1>1, WFMin
<1>3. ASSUME NEW n \in T
      PROVE  m <= n
  <2>1. ~(n < m)
    BY <1>1, <1>2
  <2>2. QED
    BY <2>1
<1>4. QED
  BY <1>3

(* While claims are pending the next one to verify is one of them: they    *)
(* are verified in the order of their sentences, and one of them is first. *)
LEMMA NextClaimPending ==
  ASSUME NEW r \in Requests, Pending(r) # {}
  PROVE  NextClaim(r) \in Pending(r) /\ NextClaim(r) \in Claims
<1> DEFINE T == {c.sentence : c \in Pending(r)}
<1>1. Pending(r) \subseteq Claims
  BY DEF Pending, ClaimsIn
<1>2. T \in SUBSET Nat /\ T # {}
  BY <1>1, SizesAssumption DEF Claims
<1>3. PICK m \in T : \A n \in T : m <= n
  BY <1>2, Smallest
<1>4. PICK c \in Pending(r) : c.sentence = m
  OBVIOUS
<1>5. \A d \in Pending(r) : c.sentence <= d.sentence
  BY <1>3, <1>4
<1>6. NextClaim(r) \in Pending(r)
  BY <1>4, <1>5 DEF NextClaim
<1>7. QED
  BY <1>1, <1>6

-----------------------------------------------------------------------------
(* The type invariant *)

(* The requests begin within their types. *)
LEMMA InitTyped == Init => TypeOK
BY SizesAssumption DEF Init, TypeOK, Places, Answers, Claims

(* What a request drops when a stream, a call or a pass of it ends leaves  *)
(* its variables within their types.                                       *)
LEMMA DropsKeepTypes ==
  ASSUME TypeOK, NEW r \in Requests
  PROVE  /\ DropStream(r) => text' \in [Requests -> 0 .. 3 * Sentences]
                             /\ emitted' \in [Requests -> SUBSET Claims]
         /\ DropCounters(r) => /\ tries' \in [Requests -> 0..Attempts]
                               /\ calls' \in [Requests -> Nat]
                               /\ budget' \in [Requests -> 0..MaxRepairs]
                               /\ shaped' \in [Requests -> SUBSET Shapes]
         /\ Abandon(r) => /\ thread' \in [Requests -> {"none", "queued", "running"}]
                          /\ orphans' \in [{"queued", "running"} -> Nat]
<1>1. DropStream(r) => text' \in [Requests -> 0 .. 3 * Sentences]
                             /\ emitted' \in [Requests -> SUBSET Claims]
  BY SizesAssumption, SMTT(30) DEF TypeOK, DropStream
<1>2. DropCounters(r) => /\ tries' \in [Requests -> 0..Attempts]
                               /\ calls' \in [Requests -> Nat]
                               /\ budget' \in [Requests -> 0..MaxRepairs]
                               /\ shaped' \in [Requests -> SUBSET Shapes]
  BY SizesAssumption, SMTT(30) DEF TypeOK, DropCounters
<1>3. Abandon(r) => /\ thread' \in [Requests -> {"none", "queued", "running"}]
                          /\ orphans' \in [{"queued", "running"} -> Nat]
  BY SizesAssumption, SMTT(30) DEF TypeOK, Abandon
<1>4. QED BY <1>1, <1>2, <1>3

(* So does a failure. *)
LEMMA FailKeepsTypes ==
  ASSUME TypeOK, NEW r \in Requests, Fail(r)
  PROVE  TypeOK'
<1>1. verified' \in [Requests -> Seq(Claims)]
  BY EmptySeq DEF Fail, DropLocals, TypeOK
<1>2. /\ pc' \in [Requests -> Places] /\ holders' \subseteq Requests
      /\ answer' \in [Requests -> Answers]
  BY DEF Fail, Goto, LeaveSlot, DropLocals, TypeOK, Places, Answers
<1>3. QED
  BY <1>1, <1>2, DropsKeepTypes DEF Fail, DropLocals, TypeOK

(* So does every step of a stream, of its chunks and of their              *)
(* verification.                                                           *)
LEMMA StreamingKeepsTypes ==
  ASSUME TypeOK, NEW r \in Requests, Streaming(r)
  PROVE  TypeOK'
<1> USE SizesAssumption
<1>1. CASE Chunk(r)
  BY <1>1, SMTT(30) DEF Chunk, TypeOK, callVars, shapeVars, poolVars
<1>2. CASE StartScoring(r)
  BY <1>2 DEF StartScoring, TypeOK, streamVars, callVars, shapeVars
<1>3. CASE ThreadStarts(r)
  BY <1>3 DEF ThreadStarts, TypeOK, streamVars, callVars, shapeVars
<1>4. CASE ClaimScored(r)
  <2>1. NextClaim(r) \in Claims
    BY <1>4, NextClaimPending DEF ClaimScored
  <2>2. verified' \in [Requests -> Seq(Claims)]
    <3> DEFINE v == IF NextClaim(r) \in supported
                    THEN Append(verified[r], NextClaim(r)) ELSE verified[r]
    <3>1. verified[r] \in Seq(Claims)
      BY DEF TypeOK
    <3>2. v \in Seq(Claims)
      BY <2>1, <3>1, AppendProperties
    <3>3. verified' = [verified EXCEPT ![r] = v]
      BY <1>4 DEF ClaimScored, Verdict
    <3> HIDE DEF v
    <3>4. QED
      BY <3>2, <3>3 DEF TypeOK
  <2>3. emitted' \in [Requests -> SUBSET Claims]
    BY <1>4, <2>1 DEF ClaimScored, Verdict, TypeOK
  <2>4. QED
    BY <1>4, <2>2, <2>3 DEF ClaimScored, TypeOK, callVars, shapeVars
<1>5. CASE StreamEnds(r)
  <2>1. verified' \in [Requests -> Seq(Claims)]
    BY <1>5, EmptySeq DEF StreamEnds, TypeOK
  <2>2. /\ pc' \in [Requests -> Places] /\ answer' \in [Requests -> Answers]
        /\ tries' \in [Requests -> 0..Attempts] /\ calls' \in [Requests -> Nat]
    BY <1>5, SMTT(30) DEF StreamEnds, Goto, TypeOK, Places, Answers
  <2>3. QED
    BY <1>5, <2>1, <2>2, DropsKeepTypes DEF StreamEnds, TypeOK, shapeVars, poolVars
<1>6. CASE StreamTimesOut(r)
  <2>1. /\ pc' \in [Requests -> Places] /\ answer' \in [Requests -> Answers]
        /\ truncated' \in [Requests -> BOOLEAN]
        /\ tries' \in [Requests -> 0..Attempts] /\ calls' \in [Requests -> Nat]
    BY <1>6, SMTT(30) DEF StreamTimesOut, Goto, TypeOK, Places, Answers
  <2>2. QED
    BY <1>6, <2>1, DropsKeepTypes DEF StreamTimesOut, TypeOK, shapeVars
<1>7. CASE StreamTimesOutEmpty(r)
  <2>1. /\ pc' \in [Requests -> Places] /\ answer' \in [Requests -> Answers]
        /\ holders' \subseteq Requests
    BY <1>7 DEF StreamTimesOutEmpty, Goto, LeaveSlot, TypeOK, Places, Answers
  <2>2. QED
    BY <1>7, <2>1, DropsKeepTypes DEF StreamTimesOutEmpty, TypeOK, shapeVars, callVars
<1>8. CASE StreamFails(r)
  BY <1>8, FailKeepsTypes DEF StreamFails
<1>9. QED
  BY <1>1, <1>2, <1>3, <1>4, <1>5, <1>6, <1>7, <1>8 DEF Streaming

(* So does every step of a call that is not streamed. *)
LEMMA CallingKeepsTypes ==
  ASSUME TypeOK, NEW r \in Requests, Calling(r), pc[r] = "repair" => budget[r] > 0
  PROVE  TypeOK'
<1> USE SizesAssumption
<1>1. CASE RetryCall(r)
  <2>1. tries[r] + 1 \in 0..Attempts /\ calls[r] + 1 \in Nat
    BY <1>1, SMTT(30) DEF RetryCall, TypeOK
  <2>2. tries' \in [Requests -> 0..Attempts] /\ calls' \in [Requests -> Nat]
    BY <1>1, <2>1 DEF RetryCall, TypeOK
  <2>3. QED
    BY <1>1, <2>2 DEF RetryCall, TypeOK, streamVars, shapeVars, poolVars
<1>2. CASE CallTimesOut(r)
  BY <1>2 DEF CallTimesOut, Goto, LeaveSlot, TypeOK, Places, Answers, streamVars, callVars, shapeVars, poolVars
<1>3. CASE CallFails(r)
  BY <1>3, FailKeepsTypes DEF CallFails
<1>4. CASE Classified(r)
  BY <1>4 DEF Classified, Goto, LeaveSlot, TypeOK, Places, Answers, streamVars, callVars, shapeVars, poolVars
<1>5. CASE Invoked(r)
  <2>1. /\ pc' \in [Requests -> Places] /\ holders' \subseteq Requests
        /\ answer' \in [Requests -> Answers]
    BY <1>5 DEF Invoked, Goto, LeaveSlot, TypeOK, Places, Answers
  <2>2. QED
    BY <1>5, <2>1 DEF Invoked, TypeOK, streamVars, callVars, shapeVars, poolVars
<1>6. CASE Repaired(r)
  <2>1. budget[r] - 1 \in 0..MaxRepairs
    BY <1>6 DEF Repaired, TypeOK
  <2>2. /\ pc' \in [Requests -> Places] /\ holders' \subseteq Requests
        /\ answer' \in [Requests -> Answers] /\ budget' \in [Requests -> 0..MaxRepairs]
    BY <1>6, <2>1 DEF Repaired, Goto, LeaveSlot, TypeOK, Places, Answers
  <2>3. QED
    BY <1>6, <2>2 DEF Repaired, TypeOK, streamVars, callVars, poolVars
<1>7. QED
  BY <1>1, <1>2, <1>3, <1>4, <1>5, <1>6 DEF Calling

(* So does every step between the calls. *)
LEMMA DecidingKeepsTypes ==
  ASSUME TypeOK, NEW r \in Requests, Deciding(r)
  PROVE  TypeOK'
<1> USE SizesAssumption DEF Goto, streamVars, callVars, shapeVars, poolVars
<1>1. CASE Extract(r)
  BY <1>1 DEF Extract, TypeOK, Places, Answers
<1>2. CASE Ask(r)
  BY <1>2 DEF Ask, TypeOK, Places
<1>3. CASE EnterSlot(r)
  <2>1. pc' \in [Requests -> Places]
    BY <1>3 DEF EnterSlot, TypeOK, Places
  <2>2. /\ tries' \in [Requests -> 0..Attempts] /\ holders' \subseteq Requests
    BY <1>3, SMTT(30) DEF EnterSlot, TypeOK
  <2>3. calls[r] + 1 \in Nat
    BY DEF TypeOK
  <2>4. calls' \in [Requests -> Nat]
    BY <1>3, <2>3 DEF EnterSlot, TypeOK
  <2>5. QED
    BY <1>3, <2>1, <2>2, <2>4 DEF EnterSlot, TypeOK
<1>4. CASE Shed(r)
  BY <1>4, FailKeepsTypes DEF Shed
<1>5. CASE KeepAnswer(r)
  BY <1>5 DEF KeepAnswer, TypeOK, Places
<1>6. CASE QuoteCanonical(r)
  BY <1>6 DEF QuoteCanonical, TypeOK, Places, Answers
<1>7. CASE RaiseTimeout(r)
  BY <1>7, FailKeepsTypes DEF RaiseTimeout
<1>8. CASE StartRepair(r)
  <2>1. PICK s \in Shapes : shaped' = [shaped EXCEPT ![r] = @ \cup {s}]
    BY <1>8 DEF StartRepair
  <2>2. shaped' \in [Requests -> SUBSET Shapes] /\ pc' \in [Requests -> Places]
    BY <1>8, <2>1 DEF StartRepair, TypeOK, Places
  <2>3. QED
    BY <1>8, <2>2 DEF StartRepair, TypeOK
<1>9. CASE ShapesDone(r)
  BY <1>9 DEF ShapesDone, TypeOK, Places
<1>10. CASE Aligned(r)
  <2>1. /\ pc' \in [Requests -> Places]
        /\ thread' \in [Requests -> {"none", "queued", "running"}]
    BY <1>10 DEF Aligned, TypeOK, Places
  <2>2. QED
    BY <1>10, <2>1, DropsKeepTypes DEF Aligned, TypeOK
<1>11. CASE AlignmentFails(r)
  <2>1. /\ pc' \in [Requests -> Places]
        /\ thread' \in [Requests -> {"none", "queued", "running"}]
        /\ answer' \in [Requests -> Answers]
    BY <1>11 DEF AlignmentFails, DropLocals, TypeOK, Places, Answers
  <2>2. verified' \in [Requests -> Seq(Claims)]
    BY <1>11, EmptySeq DEF AlignmentFails, DropLocals, TypeOK
  <2>3. QED
    BY <1>11, <2>1, <2>2, DropsKeepTypes DEF AlignmentFails, DropLocals, TypeOK
<1>12. QED
  BY <1>1, <1>2, <1>3, <1>4, <1>5, <1>6, <1>7, <1>8, <1>9, <1>10, <1>11 DEF Deciding

(* So do a new pass, a cancellation and the threads that were left behind. *)
LEMMA OthersKeepTypes ==
  ASSUME TypeOK, OrphanStarts \/ OrphanEnds \/ \E r \in Requests : NextPass(r) \/ Cancel(r)
  PROVE  TypeOK'
<1> USE SizesAssumption DEF streamVars, callVars, shapeVars, poolVars
<1>1. CASE OrphanStarts
  BY <1>1 DEF OrphanStarts, TypeOK
<1>2. CASE OrphanEnds
  BY <1>2 DEF OrphanEnds, TypeOK
<1>3. ASSUME NEW r \in Requests, NextPass(r)
      PROVE  TypeOK'
  <2>1. /\ pc' \in [Requests -> Places] /\ pass' \in [Requests -> 1..MaxPasses]
        /\ answer' \in [Requests -> Answers]
    BY <1>3, SMTT(30) DEF NextPass, Goto, DropLocals, TypeOK, Places, Answers
  <2>2. verified' \in [Requests -> Seq(Claims)]
    BY <1>3, EmptySeq DEF NextPass, DropLocals, TypeOK
  <2>3. QED
    BY <1>3, <2>1, <2>2, DropsKeepTypes DEF NextPass, DropLocals, TypeOK
<1>4. ASSUME NEW r \in Requests, Cancel(r)
      PROVE  TypeOK'
  BY <1>4, FailKeepsTypes DEF Cancel
<1>5. QED
  BY <1>1, <1>2, <1>3, <1>4

-----------------------------------------------------------------------------
(* What a request has of its own *)

(* Answers that are copied from the evidence. *)
Quoted == {"extracted", "canonical"}

(* A pass begins without an answer, without verified claims and with all   *)
(* its repairs; and only a live request streams.                           *)
Fresh(r) ==
    /\ pc[r] \in {"start", "slot", "stream", "invoke"} => answer[r] = "none"
    /\ pc[r] \in {"start", "slot"} => verified[r] = <<>>
    /\ pc[r] \notin {"shape", "repair_slot", "repair", "align"} => budget[r] = MaxRepairs
    /\ pc[r] = "stream" => live[r]

(* Text copied from the evidence never comes to a repair, and a repair     *)
(* under way was within the budget.                                        *)
Reshaped(r) ==
    /\ pc[r] \in {"classify", "repair_slot", "repair"} => answer[r] \notin Quoted
    /\ pc[r] \in {"repair_slot", "repair"} => budget[r] > 0

(* Verified claims are supported, and a partial answer has some, of a      *)
(* stream that was truncated.                                              *)
Kept(r) ==
    /\ \A i \in DOMAIN verified[r] : verified[r][i] \in supported
    /\ answer[r] = "partial" => truncated[r] /\ verified[r] # <<>>

(* The stream of a live request, which is one call. *)
Streams(r) == IF live[r] THEN 1 ELSE 0
(* The calls that were allowed so far: the stream, the attempts of one     *)
(* generation and those of the repairs used.                               *)
Allowed(r) == Streams(r) + Attempts * (1 + MaxRepairs - budget[r])

(* The calls that were made, by where the request is: the attempts of a    *)
(* call under way come on top of what was allowed before it.               *)
Counted(r) ==
    /\ pc[r] \in {"start", "slot", "generated", "failed"} => calls[r] = 0
    /\ pc[r] = "stream" => calls[r] = 1
    /\ pc[r] \in {"classify", "invoke"} => calls[r] <= Streams(r) + tries[r]
    /\ pc[r] \in {"fallback", "shape", "repair_slot", "align"} => calls[r] <= Allowed(r)
    /\ pc[r] = "repair" => calls[r] <= Allowed(r) + tries[r]

(* What a request has of its own. *)
Own(r) == <<live[r], pc[r], verified[r], tries[r], calls[r], answer[r], truncated[r], budget[r]>>

(* The invariant of one request. *)
LocalInv(r) == Fresh(r) /\ Reshaped(r) /\ Kept(r) /\ Counted(r)

(* A step of a request leaves what others have of their own as it is. *)
LEMMA OthersUnmoved ==
  ASSUME TypeOK, NEW r \in Requests, Progress(r) \/ NextPass(r) \/ Cancel(r)
  PROVE  supported' = supported /\ \A s \in Requests \ {r} : Own(s)' = Own(s)
<1> USE DEF Own, TypeOK, Fail, DropLocals, DropCounters, Goto
<1>1. CASE Streaming(r)
  BY <1>1, SMTT(30) DEF Streaming, Chunk, StartScoring, ThreadStarts, ClaimScored, Verdict, StreamEnds,
     StreamTimesOut, StreamTimesOutEmpty, StreamFails, streamVars, callVars, shapeVars
<1>2. CASE Calling(r)
  BY <1>2, SMTT(30) DEF Calling, RetryCall, CallTimesOut, CallFails, Classified, Invoked, Repaired,
     streamVars, callVars, shapeVars
<1>3. CASE Deciding(r)
  BY <1>3, SMTT(30) DEF Deciding, Extract, Ask, EnterSlot, Shed, KeepAnswer, QuoteCanonical, RaiseTimeout,
     StartRepair, ShapesDone, Aligned, AlignmentFails, streamVars, callVars, shapeVars
<1>4. CASE NextPass(r) \/ Cancel(r)
  BY <1>4, SMTT(30) DEF NextPass, Cancel
<1>5. QED
  BY <1>1, <1>2, <1>3, <1>4 DEF Progress

(* A request that does not move keeps its invariant. *)
LEMMA UnmovedKept ==
  ASSUME NEW s, Own(s)' = Own(s), supported' = supported, LocalInv(s)
  PROVE  LocalInv(s)'
BY DEF LocalInv, Fresh, Reshaped, Kept, Counted, Streams, Allowed, Own

(* A request that fails keeps its invariant. *)
LEMMA FailLocal ==
  ASSUME TypeOK, NEW r \in Requests, Fail(r)
  PROVE  LocalInv(r)'
BY SizesAssumption DEF TypeOK, Fail, DropLocals, DropCounters, Goto,
   LocalInv, Fresh, Reshaped, Kept, Counted

(* The calls allowed grow by the attempts of one generation with every     *)
(* repair that is used, and at most to the budget of the pass.             *)
LEMMA Allowance ==
  ASSUME TypeOK, NEW r \in Requests
  PROVE  /\ Streams(r) \in 0..1 /\ Allowed(r) \in Nat
         /\ Allowed(r) >= Streams(r) + Attempts
         /\ Allowed(r) <= Streams(r) + Attempts * (1 + MaxRepairs)
         /\ budget[r] > 0 => Allowed(r) + Attempts = Streams(r) + Attempts * (1 + MaxRepairs - (budget[r] - 1))
<1> DEFINE n == 1 + MaxRepairs - budget[r]
<1>1. /\ n \in 1 .. 1 + MaxRepairs /\ Streams(r) \in 0..1 /\ Attempts \in Nat
      /\ 1 + MaxRepairs - (budget[r] - 1) = n + 1
  BY SizesAssumption, SMTT(30) DEF TypeOK, Streams
<1>2. \A a, m \in Nat : m >= 1 => a * m \in Nat /\ a * m >= a
  OBVIOUS
<1>3. \A a, m, k \in Nat : m <= k => a * m <= a * k
  OBVIOUS
<1>4. \A a, m \in Nat : a * (m + 1) = a * m + a
  OBVIOUS
<1>5. Attempts * n \in Nat /\ Attempts * n >= Attempts
  BY <1>1, <1>2
<1>6. Attempts * n <= Attempts * (1 + MaxRepairs)
  BY <1>1, <1>3, SizesAssumption
<1>7. Attempts * (n + 1) = Attempts * n + Attempts
  BY <1>1, <1>4
<1>8. Attempts * (1 + MaxRepairs) \in Nat
  BY SizesAssumption
<1>9. Allowed(r) = Streams(r) + Attempts * n
  BY DEF Allowed
<1> HIDE DEF n
<1>10. QED
  BY <1>1, <1>5, <1>6, <1>7, <1>8, <1>9

(* A step of the stream keeps the invariant of its request. *)
LEMMA StreamingLocal ==
  ASSUME TypeOK, NEW r \in Requests, Streaming(r), LocalInv(r)
  PROVE  LocalInv(r)'
<1> USE SizesAssumption DEF LocalInv
<1>1. /\ Streams(r) \in 0..1 /\ Allowed(r) \in Nat /\ Allowed(r) >= Streams(r) + Attempts
      /\ calls[r] \in Nat /\ tries[r] \in 0..Attempts
  BY Allowance DEF TypeOK
<1>2. CASE Chunk(r)
  <2>1. Own(r)' = Own(r) /\ supported' = supported
    BY <1>2 DEF Chunk, Own, callVars, shapeVars
  <2>2. QED
    BY <2>1, UnmovedKept
<1>3. CASE StartScoring(r) \/ ThreadStarts(r)
  <2>1. Own(r)' = Own(r) /\ supported' = supported
    BY <1>3 DEF StartScoring, ThreadStarts, Own, streamVars, callVars, shapeVars
  <2>2. QED
    BY <2>1, UnmovedKept
<1>4. CASE ClaimScored(r)
  <2>1. Fresh(r)' /\ Reshaped(r)' /\ Counted(r)'
    BY <1>4 DEF ClaimScored, Fresh, Reshaped, Counted, callVars, shapeVars
  <2>2. Kept(r)'
    BY <1>4, AppendProperties, SMTT(30) DEF ClaimScored, Verdict, Fresh, Kept, TypeOK, callVars, shapeVars
  <2>3. QED
    BY <2>1, <2>2
<1>5. CASE StreamEnds(r)
  BY <1>5 DEF StreamEnds, Goto, Fresh, Reshaped, Kept, Counted, Quoted, Streams, TypeOK, shapeVars
<1>6. CASE StreamTimesOut(r)
  BY <1>6 DEF StreamTimesOut, Goto, Fresh, Reshaped, Kept, Counted, Quoted, Streams, TypeOK, shapeVars
<1>7. CASE StreamTimesOutEmpty(r)
  <2>1. Fresh(r)' /\ Reshaped(r)' /\ Kept(r)'
    BY <1>7 DEF StreamTimesOutEmpty, Goto, Fresh, Reshaped, Kept, TypeOK, shapeVars
  <2>2. calls[r] = 1 /\ Streams(r) = 1 /\ Allowed(r)' = Allowed(r) /\ calls' = calls
    BY <1>7 DEF StreamTimesOutEmpty, Fresh, Counted, Streams, Allowed, shapeVars, callVars
  <2>3. QED
    BY <1>7, <2>1, <2>2, <1>1 DEF StreamTimesOutEmpty, Goto, Counted, TypeOK
<1>8. CASE StreamFails(r)
  BY <1>8, FailLocal DEF StreamFails
<1>9. QED
  BY <1>2, <1>3, <1>4, <1>5, <1>6, <1>7, <1>8 DEF Streaming

(* So does a step of a call: a retry is within the attempts. *)
LEMMA CallingLocal ==
  ASSUME TypeOK, NEW r \in Requests, Calling(r), LocalInv(r)
  PROVE  LocalInv(r)'
<1> USE SizesAssumption DEF LocalInv, streamVars, callVars, shapeVars
<1>1. /\ Streams(r) \in 0..1 /\ Allowed(r) \in Nat /\ Allowed(r) >= Streams(r) + Attempts
      /\ calls[r] \in Nat /\ tries[r] \in 0..Attempts
  BY Allowance DEF TypeOK
<1>2. CASE RetryCall(r)
  <2>1. Fresh(r)' /\ Reshaped(r)' /\ Kept(r)'
    BY <1>2 DEF RetryCall, Fresh, Reshaped, Kept
  <2>2. Streams(r)' = Streams(r) /\ Allowed(r)' = Allowed(r)
    BY <1>2 DEF RetryCall, Streams, Allowed
  <2>3. QED
    BY <1>2, <2>1, <2>2, <1>1, SMTT(30) DEF RetryCall, ModelCalls, Counted, TypeOK
<1>3. CASE CallTimesOut(r)
  <2>1. Fresh(r)' /\ Reshaped(r)' /\ Kept(r)'
    BY <1>3 DEF CallTimesOut, Goto, Fresh, Reshaped, Kept, TypeOK
  <2>2. Allowed(r)' = Allowed(r)
    BY <1>3 DEF CallTimesOut, Streams, Allowed
  <2>3. QED
    BY <1>3, <2>1, <2>2, <1>1 DEF CallTimesOut, Goto, Counted, TypeOK
<1>4. CASE CallFails(r)
  BY <1>4, FailLocal DEF CallFails
<1>5. CASE Classified(r)
  <2>1. Fresh(r)' /\ Reshaped(r)' /\ Kept(r)'
    BY <1>5 DEF Classified, Goto, Fresh, Reshaped, Kept, TypeOK
  <2>2. Allowed(r)' = Allowed(r)
    BY <1>5 DEF Classified, Streams, Allowed
  <2>3. QED
    BY <1>5, <2>1, <2>2, <1>1, SMTT(30) DEF Classified, Goto, Counted, TypeOK
<1>6. CASE Invoked(r)
  <2>1. Fresh(r)' /\ Reshaped(r)' /\ Kept(r)'
    BY <1>6 DEF Invoked, Goto, Fresh, Reshaped, Kept, TypeOK
  <2>2. Allowed(r)' = Allowed(r)
    BY <1>6 DEF Invoked, Streams, Allowed
  <2>3. QED
    BY <1>6, <2>1, <2>2, <1>1, SMTT(30) DEF Invoked, Goto, Counted, TypeOK
<1>7. CASE Repaired(r)
  <2>1. Fresh(r)' /\ Reshaped(r)' /\ Kept(r)'
    BY <1>7 DEF Repaired, Goto, Fresh, Reshaped, Kept, TypeOK
  <2>2. budget[r] > 0 /\ Allowed(r)' = Streams(r) + Attempts * (1 + MaxRepairs - (budget[r] - 1))
    BY <1>7 DEF Repaired, Reshaped, Streams, Allowed, TypeOK
  <2>3. Allowed(r)' = Allowed(r) + Attempts
    BY <2>2, Allowance
  <2>4. QED
    BY <1>7, <2>1, <2>3, <1>1, SMTT(30) DEF Repaired, Goto, Counted, TypeOK
<1>8. QED
  BY <1>2, <1>3, <1>4, <1>5, <1>6, <1>7 DEF Calling

(* So does a step between the calls: a repair uses one of the budget. *)
LEMMA DecidingLocal ==
  ASSUME TypeOK, NEW r \in Requests, Deciding(r), LocalInv(r)
  PROVE  LocalInv(r)'
<1> USE SizesAssumption DEF LocalInv, Goto, streamVars, callVars, shapeVars
<1> DEFINE Framed == Streams(r)' = Streams(r) /\ Allowed(r)' = Allowed(r)
<1>1. /\ Streams(r) \in 0..1 /\ Allowed(r) \in Nat /\ Allowed(r) >= Streams(r) + Attempts
      /\ calls[r] \in Nat /\ tries[r] \in 0..Attempts
  BY Allowance DEF TypeOK
<1>2. CASE Extract(r)
  <2>1. Fresh(r)' /\ Reshaped(r)' /\ Kept(r)'
    BY <1>2 DEF Extract, Fresh, Reshaped, Kept, TypeOK
  <2>2. Framed
    BY <1>2 DEF Extract, Streams, Allowed
  <2>3. QED
    BY <1>2, <2>1, <2>2, <1>1 DEF Extract, Counted, TypeOK
<1>3. CASE Ask(r)
  BY <1>3 DEF Ask, Fresh, Reshaped, Kept, Counted, TypeOK
<1>4. CASE EnterSlot(r)
  <2>1. \/ pc[r] = "repair_slot" /\ pc'[r] = "repair"
        \/ pc[r] = "slot" /\ live[r] /\ pc'[r] = "stream"
        \/ pc[r] = "slot" /\ ~live[r] /\ pc'[r] = "invoke"
    BY <1>4 DEF EnterSlot, TypeOK
  <2>2. Fresh(r)' /\ Reshaped(r)' /\ Kept(r)'
    BY <1>4, <2>1 DEF EnterSlot, Fresh, Reshaped, Kept, TypeOK
  <2>3. Framed
    BY <1>4 DEF EnterSlot, Streams, Allowed
  <2>4. tries'[r] = 1 /\ calls'[r] = calls[r] + 1
    BY <1>4 DEF EnterSlot, TypeOK
  <2>5. QED
    BY <2>1, <2>2, <2>3, <2>4, <1>1, SMTT(30) DEF Counted, TypeOK
<1>5. CASE Shed(r)
  BY <1>5, FailLocal DEF Shed
<1>6. CASE KeepAnswer(r)
  BY <1>6, Allowance DEF KeepAnswer, Fresh, Reshaped, Kept, Counted, Streams, Allowed, TypeOK
<1>7. CASE QuoteCanonical(r)
  BY <1>7, Allowance DEF QuoteCanonical, Fresh, Reshaped, Kept, Counted, Streams, Allowed, TypeOK
<1>8. CASE RaiseTimeout(r)
  BY <1>8, FailLocal DEF RaiseTimeout
<1>9. CASE StartRepair(r)
  BY <1>9 DEF StartRepair, Deterministic, Quoted, Fresh, Reshaped, Kept, Counted, Streams, Allowed, TypeOK
<1>10. CASE ShapesDone(r)
  BY <1>10 DEF ShapesDone, Fresh, Reshaped, Kept, Counted, Streams, Allowed, TypeOK
<1>11. CASE Aligned(r)
  BY <1>11 DEF Aligned, DropCounters, Fresh, Reshaped, Kept, Counted, TypeOK
<1>12. CASE AlignmentFails(r)
  BY <1>12 DEF AlignmentFails, DropLocals, DropCounters, Fresh, Reshaped, Kept, Counted, TypeOK
<1>13. QED
  BY <1>2, <1>3, <1>4, <1>5, <1>6, <1>7, <1>8, <1>9, <1>10, <1>11, <1>12 DEF Deciding

(* So does a new pass, which begins with nothing. *)
LEMMA NextPassLocal ==
  ASSUME TypeOK, NEW r \in Requests, NextPass(r), LocalInv(r)
  PROVE  LocalInv(r)'
BY DEF NextPass, Goto, DropLocals, DropCounters, LocalInv, Fresh, Reshaped, Kept, Counted, TypeOK

-----------------------------------------------------------------------------
(* The model slots *)

(* The slots are held by those inside a call, and are finitely many. *)
SlotInv == SlotHeldWhileModelWorks /\ IsFiniteSet(holders)

(* A step takes a slot when there is one left, gives it back on its way    *)
(* out of a call, or stays inside or outside of one.                       *)
LEMMA SlotMoves ==
  ASSUME TypeOK, NEW r \in Requests, Progress(r) \/ NextPass(r) \/ Cancel(r)
  PROVE  \/ holders' = holders /\ (pc'[r] \in UnderSlot <=> pc[r] \in UnderSlot)
         \/ LeaveSlot(r) /\ pc'[r] \notin UnderSlot
         \/ /\ Cardinality(holders) < Slots /\ holders' = holders \cup {r}
            /\ pc[r] \notin UnderSlot /\ pc'[r] \in UnderSlot
<1> USE DEF TypeOK, UnderSlot, ModelCalls, Goto, Fail
<1>1. CASE Streaming(r)
  BY <1>1 DEF Streaming, Chunk, StartScoring, ThreadStarts, ClaimScored, StreamEnds,
     StreamTimesOut, StreamTimesOutEmpty, StreamFails
<1>2. CASE Calling(r)
  BY <1>2 DEF Calling, RetryCall, CallTimesOut, CallFails, Classified, Invoked, Repaired
<1>3. CASE EnterSlot(r)
  BY <1>3 DEF EnterSlot
<1>4. CASE Deciding(r) /\ ~EnterSlot(r)
  BY <1>4 DEF Deciding, Extract, Ask, Shed, KeepAnswer, QuoteCanonical, RaiseTimeout,
     StartRepair, ShapesDone, Aligned, AlignmentFails
<1>5. CASE NextPass(r) \/ Cancel(r)
  BY <1>5 DEF NextPass, Cancel
<1>6. QED
  BY <1>1, <1>2, <1>3, <1>4, <1>5 DEF Progress

(* However a call ends, its slot is given back. *)
LEMMA SlotsKept ==
  ASSUME TypeOK, TypeOK', SlotInv, NEW r \in Requests, Progress(r) \/ NextPass(r) \/ Cancel(r)
  PROVE  SlotInv'
<1>1. \A s \in Requests \ {r} : pc'[s] = pc[s]
  BY OthersUnmoved DEF Own
<1>2. CASE holders' = holders /\ (pc'[r] \in UnderSlot <=> pc[r] \in UnderSlot)
  BY <1>1, <1>2 DEF SlotInv, SlotHeldWhileModelWorks
<1>3. CASE LeaveSlot(r) /\ pc'[r] \notin UnderSlot
  <2>1. holders' = {s \in Requests : pc'[s] \in UnderSlot}
    BY <1>1, <1>3 DEF SlotInv, SlotHeldWhileModelWorks, LeaveSlot
  <2>2. IsFiniteSet(holders') /\ Cardinality(holders') <= Cardinality(holders)
    BY <1>3, FS_Subset DEF SlotInv, LeaveSlot
  <2>3. Cardinality(holders) \in Nat /\ Cardinality(holders') \in Nat
    BY <2>2, FS_CardinalityType DEF SlotInv
  <2>4. QED
    BY <2>1, <2>2, <2>3, SizesAssumption DEF SlotInv, SlotHeldWhileModelWorks
<1>4. CASE /\ Cardinality(holders) < Slots /\ holders' = holders \cup {r}
           /\ pc[r] \notin UnderSlot /\ pc'[r] \in UnderSlot
  <2>1. holders' = {s \in Requests : pc'[s] \in UnderSlot}
    BY <1>1, <1>4 DEF SlotInv, SlotHeldWhileModelWorks
  <2>2. r \notin holders
    BY <1>4 DEF SlotInv, SlotHeldWhileModelWorks
  <2>3. IsFiniteSet(holders') /\ Cardinality(holders') = Cardinality(holders) + 1
    BY <1>4, <2>2, FS_AddElement DEF SlotInv
  <2>4. Cardinality(holders) \in Nat
    BY FS_CardinalityType DEF SlotInv
  <2>5. QED
    BY <1>4, <2>1, <2>3, <2>4, SizesAssumption DEF SlotInv, SlotHeldWhileModelWorks
<1>5. QED
  BY <1>2, <1>3, <1>4, SlotMoves

-----------------------------------------------------------------------------
(* The permits of the accelerator *)

(* The requests whose verification runs in a thread. *)
Scoring == {r \in Requests : thread[r] = "running"}
(* The running threads are within the accelerator, those left behind       *)
(* included, and finitely many.                                            *)
PoolInv == AcceleratorBounded /\ IsFiniteSet(Scoring)

(* A step starts a thread that was admitted, leaves it behind, ends it or  *)
(* has it wait, or does not touch the threads.                             *)
LEMMA PoolMoves ==
  ASSUME TypeOK, NEW r \in Requests, Progress(r) \/ NextPass(r) \/ Cancel(r)
  PROVE  \/ ThreadStarts(r)
         \/ Abandon(r)
         \/ \E t \in {"none", "queued"} : thread' = [thread EXCEPT ![r] = t] /\ orphans' = orphans
         \/ UNCHANGED poolVars
<1> USE DEF Fail, poolVars
<1>1. CASE Streaming(r)
  BY <1>1 DEF Streaming, Chunk, StartScoring, ClaimScored, StreamEnds,
     StreamTimesOut, StreamTimesOutEmpty, StreamFails
<1>2. CASE Calling(r)
  BY <1>2 DEF Calling, RetryCall, CallTimesOut, CallFails, Classified, Invoked, Repaired
<1>3. CASE Deciding(r)
  BY <1>3 DEF Deciding, Extract, Ask, EnterSlot, Shed, KeepAnswer, QuoteCanonical, RaiseTimeout,
     StartRepair, ShapesDone, Aligned, AlignmentFails
<1>4. CASE NextPass(r) \/ Cancel(r)
  BY <1>4 DEF NextPass, Cancel
<1>5. QED
  BY <1>1, <1>2, <1>3, <1>4 DEF Progress

(* The threads that run are those of requests and those left behind. *)
LEMMA PoolCounts ==
  ASSUME TypeOK, PoolInv
  PROVE  /\ Running = Cardinality(Scoring) + orphans["running"]
         /\ Cardinality(Scoring) \in Nat /\ orphans["running"] \in Nat /\ orphans["queued"] \in Nat
         /\ Running <= Capacity
BY FS_CardinalityType DEF Running, Scoring, PoolInv, AcceleratorBounded, TypeOK

(* No step of a request lets one thread too many run: one that is left     *)
(* behind is counted among the orphans from then on.                       *)
LEMMA PoolKept ==
  ASSUME TypeOK, PoolInv, NEW r \in Requests, Progress(r) \/ NextPass(r) \/ Cancel(r)
  PROVE  PoolInv'
<1> USE SizesAssumption
<1> DEFINE Bounded == Cardinality(Scoring)' + orphans'["running"] <= Capacity
<1>1. Bounded /\ IsFiniteSet(Scoring)' => PoolInv'
  BY DEF PoolInv, AcceleratorBounded, Scoring
<1>2. CASE ThreadStarts(r)
  <2>1. Scoring' = Scoring \cup {r} /\ r \notin Scoring
    BY <1>2 DEF ThreadStarts, Scoring, TypeOK
  <2>2. IsFiniteSet(Scoring') /\ Cardinality(Scoring') = Cardinality(Scoring) + 1
    BY <2>1, FS_AddElement DEF PoolInv
  <2>3. QED
    BY <1>2, <1>1, <2>2, PoolCounts DEF ThreadStarts
<1>3. CASE Abandon(r)
  <2>1. CASE thread[r] = "running"
    <3>1. Scoring' = Scoring \ {r} /\ r \in Scoring
      BY <1>3, <2>1 DEF Abandon, Scoring, TypeOK
    <3>2. IsFiniteSet(Scoring') /\ Cardinality(Scoring') = Cardinality(Scoring) - 1
      BY <3>1, FS_RemoveElement DEF PoolInv
    <3>3. orphans'["running"] = orphans["running"] + 1
      BY <1>3, <2>1 DEF Abandon, TypeOK
    <3>4. QED
      BY <1>1, <3>2, <3>3, PoolCounts
  <2>2. CASE thread[r] # "running"
    <3>1. Scoring' = Scoring /\ orphans'["running"] = orphans["running"]
      BY <1>3, <2>2 DEF Abandon, Scoring, TypeOK
    <3>2. QED
      BY <1>1, <3>1, PoolCounts DEF PoolInv
  <2>3. QED
    BY <2>1, <2>2
<1>4. ASSUME NEW t \in {"none", "queued"}, thread' = [thread EXCEPT ![r] = t] /\ orphans' = orphans
      PROVE  PoolInv'
  <2>1. Scoring' \subseteq Scoring
    BY <1>4 DEF Scoring, TypeOK
  <2>2. IsFiniteSet(Scoring') /\ Cardinality(Scoring') <= Cardinality(Scoring)
    BY <2>1, FS_Subset DEF PoolInv
  <2>3. Cardinality(Scoring') \in Nat
    BY <2>2, FS_CardinalityType
  <2>4. QED
    BY <1>1, <1>4, <2>2, <2>3, PoolCounts
<1>5. CASE UNCHANGED poolVars
  BY <1>5 DEF poolVars, PoolInv, AcceleratorBounded, Scoring
<1>6. QED
  BY <1>2, <1>3, <1>4, <1>5, PoolMoves

(* A thread left behind starts within the bound, and ends. *)
LEMMA OrphansKept ==
  ASSUME TypeOK, PoolInv, OrphanStarts \/ OrphanEnds
  PROVE  PoolInv'
<1>1. Scoring' = Scoring
  BY DEF OrphanStarts, OrphanEnds, Scoring
<1>2. \/ Running < Capacity /\ orphans'["running"] = orphans["running"] + 1
      \/ orphans'["running"] = orphans["running"] - 1
  BY DEF OrphanStarts, OrphanEnds, TypeOK
<1>3. Cardinality(Scoring') + orphans'["running"] <= Capacity
  BY <1>1, <1>2, PoolCounts, SizesAssumption
<1>4. QED
  BY <1>1, <1>3 DEF PoolInv, AcceleratorBounded, Scoring

-----------------------------------------------------------------------------
(* The inductive invariant *)

(* The inductive invariant. That the slots are those of the requests       *)
(* inside a call, the threads those running or left behind, and the calls  *)
(* within what was allowed so far is more than the properties ask, and is  *)
(* what their preservation needs.                                          *)
GenerationInv == TypeOK /\ SlotInv /\ PoolInv /\ \A r \in Requests : LocalInv(r)

(* The service begins with nothing held. *)
LEMMA GenerationInvInit == Init => GenerationInv
<1> SUFFICES ASSUME Init
             PROVE  GenerationInv
  OBVIOUS
<1>1. TypeOK
  BY InitTyped
<1>2. SlotInv
  BY FS_EmptySet, SizesAssumption DEF Init, SlotInv, SlotHeldWhileModelWorks, UnderSlot, ModelCalls
<1>3. Scoring = {} /\ orphans["running"] = 0
  BY DEF Init, Scoring
<1>4. PoolInv
  <2>1. IsFiniteSet(Scoring) /\ Cardinality(Scoring) = 0
    BY <1>3, FS_EmptySet
  <2>2. Cardinality(Scoring) + orphans["running"] <= Capacity
    BY <1>3, <2>1, SizesAssumption
  <2>3. QED
    BY <2>1, <2>2 DEF PoolInv, AcceleratorBounded, Scoring
<1>5. \A r \in Requests : LocalInv(r)
  BY DEF Init, LocalInv, Fresh, Reshaped, Kept, Counted
<1>6. QED
  BY <1>1, <1>2, <1>4, <1>5 DEF GenerationInv

(* Every step keeps the inductive invariant. *)
LEMMA GenerationInvStep == GenerationInv /\ [Next]_vars => GenerationInv'
<1> SUFFICES ASSUME GenerationInv, [Next]_vars
             PROVE  GenerationInv'
  OBVIOUS
<1>1. ASSUME NEW r \in Requests, Progress(r) \/ NextPass(r) \/ Cancel(r)
      PROVE  GenerationInv'
  <2>1. TypeOK'
    <3>1. CASE Streaming(r)
      BY <3>1, StreamingKeepsTypes DEF GenerationInv
    <3>2. CASE Calling(r)
      BY <3>2, CallingKeepsTypes DEF GenerationInv, LocalInv, Reshaped
    <3>3. CASE Deciding(r)
      BY <3>3, DecidingKeepsTypes DEF GenerationInv
    <3>4. CASE NextPass(r) \/ Cancel(r)
      BY <3>4, OthersKeepTypes DEF GenerationInv
    <3>5. QED
      BY <1>1, <3>1, <3>2, <3>3, <3>4 DEF Progress
  <2>2. SlotInv' /\ PoolInv'
    BY <1>1, <2>1, SlotsKept, PoolKept DEF GenerationInv
  <2>3. \A s \in Requests \ {r} : LocalInv(s)'
    BY <1>1, OthersUnmoved, UnmovedKept DEF GenerationInv
  <2>4. LocalInv(r)'
    BY <1>1, StreamingLocal, CallingLocal, DecidingLocal, NextPassLocal, FailLocal
    DEF GenerationInv, Progress, Cancel
  <2>5. QED
    BY <2>1, <2>2, <2>3, <2>4 DEF GenerationInv
<1>2. CASE OrphanStarts \/ OrphanEnds
  <2>1. TypeOK' /\ PoolInv'
    BY <1>2, OthersKeepTypes, OrphansKept DEF GenerationInv
  <2>2. SlotInv'
    BY <1>2 DEF OrphanStarts, OrphanEnds, GenerationInv, SlotInv, SlotHeldWhileModelWorks
  <2>3. supported' = supported /\ \A r \in Requests : Own(r)' = Own(r)
    BY <1>2 DEF OrphanStarts, OrphanEnds, Own, streamVars, callVars, shapeVars
  <2>4. QED
    BY <2>1, <2>2, <2>3, UnmovedKept DEF GenerationInv
<1>3. CASE UNCHANGED vars
  <2>1. TypeOK' /\ SlotInv'
    BY <1>3 DEF vars, streamVars, callVars, shapeVars, poolVars, GenerationInv, TypeOK, SlotInv,
       SlotHeldWhileModelWorks
  <2>2. PoolInv'
    BY <1>3 DEF vars, poolVars, GenerationInv, PoolInv, AcceleratorBounded, Scoring
  <2>3. supported' = supported /\ \A r \in Requests : Own(r)' = Own(r)
    BY <1>3 DEF vars, Own, streamVars, callVars, shapeVars
  <2>4. QED
    BY <2>1, <2>2, <2>3, UnmovedKept DEF GenerationInv
<1>4. QED
  BY <1>1, <1>2, <1>3 DEF Next, Server

(* The inductive invariant holds throughout. *)
LEMMA GenerationInvariant == Spec => []GenerationInv
BY GenerationInvInit, GenerationInvStep, PTL DEF Spec

-----------------------------------------------------------------------------
(* The theorems *)

(* What was allowed so far is within the budget of the pass. *)
LEMMA CountedWithinBudget ==
  ASSUME GenerationInv
  PROVE  CallsWithinBudget
<1> SUFFICES ASSUME NEW r \in Requests
             PROVE  calls[r] <= Streams(r) + Attempts * (1 + MaxRepairs)
  BY DEF CallsWithinBudget, Streams
<1> DEFINE most == Attempts * (1 + MaxRepairs)
<1>1. TypeOK /\ LocalInv(r)
  BY DEF GenerationInv
<1>2. /\ Streams(r) \in 0..1 /\ Allowed(r) \in Nat /\ Allowed(r) >= Streams(r) + Attempts
      /\ Allowed(r) <= Streams(r) + most
      /\ calls[r] \in Nat /\ tries[r] \in 0..Attempts /\ Attempts \in Nat \ {0} /\ most \in Nat
  BY <1>1, Allowance, SizesAssumption, SMTT(30) DEF TypeOK
<1>3. pc[r] = "repair" => Allowed(r) + Attempts <= Streams(r) + most
  <2> SUFFICES ASSUME pc[r] = "repair"
               PROVE  Allowed(r) + Attempts <= Streams(r) + most
    OBVIOUS
  <2>1. budget[r] \in 1..MaxRepairs
    BY <1>1 DEF LocalInv, Reshaped, TypeOK
  <2>2. Allowed(r) + Attempts = Streams(r) + Attempts * (1 + MaxRepairs - (budget[r] - 1))
    BY <1>1, <2>1, Allowance, SizesAssumption
  <2>3. \A a, m, k \in Nat : m <= k => a * m <= a * k
    OBVIOUS
  <2>4. 1 + MaxRepairs - (budget[r] - 1) \in Nat /\ 1 + MaxRepairs - (budget[r] - 1) <= 1 + MaxRepairs
    BY <2>1, SizesAssumption
  <2>5. Attempts * (1 + MaxRepairs - (budget[r] - 1)) <= most
    BY <2>3, <2>4, SizesAssumption
  <2>6. Attempts * (1 + MaxRepairs - (budget[r] - 1)) \in Nat
    BY <2>4, SizesAssumption
  <2> HIDE DEF most
  <2>7. QED
    BY <1>2, <2>2, <2>5, <2>6
<1> HIDE DEF most
<1>4. pc[r] \in Places
  BY <1>1 DEF TypeOK
<1>5. calls[r] <= Streams(r) + most
  BY <1>1, <1>2, <1>3, <1>4, SMTT(30) DEF LocalInv, Counted, Places, Fresh, Streams
<1>6. QED
  BY <1>5 DEF most

(* A model slot is held by the requests inside a call and by no other, the *)
(* threads that verify, with those that timed-out requests left behind,    *)
(* stay within the accelerator, and a pass makes no more model calls than  *)
(* config.py budgets, whatever times out, fails or is cancelled (llm.py:   *)
(* _model_slot, accelerator.py).                                           *)
THEOREM ResourcesAreKept == Spec => []ResourcesKept
<1>1. GenerationInv => ResourcesKept
  BY CountedWithinBudget DEF GenerationInv, SlotInv, PoolInv, ResourcesKept
<1>2. QED
  BY <1>1, GenerationInvariant, PTL

(* What is released of a stream that timed out holds verified, supported   *)
(* claims only, and says it is truncated (llm.py: answer, answering.py:    *)
(* verify_and_publish).                                                    *)
THEOREM PartialAnswersAreVerified == Spec => []PartialIsVerified
<1>1. GenerationInv => PartialIsVerified
  BY DEF GenerationInv, LocalInv, Kept, PartialIsVerified
<1>2. QED
  BY <1>1, GenerationInvariant, PTL

(* Text copied from the evidence stays as it is until it is dropped. *)
LEMMA QuotesKeptStep ==
  ASSUME GenerationInv, [Next]_vars
  PROVE  \A s \in Requests : answer[s] \in Quoted => answer'[s] \in {answer[s], "none"}
<1>1. ASSUME NEW r \in Requests, Progress(r) \/ NextPass(r) \/ Cancel(r), answer[r] \in Quoted
      PROVE  answer'[r] \in {answer[r], "none"}
  <2> USE DEF TypeOK, Quoted, Fail, DropLocals
  <2>1. TypeOK /\ Fresh(r) /\ Reshaped(r)
    BY DEF GenerationInv, LocalInv
  <2>2. CASE Streaming(r)
    BY <1>1, <2>1, <2>2 DEF Streaming, Chunk, StartScoring, ThreadStarts, ClaimScored, StreamEnds,
       StreamTimesOut, StreamTimesOutEmpty, StreamFails, Fresh
  <2>3. CASE Calling(r)
    BY <1>1, <2>1, <2>3 DEF Calling, RetryCall, CallTimesOut, CallFails, Classified, Invoked,
       Repaired, Fresh, Reshaped
  <2>4. CASE Deciding(r)
    BY <1>1, <2>1, <2>4 DEF Deciding, Extract, Ask, EnterSlot, Shed, KeepAnswer, QuoteCanonical,
       RaiseTimeout, StartRepair, ShapesDone, Aligned, AlignmentFails, Fresh, Unusable
  <2>5. CASE NextPass(r) \/ Cancel(r)
    BY <2>1, <2>5 DEF NextPass, Cancel
  <2>6. QED
    BY <1>1, <2>2, <2>3, <2>4, <2>5 DEF Progress
<1>2. ASSUME NEW r \in Requests, Progress(r) \/ NextPass(r) \/ Cancel(r), NEW s \in Requests \ {r}
      PROVE  answer'[s] = answer[s]
  BY <1>2, OthersUnmoved DEF Own, GenerationInv
<1>3. CASE UNCHANGED vars \/ OrphanStarts \/ OrphanEnds
  BY <1>3 DEF vars, OrphanStarts, OrphanEnds
<1>4. QED
  BY <1>1, <1>2, <1>3 DEF Next, Server

(* Text copied from the evidence is never handed to the model to be        *)
(* reshaped or repaired (answering.py: _generate).                         *)
THEOREM QuotesAreNeverRewritten == Spec => ExtractedNeverRewritten
<1>1. GenerationInv /\ [Next]_vars =>
        [\A r \in Requests : answer[r] \in {"extracted", "canonical"} =>
            answer'[r] \in {answer[r], "none"}]_vars
  BY QuotesKeptStep DEF Quoted
<1>2. QED
  BY <1>1, GenerationInvariant, PTL DEF Spec, ExtractedNeverRewritten
=============================================================================
