-------------------------- MODULE OutputGate_proofs --------------------------
(***************************************************************************)
(* Proofs about OutputGate, for every set of claims.                       *)
(***************************************************************************)
EXTENDS OutputGate, TLAPS

-----------------------------------------------------------------------------
(* The inductive invariant *)

Tolerated == {"none", "REQUESTED_COVERAGE_INCOMPLETE"}
AnyAnswer == [outcome: {"none", "ANSWER", "REFUSAL"}, claims: SUBSET Claims, notes: SUBSET Notes]

Typed ==
    /\ pc \in {"gate", "coverage", "verdict", "respond", "done"}
    /\ answer \in AnyAnswer /\ request \in Requests
    /\ Answered => pc = "done"

(* What the workflow counted as covered is still there, or the removal of   *)
(* the claim that named it is noted.                                        *)
Counted ==
    checked => \A ask \in Asks :
        request.expected[ask] \ answer.claims \subseteq missing[ask] \/ "removed" \in answer.notes

(* What has gone past the notes has its incomplete coverage disclosed, and  *)
(* what has gone past the verdict has no other failure.                     *)
Judged ==
    /\ pc \in {"verdict", "respond"} /\ Releasable /\ Incomplete => partial
    /\ pc = "respond" /\ Releasable => FailureReason(answer) \in Tolerated

(* What was answered is what was judged. *)
Released ==
    Answered =>
        /\ FailureReason(answer) \in Tolerated
        /\ Incomplete => response.coverage = "PARTIAL"
        /\ response.coverage = "COMPLETE" => answer.notes = {}
        /\ response.claims = answer.claims

ReleaseInv == Typed /\ Counted /\ Judged /\ Released

-----------------------------------------------------------------------------
(* What validate_output says *)

(* The failure that is reported depends on the claims alone.                *)
LEMMA SameClaims ==
    ASSUME NEW a, NEW b, a.claims = b.claims
    PROVE  FailureReason(a) = FailureReason(b)
BY DEF FailureReason, DerivationsOk, SupportOk, InvalidClaims

(* An answer without a failure comes from clean sources, is supported and   *)
(* covers what was asked.                                                   *)
LEMMA NoFailure ==
    ASSUME NEW a, FailureReason(a) = "none"
    PROVE  CoverageOk /\ InvalidClaims(a) = {}
<1>1. CoverageOk /\ DerivationsOk(a) /\ SupportOk(a)
  BY DEF FailureReason
<1> QED
  BY <1>1 DEF DerivationsOk, SupportOk, InvalidClaims

(* A tolerated failure is one of coverage, of clean sources.                *)
LEMMA ToleratedFailure ==
    ASSUME NEW a, FailureReason(a) \in Tolerated
    PROVE  /\ docs.permitted /\ docs.inScope /\ ~docs.conflict /\ docs.fresh
           /\ FailureReason(a) # "none" => ~CoverageOk
BY DEF FailureReason, Tolerated

-----------------------------------------------------------------------------
(* The steps *)

(* The gate starts with what the workflow counted.                          *)
LEMMA InitReleaseInv == Init => ReleaseInv
<1> SUFFICES ASSUME Init PROVE ReleaseInv
  OBVIOUS
<1>1. ~Answered /\ pc = "gate"
  BY DEF Init, Answered, NoResponse
<1>2. answer \in AnyAnswer
  BY DEF Init, AnyAnswer, Answers, NoAnswer, Notes
<1>3. Counted
  BY DEF Init, Counted
<1> QED
  BY <1>1, <1>2, <1>3 DEF Init, ReleaseInv, Typed, Judged, Released

(* Removing claims is noted.                                                *)
LEMMA PruneStep ==
    ASSUME ReleaseInv, Prune
    PROVE  ReleaseInv'
<1> USE DEF ReleaseInv, Typed
<1>1. pc' = "coverage" /\ UNCHANGED <<fixed, grounded, partial, response>>
  BY DEF Prune
<1>2. answer' = answer \/ answer' = Pruned
  BY DEF Prune
<1>3. Pruned \in AnyAnswer /\ "removed" \in Pruned.notes
  BY DEF Pruned, AnyAnswer, Notes
<1>4. ~Answered'
  BY <1>1 DEF Prune, Answered
<1>5. Counted'
  BY <1>1, <1>2, <1>3 DEF Counted, fixed
<1> QED
  BY <1>1, <1>2, <1>3, <1>4, <1>5 DEF Judged, Released, fixed

(* The notes leave the claims alone.                                        *)
LEMMA NoteStep ==
    ASSUME ReleaseInv, NoteCoverage
    PROVE  ReleaseInv'
<1> USE DEF ReleaseInv, Typed
<1>1. /\ pc' = "verdict" /\ UNCHANGED <<docs, request, kind, cited, checked, missing, grounded, response>>
      /\ partial' = (partial \/ CoverageUnknown \/ Incomplete)
  BY DEF NoteCoverage, fixed
<1>2. /\ answer' \in AnyAnswer /\ answer'.claims = answer.claims
      /\ answer.notes \subseteq answer'.notes
  BY DEF NoteCoverage, AnyAnswer, Notes
<1>3. FailureReason(answer') = FailureReason(answer)
  BY <1>2, SameClaims
<1>4. FailureReason(answer)' = FailureReason(answer')
  BY <1>1 DEF FailureReason, DerivationsOk, SupportOk, InvalidClaims, CoverageOk
<1>5. Incomplete' => partial'
  BY <1>1, <1>3, <1>4 DEF Incomplete
<1>6. ~Answered'
  BY <1>1 DEF NoteCoverage, Answered
<1>7. Counted'
  BY <1>1, <1>2 DEF Counted
<1> QED
  BY <1>1, <1>2, <1>5, <1>6, <1>7 DEF Judged, Released

(* An answer with another failure is not releasable any more.               *)
LEMMA VerdictStep ==
    ASSUME ReleaseInv, Verdict
    PROVE  ReleaseInv'
<1> USE DEF ReleaseInv, Typed
<1>1. pc' = "respond" /\ UNCHANGED <<docs, request, kind, cited, checked, missing, answer, partial, response>>
  BY DEF Verdict, fixed
<1>2. FailureReason(answer)' = FailureReason(answer)
  BY <1>1 DEF FailureReason, DerivationsOk, SupportOk, InvalidClaims, CoverageOk
<1>3. Releasable' => FailureReason(answer) \in Tolerated /\ Releasable
  BY <1>1 DEF Verdict, Releasable, Tolerated
<1>4. ~Answered'
  BY <1>1 DEF Verdict, Answered
<1>5. Counted'
  BY <1>1 DEF Counted
<1> QED
  BY <1>1, <1>2, <1>3, <1>4, <1>5 DEF Judged, Released, Incomplete, Verdict

(* The response is made of the answer as it was judged.                     *)
LEMMA RespondStep ==
    ASSUME ReleaseInv, Answer \/ Refuse
    PROVE  ReleaseInv'
<1> USE DEF ReleaseInv, Typed
<1>1. pc = "respond" /\ pc' = "done"
      /\ UNCHANGED <<docs, request, kind, cited, checked, missing, answer, grounded, partial>>
  BY DEF Answer, Refuse, fixed
<1>2. FailureReason(answer)' = FailureReason(answer)
  BY <1>1 DEF FailureReason, DerivationsOk, SupportOk, InvalidClaims, CoverageOk
<1>3. Counted'
  BY <1>1 DEF Counted
<1>4. CASE Answer
  <2>1. Releasable /\ response'.claims = answer.claims
        /\ response'.coverage = IF partial \/ answer.notes # {} THEN "PARTIAL" ELSE "COMPLETE"
    BY <1>4 DEF Answer
  <2> QED
    BY <1>1, <1>2, <1>3, <2>1 DEF Judged, Released, Incomplete
<1>5. CASE Refuse
  <2>1. response'.status = RefusalStatus /\ RefusalStatus # "ANSWERED"
    BY <1>5 DEF Refuse, RefusalStatus
  <2> QED
    BY <1>1, <1>3, <2>1 DEF Judged, Released, Answered
<1> QED
  BY <1>4, <1>5

(* Every step keeps the invariant.                                          *)
LEMMA NextReleaseInv == ReleaseInv /\ [Next]_vars => ReleaseInv'
<1> SUFFICES ASSUME ReleaseInv, [Next]_vars PROVE ReleaseInv'
  OBVIOUS
<1>1. CASE GateSkipped
  <2>1. pc' = "respond" /\ ~Releasable' /\ UNCHANGED <<request, checked, missing, answer, response>>
    BY <1>1 DEF GateSkipped, Releasable, fixed
  <2>2. ~Answered'
    BY <1>1, <2>1 DEF GateSkipped, ReleaseInv, Typed, Answered
  <2> QED
    BY <2>1, <2>2 DEF ReleaseInv, Typed, Counted, Judged, Released
<1>2. CASE Ended \/ UNCHANGED vars
  <2>1. UNCHANGED <<pc, docs, request, kind, cited, checked, missing, answer, grounded, reason, partial, response>>
    BY <1>2 DEF Ended, vars, fixed
  <2>2. FailureReason(answer)' = FailureReason(answer)
    BY <2>1 DEF FailureReason, DerivationsOk, SupportOk, InvalidClaims, CoverageOk
  <2> QED
    BY <2>1, <2>2 DEF ReleaseInv, Typed, Counted, Judged, Released, Incomplete, Releasable, Answered
<1> QED
  BY <1>1, <1>2, PruneStep, NoteStep, VerdictStep, RespondStep DEF Next

-----------------------------------------------------------------------------
(* The theorems *)

(* What is judged, noted and released is as ReleaseInv has it.              *)
THEOREM ReleaseInvariant == Spec => []ReleaseInv
<1>1. QED
  BY InitReleaseInv, NextReleaseInv, PTL DEF Spec

(* Nothing is answered from sources that fail a policy, are out of scope,   *)
(* in conflict or not dated.                                                *)
THEOREM OnlyCleanSourcesAnswer == Spec => []AnsweredOnlyFromCleanSources
<1>1. ReleaseInv => AnsweredOnlyFromCleanSources
  BY ToleratedFailure DEF ReleaseInv, Released, AnsweredOnlyFromCleanSources
<1>2. QED
  BY <1>1, ReleaseInvariant, PTL

(* An unsupported claim is only in an answer that says it is partial,       *)
(* because its coverage failed.                                             *)
THEOREM OnlyIncompleteHidesClaims == Spec => []UnsupportedOnlyIfIncomplete
<1>1. ReleaseInv => UnsupportedOnlyIfIncomplete
  <2> SUFFICES ASSUME ReleaseInv, Answered, InvalidClaims(answer) # {}
               PROVE  ~CoverageOk /\ response.coverage = "PARTIAL"
    BY DEF UnsupportedOnlyIfIncomplete
  <2>1. FailureReason(answer) \in Tolerated /\ FailureReason(answer) # "none"
    BY NoFailure DEF ReleaseInv, Released
  <2> QED
    BY <2>1, ToleratedFailure DEF ReleaseInv, Released, Incomplete, Tolerated
<1>2. QED
  BY <1>1, ReleaseInvariant, PTL

(* A checked answer that says it is complete has every member of the list   *)
(* that was asked for, whatever the gate removed.                           *)
THEOREM CompleteIsCovered == Spec => []CompleteMeansCovered
<1>1. ReleaseInv => CompleteMeansCovered
  <2> DEFINE ask == IF "fields" \in request.asks THEN "fields" ELSE "items"
  <2> SUFFICES ASSUME ReleaseInv, Answered, checked, response.coverage = "COMPLETE",
                      ask \in request.asks
               PROVE  request.expected[ask] \subseteq response.claims
    BY DEF CompleteMeansCovered
  <2>1. FailureReason(answer) = "none"
    BY DEF ReleaseInv, Released, Incomplete, Tolerated
  <2>2. CoverageOk
    BY <2>1, NoFailure
  <2>3. missing[ask] = {}
    BY <2>2 DEF CoverageOk
  <2>4. answer.notes = {} /\ response.claims = answer.claims
    BY DEF ReleaseInv, Released
  <2>5. request.expected[ask] \ answer.claims \subseteq missing[ask]
    BY <2>4 DEF ReleaseInv, Counted, Asks
  <2> QED
    BY <2>3, <2>4, <2>5
<1>2. QED
  BY <1>1, ReleaseInvariant, PTL
=============================================================================
