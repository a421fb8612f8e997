----------------------------- MODULE OutputGate -----------------------------
(***************************************************************************)
(* The release decision for one finished graph state: apply_output_gate of *)
(* workflow_support/fail_closed.py with validate_output of                 *)
(* grounding_contract.py, and the response _response_from_state builds     *)
(* from what the gate leaves.                                              *)
(*                                                                         *)
(* An answer is the set of its material claims.  What the documents are    *)
(* (permitted, in scope, in conflict, dated) is fixed when the gate runs;  *)
(* a requested identifier or field is identified with the claim that names *)
(* it.                                                                     *)
(***************************************************************************)
EXTENDS FiniteSets

CONSTANT Claims

VARIABLES
    pc,
    docs,            \* facts about state["documents"]
    request,         \* what the question asked for, and what it named
    kind,            \* claim -> direct, inferred with a rule, or without
    cited,           \* claims whose markers index a document of the list
    answer,          \* state["generated"], or NoAnswer
    grounded,        \* FALSE iff state["grounded"] is False
    reason,          \* state["grounding_reason"]
    checked,         \* verify_grounding ran the verifier on this very answer
    missing,         \* state["coverage_missing"] and "coverage_missing_fields"
    partial,         \* state["coverage_partial"]
    response

fixed == <<docs, request, kind, cited, checked, missing>>
vars == <<pc, fixed, answer, grounded, reason, partial, response>>

-----------------------------------------------------------------------------
Kinds == {"direct", "derived", "ruleless"}
Asks == {"items", "fields"}

(* found: the list is not empty; the rest is said of its documents.         *)
Documents == [found: BOOLEAN, permitted: BOOLEAN, inScope: BOOLEAN,
              conflict: BOOLEAN, fresh: BOOLEAN]

(* asks: completeness.all_items and all_fields; expected: the identifiers   *)
(* and fields known to be asked for; mismatch: entity_mismatch_requested.   *)
Requests == [asks: SUBSET Asks, expected: [Asks -> SUBSET Claims], mismatch: BOOLEAN]

Notes == {"removed", "shortfall", "unknown"}
NoAnswer == [outcome |-> "none", claims |-> {}, notes |-> {}]
Answers == [outcome: {"ANSWER", "REFUSAL"}, claims: SUBSET Claims, notes: SUBSET Notes]

GateReasons == {"PERMISSIONS_NOT_SATISFIED", "SOURCE_SCOPE_VIOLATION",
                "UNRESOLVED_SOURCE_CONFLICT", "FRESHNESS_NOT_VERIFIABLE",
                "REQUESTED_COVERAGE_INCOMPLETE", "INVALID_DERIVATION",
                "UNSUPPORTED_CLAIM"}
Reasons == GateReasons \cup {"none", "INCOMPLETE_EVIDENCE", "verdict"}

NoResponse == [status |-> "none", reason |-> "none", claims |-> {},
               sources |-> "none", coverage |-> "none"]

-----------------------------------------------------------------------------
(* validate_output *)

InvalidClaims(a) == {c \in a.claims : c \notin cited \/ kind[c] = "ruleless"}
DerivationsOk(a) == \A c \in a.claims : kind[c] = "direct" \/ c \notin InvalidClaims(a)
SupportOk(a) == a.claims \subseteq cited

(* The workflow's own coverage result decides, not the answer: _generate    *)
(* leaves one with every draft but a route refusal, which is never grounded,*)
(* so the comparison validate_output falls back on is not reached from here.*)
CoverageOk_NeverFields == "items" \notin request.asks \/ missing["items"] = {}

CoverageOk ==
    IF "fields" \in request.asks THEN missing["fields"] = {}
    ELSE "items" \notin request.asks \/ missing["items"] = {}

FailureReason_CoverageFirst(a) ==
    IF ~docs.permitted THEN "PERMISSIONS_NOT_SATISFIED"
    ELSE IF ~docs.inScope THEN "SOURCE_SCOPE_VIOLATION"
    ELSE IF ~CoverageOk THEN "REQUESTED_COVERAGE_INCOMPLETE"
    ELSE IF docs.conflict THEN "UNRESOLVED_SOURCE_CONFLICT"
    ELSE IF ~docs.fresh THEN "FRESHNESS_NOT_VERIFIABLE"
    ELSE IF ~DerivationsOk(a) THEN "INVALID_DERIVATION"
    ELSE IF ~SupportOk(a) THEN "UNSUPPORTED_CLAIM"
    ELSE "none"

FailureReason_NoDerivation(a) ==
    IF ~docs.permitted THEN "PERMISSIONS_NOT_SATISFIED"
    ELSE IF ~docs.inScope THEN "SOURCE_SCOPE_VIOLATION"
    ELSE IF docs.conflict THEN "UNRESOLVED_SOURCE_CONFLICT"
    ELSE IF ~docs.fresh THEN "FRESHNESS_NOT_VERIFIABLE"
    ELSE IF ~CoverageOk THEN "REQUESTED_COVERAGE_INCOMPLETE"
    ELSE IF ~SupportOk(a) THEN "UNSUPPORTED_CLAIM"
    ELSE "none"

FailureReason(a) ==
    IF ~docs.permitted THEN "PERMISSIONS_NOT_SATISFIED"
    ELSE IF ~docs.inScope THEN "SOURCE_SCOPE_VIOLATION"
    ELSE IF docs.conflict THEN "UNRESOLVED_SOURCE_CONFLICT"
    ELSE IF ~docs.fresh THEN "FRESHNESS_NOT_VERIFIABLE"
    ELSE IF ~CoverageOk THEN "REQUESTED_COVERAGE_INCOMPLETE"
    ELSE IF ~DerivationsOk(a) THEN "INVALID_DERIVATION"
    ELSE IF ~SupportOk(a) THEN "UNSUPPORTED_CLAIM"
    ELSE "none"

-----------------------------------------------------------------------------
(* A state the graph can end in.  An entity mismatch withdraws every        *)
(* document.  A result verify_grounding checked has claims whose citations  *)
(* it read and a coverage result of its own.  An unchecked one (accepted by *)
(* a deterministic comparison, by grounding_verification_enabled = False,   *)
(* or left over from a pass whose documents were replaced) has the one of   *)
(* _generate, which a citation repair may have made stale since.            *)
Init ==
    /\ pc = "gate"
    /\ docs \in Documents /\ request \in Requests
    /\ kind \in [Claims -> Kinds] /\ cited \in SUBSET Claims
    /\ answer \in {NoAnswer} \cup {a \in Answers : a.notes = {}}
    /\ grounded \in BOOLEAN
    /\ reason \in {"none", "INCOMPLETE_EVIDENCE", "verdict"}
    /\ checked \in BOOLEAN
    /\ missing \in [Asks -> SUBSET Claims]
    /\ \A ask \in Asks :
          IF checked THEN missing[ask] = request.expected[ask] \ answer.claims
          ELSE missing[ask] \subseteq request.expected[ask]
    /\ partial = FALSE /\ response = NoResponse
    /\ request.mismatch => ~docs.found
    /\ reason # "none" <=> ~grounded
    /\ checked => docs.found /\ answer # NoAnswer
    /\ checked /\ grounded => answer.claims \subseteq cited

Releasable == docs.found /\ answer # NoAnswer /\ grounded

GateSkipped ==
    /\ pc = "gate" /\ ~Releasable
    /\ pc' = "respond"
    /\ UNCHANGED <<fixed, answer, grounded, reason, partial, response>>

Pruned == [answer EXCEPT !.claims = @ \ InvalidClaims(answer), !.notes = @ \cup {"removed"}]

(* A claim without support is removed if any other is left; what the        *)
(* verdict below judges is the answer that remains.                         *)
Prune ==
    /\ pc = "gate" /\ Releasable
    /\ pc' = "coverage"
    /\ answer' = IF /\ FailureReason(answer) \in {"UNSUPPORTED_CLAIM", "INVALID_DERIVATION"}
                    /\ Pruned.claims # {}
                 THEN Pruned ELSE answer
    /\ UNCHANGED <<fixed, grounded, reason, partial, response>>

CoverageUnknown == \E ask \in request.asks : request.expected[ask] = {}

Incomplete == FailureReason(answer) = "REQUESTED_COVERAGE_INCOMPLETE"

(* The missing names the note spells out.                                   *)
NamedMissing == missing[IF "fields" \in request.asks THEN "fields" ELSE "items"]

NoteCoverage ==
    /\ pc = "coverage" /\ pc' = "verdict"
    /\ answer' = [answer EXCEPT !.notes = @ \cup
          IF CoverageUnknown THEN {"unknown"}
          ELSE IF Incomplete /\ NamedMissing # {} THEN {"shortfall"} ELSE {}]
    /\ partial' = (partial \/ CoverageUnknown \/ Incomplete)
    /\ UNCHANGED <<fixed, grounded, reason, response>>

(* Incomplete coverage is disclosed, every other failure refuses.           *)
Verdict ==
    /\ pc = "verdict" /\ pc' = "respond"
    /\ IF FailureReason(answer) \in {"none", "REQUESTED_COVERAGE_INCOMPLETE"}
       THEN UNCHANGED <<grounded, reason>>
       ELSE grounded' = FALSE /\ reason' = FailureReason(answer)
    /\ UNCHANGED <<fixed, answer, partial, response>>

-----------------------------------------------------------------------------
(* _response_from_state *)

Answer ==
    /\ pc = "respond" /\ Releasable
    /\ pc' = "done"
    /\ response' = [status |-> "ANSWERED", reason |-> "none", claims |-> answer.claims,
                    sources |-> "cited",
                    coverage |-> IF partial \/ answer.notes # {} THEN "PARTIAL" ELSE "COMPLETE"]
    /\ UNCHANGED <<fixed, answer, grounded, reason, partial>>

Unverified == docs.found /\ ~grounded /\ reason # "INCOMPLETE_EVIDENCE"

RefusalReason ==
    IF request.mismatch THEN "ENTITY_MISMATCH"
    ELSE IF answer.outcome = "REFUSAL" THEN "TYPED_REFUSAL"
    ELSE IF reason \in GateReasons THEN reason
    ELSE IF Unverified THEN "UNVERIFIED_EVIDENCE"
    ELSE "INSUFFICIENT_EVIDENCE"

RefusalStatus ==
    CASE RefusalReason = "ENTITY_MISMATCH" -> "NEEDS_CLARIFICATION"
      [] RefusalReason = "UNRESOLVED_SOURCE_CONFLICT" -> "SOURCE_CONFLICT"
      [] RefusalReason = "PERMISSIONS_NOT_SATISFIED" -> "ACCESS_DENIED"
      [] OTHER -> "INSUFFICIENT_EVIDENCE"

NamesSources ==
    Unverified /\ RefusalReason \notin {"PERMISSIONS_NOT_SATISFIED", "SOURCE_SCOPE_VIOLATION"}

Refuse ==
    /\ pc = "respond" /\ ~Releasable
    /\ pc' = "done"
    /\ response' = [status |-> RefusalStatus, reason |-> RefusalReason, claims |-> {},
                    sources |-> IF NamesSources THEN "retrieved" ELSE "none",
                    coverage |-> IF docs.found THEN "PARTIAL" ELSE "NOT_APPLICABLE"]
    /\ UNCHANGED <<fixed, answer, grounded, reason, partial>>

Ended == pc = "done" /\ UNCHANGED vars

Next == GateSkipped \/ Prune \/ NoteCoverage \/ Verdict \/ Answer \/ Refuse \/ Ended

Spec == Init /\ [][Next]_vars

-----------------------------------------------------------------------------
(* Properties *)

Answered == response.status = "ANSWERED"

(* README.md: ANSWERED only after the gate checked "selected source scope,  *)
(* access, freshness, conflicts".  The order of the checks, the pruning and *)
(* the tolerated coverage failure never let one of them through.            *)
AnsweredOnlyFromCleanSources ==
    Answered => docs.permitted /\ docs.inScope /\ ~docs.conflict /\ docs.fresh

(* A claim that is not supported passes only behind a coverage failure,     *)
(* which validate_output reports first.                                     *)
UnsupportedOnlyIfIncomplete ==
    Answered /\ InvalidClaims(answer) # {} =>
        ~CoverageOk /\ response.coverage = "PARTIAL"

(* A checked answer to a question for all items, or all fields, of a known  *)
(* list never says COMPLETE with a member missing, also when the gate       *)
(* removed the claim that named it after the workflow had counted it.       *)
CompleteMeansCovered ==
    Answered /\ checked /\ response.coverage = "COMPLETE" =>
        LET ask == IF "fields" \in request.asks THEN "fields" ELSE "items" IN
        ask \in request.asks => request.expected[ask] \subseteq response.claims
=============================================================================
