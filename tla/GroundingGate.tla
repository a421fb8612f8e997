--------------------------- MODULE GroundingGate ---------------------------
(***************************************************************************)
(* The _verify_grounding node of workflow_nodes/answering.py: the last     *)
(* gate a drafted answer passes.  It verifies the draft, prunes what is    *)
(* not supported, has the model rewrite what is left too thin, not         *)
(* supported or off topic, and decides.                                    *)
(*                                                                         *)
(* A draft is the set of its material claims.  Verifying (the local cross  *)
(* encoder) is deterministic for a claim and a document list, so what the  *)
(* evidence supports is fixed at the start; what the language model writes *)
(* is a nondeterministic choice.  One action is the code between two calls *)
(* of the language model, with the verdicts that code awaits.              *)
(***************************************************************************)
EXTENDS Naturals, FiniteSets

CONSTANTS
    Claims,          \* the material sentences an answer can be made of
    MinimumClaims,   \* 2 for PROJECT_OVERVIEW, 1 for every other intent
    Floor            \* answer_sentence_floor(settings, answer_style)

ASSUME MinimumAssumption == MinimumClaims \in 1..2
ASSUME FloorAssumption == Floor \in Nat

VARIABLES
    pc,
    supported,       \* the claims the cited documents entail
    onTopic,         \* the claims that address the resolved question
    required,        \* the claims the question's explicit items ask for
    expected,        \* the claims naming coverage_expected_identifiers
    route,           \* how query_intent has the draft verified
    verifying,       \* the setting grounding_verification_enabled
    draft,           \* state["generated"]
    repaired,        \* state["repaired"]
    grounded, reason,
    rewrites,        \* history: drafts the node asked the model for
    pruned           \* history: the claims removed from the answer

question == <<supported, onTopic, required, expected, route, verifying>>
vars == <<pc, question, draft, repaired, grounded, reason, rewrites, pruned>>

-----------------------------------------------------------------------------
(* Answers *)

Notes == {"removed", "shortfall"}
Routes == {"model", "extract", "inventory"}

Reasons == {"none", "TYPED_REFUSAL", "INSUFFICIENT_ANSWER_SUBSTANCE",
            "AUTHORITY", "EXTRACT_VERIFIED", "INVENTORY_MISMATCH", "DISABLED",
            "SUPPORTED",
            "UNSUPPORTED_CLAIM", "CLAIMS_REMOVED_SUPPORTED",
            "INSUFFICIENT_EVIDENCE", "AFTER_PRUNE_REGENERATED",
            "CLAIMS_REMOVED_REGENERATION_REJECTED", "REPAIRED_SUPPORTED",
            "ANSWER_NOT_RELEVANT", "RELEVANCE_REPAIRED_SUPPORTED"}

(* uncited: the claims without a citation in range; summary: the text says  *)
(* "such as"; notes: what missing_information tells the reader.             *)
Answers == [outcome: {"ANSWER", "REFUSAL"}, claims: SUBSET Claims,
            uncited: SUBSET Claims, summary: BOOLEAN, notes: SUBSET Notes]

(* What one call of the model returns; a refusal may cite claims too. *)
Written == {a \in Answers : a.uncited \subseteq a.claims /\ a.notes = {}}

CitationsValid(a) == a.claims # {} /\ a.uncited = {}
Sound(a) == (a.claims \cap supported) \ a.uncited
Supported(a) == a.claims # {} /\ a.claims = Sound(a)
MissingRequirements(a) == required \ a.claims
CoverageMissing(a) == expected \ a.claims
Addresses(a) == a.claims \cap onTopic # {}
Note_Overwrites(a, n) == [a EXCEPT !.notes = {n}]
Note(a, n) == [a EXCEPT !.notes = @ \cup {n}]

-----------------------------------------------------------------------------
Init ==
    /\ pc = "entry"
    /\ supported \in SUBSET Claims /\ onTopic \in SUBSET Claims
    /\ required \in SUBSET Claims /\ expected \in SUBSET Claims
    /\ route \in Routes /\ verifying \in BOOLEAN
    /\ draft \in Written
    /\ repaired \in BOOLEAN
    /\ grounded = FALSE /\ reason = "none"
    /\ rewrites = 0 /\ pruned = {}

Decided(verdict, code) ==
    /\ pc' = "decided"
    /\ grounded' = verdict
    /\ reason' = code

-----------------------------------------------------------------------------
(* The deterministic checks before the verifier *)

RefuseTyped ==
    /\ pc = "entry" /\ draft.outcome = "REFUSAL"
    /\ Decided(FALSE, "TYPED_REFUSAL")
    /\ UNCHANGED <<question, draft, repaired, rewrites, pruned>>

(* A quote, a heading or the question itself is no answer; a source of the  *)
(* wrong kind is no authority for its intent.                               *)
RefuseSubstanceOrAuthority ==
    /\ pc = "entry" /\ draft.outcome = "ANSWER"
    /\ \E code \in {"INSUFFICIENT_ANSWER_SUBSTANCE", "AUTHORITY"} :
          /\ code = "AUTHORITY" => route # "inventory"
          /\ Decided(FALSE, code)
    /\ UNCHANGED <<question, draft, repaired, rewrites, pruned>>

(* CODE_LOCATION and DELIVERY answers are rebuilt from the documents: equal *)
(* to them, the draft is accepted; else it is verified like any other.      *)
AcceptExtract ==
    /\ pc = "entry" /\ draft.outcome = "ANSWER" /\ route = "extract"
    /\ Supported(draft)
    /\ Decided(TRUE, "EXTRACT_VERIFIED")
    /\ UNCHANGED <<question, draft, repaired, rewrites, pruned>>

(* An inventory matches the titles of its documents or is refused. *)
DecideInventory ==
    /\ pc = "entry" /\ draft.outcome = "ANSWER" /\ route = "inventory"
    /\ \E matches \in BOOLEAN :
          /\ matches => Supported(draft)
          /\ IF matches THEN Decided(TRUE, "EXTRACT_VERIFIED")
                        ELSE Decided(FALSE, "INVENTORY_MISMATCH")
    /\ UNCHANGED <<question, draft, repaired, rewrites, pruned>>

(* With the setting off, a draft that passed the checks above is accepted   *)
(* as it is.                                                                *)
AcceptUnverified ==
    /\ pc = "entry" /\ draft.outcome = "ANSWER" /\ route # "inventory"
    /\ ~verifying
    /\ Decided(TRUE, "DISABLED")
    /\ UNCHANGED <<question, draft, repaired, rewrites, pruned>>

-----------------------------------------------------------------------------
(* Verification, pruning and the rewrites *)

(* Where a draft that is not supported goes: one repair, unless the         *)
(* citations were already repaired.                                         *)
AfterRejection == IF repaired THEN "coverage" ELSE "repair"

Verify ==
    /\ pc = "entry" /\ draft.outcome = "ANSWER" /\ route # "inventory"
    /\ verifying
    /\ IF Supported(draft)
       THEN pc' = "coverage" /\ grounded' = TRUE /\ reason' = "SUPPORTED"
       ELSE pc' = "prune" /\ grounded' = FALSE /\ reason' = "UNSUPPORTED_CLAIM"
    /\ UNCHANGED <<question, draft, repaired, rewrites, pruned>>

(* The draft without the sentences the verifier named, its citations        *)
(* mirrored again from the markers that remain.                             *)
Remainder == [draft EXCEPT !.claims = Sound(draft), !.uncited = {}]

PruneTried ==
    Remainder # draft /\ Cardinality(Remainder.claims) >= MinimumClaims

PruneAllowed_Incomplete == PruneTried

PruneAllowed == PruneTried /\ MissingRequirements(Remainder) = {}

(* unused: some retrieved document is not cited by the remainder.           *)
Prune ==
    /\ pc = "prune" /\ PruneAllowed
    /\ draft' = Note(Remainder, "removed")
    /\ grounded' = TRUE /\ reason' = "CLAIMS_REMOVED_SUPPORTED"
    /\ pruned' = draft.claims \ Remainder.claims
    /\ \E unused \in BOOLEAN :
          pc' = IF unused /\ Cardinality(Remainder.claims) < Floor
                THEN "regenerate" ELSE "coverage"
    /\ UNCHANGED <<question, repaired, rewrites>>

PruneRejected ==
    /\ pc = "prune" /\ ~PruneAllowed
    /\ pc' = AfterRejection
    /\ reason' = IF PruneTried THEN "INSUFFICIENT_EVIDENCE" ELSE reason
    /\ UNCHANGED <<question, draft, repaired, grounded, rewrites, pruned>>

Regenerated_Unverified(a) == CitationsValid(a)

(* A regenerated answer replaces the remainder when it verifies.            *)
Regenerated(a) == CitationsValid(a) /\ Supported(a)

Regenerate ==
    /\ pc = "regenerate" /\ pc' = "coverage"
    /\ rewrites' = rewrites + 1
    /\ \E a \in Written :
          IF Regenerated(a)
          THEN draft' = Note(a, "removed") /\ reason' = "AFTER_PRUNE_REGENERATED"
          ELSE /\ reason' = "CLAIMS_REMOVED_REGENERATION_REJECTED"
               /\ UNCHANGED draft
    /\ UNCHANGED <<question, repaired, grounded, pruned>>

Repair ==
    /\ pc = "repair" /\ pc' = "coverage"
    /\ rewrites' = rewrites + 1
    /\ \E a \in Written :
          IF ~CitationsValid(a)
          THEN UNCHANGED <<draft, grounded, reason>>
          ELSE /\ draft' = a
               /\ grounded' = (Supported(a) /\ MissingRequirements(a) = {})
               /\ reason' = IF grounded' THEN "REPAIRED_SUPPORTED"
                            ELSE IF Supported(a) THEN "INSUFFICIENT_EVIDENCE"
                            ELSE "UNSUPPORTED_CLAIM"
    /\ UNCHANGED <<question, repaired, pruned>>

-----------------------------------------------------------------------------
(* Coverage and topicality *)

Disclosed_Never(a) == a

(* _note_coverage_shortfall *)
Disclosed(a) == IF CoverageMissing(a) # {} THEN Note(a, "shortfall") ELSE a

(* An enumerated population may not be summarised.  *)
Coverage ==
    /\ pc = "coverage" /\ pc' = "relevance"
    /\ draft' = Disclosed(draft)
    /\ IF grounded /\ expected # {} /\ draft.summary
       THEN grounded' = FALSE /\ reason' = "INSUFFICIENT_EVIDENCE"
       ELSE UNCHANGED <<grounded, reason>>
    /\ UNCHANGED <<question, repaired, rewrites, pruned>>

NeedsRelevanceRepair ==
    grounded /\ ~Addresses(draft) /\ reason # "REPAIRED_SUPPORTED"

Relevance ==
    /\ pc = "relevance"
    /\ IF NeedsRelevanceRepair
       THEN pc' = "relevance_repair" /\ UNCHANGED <<grounded, reason>>
       ELSE Decided(grounded /\ Addresses(draft),
                    IF grounded /\ ~Addresses(draft) THEN "ANSWER_NOT_RELEVANT" ELSE reason)
    /\ UNCHANGED <<question, draft, repaired, rewrites, pruned>>

RelevanceRepaired_AnyTopic(a) ==
    /\ CitationsValid(a) /\ Supported(a)
    /\ MissingRequirements(a) = {} /\ CoverageMissing(a) = {}

RelevanceRepaired(a) ==
    /\ CitationsValid(a) /\ Supported(a)
    /\ MissingRequirements(a) = {} /\ CoverageMissing(a) = {}
    /\ Addresses(a)

RelevanceRepair ==
    /\ pc = "relevance_repair"
    /\ rewrites' = rewrites + 1
    /\ \E a \in Written :
          IF RelevanceRepaired(a)
          THEN draft' = a /\ Decided(TRUE, "RELEVANCE_REPAIRED_SUPPORTED")
          ELSE UNCHANGED draft /\ Decided(FALSE, "ANSWER_NOT_RELEVANT")
    /\ UNCHANGED <<question, repaired, pruned>>

(* The model or the cross encoder raises: the request ends in 503. *)
Fail ==
    /\ pc \notin {"decided", "failed"} /\ pc' = "failed"
    /\ UNCHANGED <<question, draft, repaired, grounded, reason, rewrites, pruned>>

Ended == pc \in {"decided", "failed"} /\ UNCHANGED vars

Step ==
    \/ RefuseTyped \/ RefuseSubstanceOrAuthority \/ AcceptExtract
    \/ DecideInventory \/ AcceptUnverified \/ Verify \/ Prune
    \/ PruneRejected \/ Regenerate \/ Repair \/ Coverage \/ Relevance \/ RelevanceRepair

Next == Step \/ Fail \/ Ended

Spec == Init /\ [][Next]_vars
FairSpec == Spec /\ WF_vars(Step)

-----------------------------------------------------------------------------
(* Properties *)

(* The node asks the model for at most two drafts, and for one when it      *)
(* repaired: a repaired answer is never rewritten for relevance.            *)
RewritesBounded ==
    /\ rewrites <= 2
    /\ rewrites = 2 => pruned # {}

TypeOK ==
    /\ pc \in {"entry", "prune", "regenerate", "repair", "coverage",
               "relevance", "relevance_repair", "decided", "failed"}
    /\ supported \subseteq Claims /\ onTopic \subseteq Claims
    /\ required \subseteq Claims /\ expected \subseteq Claims
    /\ route \in Routes /\ verifying \in BOOLEAN
    /\ draft \in Answers /\ draft.uncited \subseteq draft.claims
    /\ repaired \in BOOLEAN /\ grounded \in BOOLEAN
    /\ reason \in Reasons
    /\ RewritesBounded /\ pruned \subseteq Claims

Passed == pc = "decided" /\ grounded
Accepted == Passed /\ reason # "DISABLED"
AcceptedFromModel == Accepted /\ reason # "EXTRACT_VERIFIED"

(* Whatever mixture of pruning and rewriting produced it, an accepted       *)
(* answer has only cited, supported claims, and a model's answer addresses  *)
(* the question; only the setting lets an answer through unverified, and it *)
(* does not excuse an extract or an inventory.                              *)
AcceptedIsGrounded ==
    /\ Passed => Accepted \/ ~verifying
    /\ Accepted => Supported(draft)
    /\ AcceptedFromModel => Addresses(draft)

(* _note_coverage_shortfall: an accepted answer that leaves out a member of *)
(* the population it was asked to list says so.                             *)
ShortfallDisclosed ==
    AcceptedFromModel /\ CoverageMissing(draft) # {} => "shortfall" \in draft.notes

(* An answer the gate made from a draft by removing claims or repairing it  *)
(* still has every item the question asked for; only a draft that never had *)
(* them, or a regeneration, is accepted without; and the gate asked for two *)
(* rewrites at most.                                                        *)
RewrittenIsComplete ==
    /\ RewritesBounded
    /\ Accepted /\ reason \in {"CLAIMS_REMOVED_SUPPORTED", "REPAIRED_SUPPORTED",
             "CLAIMS_REMOVED_REGENERATION_REJECTED", "RELEVANCE_REPAIRED_SUPPORTED"}
       => MissingRequirements(draft) = {}

(* answering.py: "Say so in the response.  An answer that quietly lost a    *)
(* claim looks complete, and the reader cannot tell what was omitted."  And *)
(* a population is never summarised.  Only the relevance repair, which      *)
(* replaces the note with the answer and is not checked for a summary, lets *)
(* either through.                                                          *)
OnlyRelevanceRepairForgets ==
    AcceptedFromModel /\ reason # "RELEVANCE_REPAIRED_SUPPORTED" =>
        /\ pruned \ draft.claims # {} => "removed" \in draft.notes
        /\ expected # {} => ~draft.summary

Contract == INSTANCE GateContract WITH
    verdict <- IF pc = "failed" THEN "failed"
               ELSE IF pc # "decided" THEN "pending"
               ELSE IF ~grounded THEN "rejected"
               ELSE IF reason = "EXTRACT_VERIFIED" THEN "accepted_extract"
               ELSE IF reason = "DISABLED" THEN "accepted_unverified"
               ELSE "accepted",
    released <- IF Passed THEN draft.claims ELSE {}

(* The gate implements the contract the workflow relies on, and decides.    *)
ImplementsContract == Contract!Spec
=============================================================================
