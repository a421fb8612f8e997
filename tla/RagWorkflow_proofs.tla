------------------------ MODULE RagWorkflow_proofs ------------------------
(***************************************************************************)
(* Proofs about RagWorkflow, for every MaxAttempts, every AdaptiveQuery    *)
(* and every set of Requirements.                                          *)
(***************************************************************************)
EXTENDS RagWorkflow, TLAPS

-----------------------------------------------------------------------------
(* The inductive invariant *)

Early == {"provider_plan", "provider_execute", "provider_unavailable",
          "plan_queries"}

(* The supersteps a request has used when it stands at a node, counted from *)
(* the retrieval of the current pass: the longest way round is eight nodes. *)
Rank == [n \in Nodes \cup {"respond"} \cup Final |->
    CASE n = "retrieve" -> 2
      [] n = "feature_affinity" -> 3
      [] n = "rerank" -> 4
      [] n = "validate_evidence_completeness" -> 5
      [] n = "generate" -> 6
      [] n = "validate_citations" -> 7
      [] n = "validate_completeness" -> 8
      [] n \in {"recover_query", "repair_completeness", "verify_grounding"} -> 9
      [] OTHER -> 10]

(* Every pass costs at most eight supersteps, and a new pass is only begun  *)
(* below the budget.                                                        *)
Counted ==
    /\ pc # "recursion_error"
    /\ pc = "provider_plan" => attempt = 0 /\ steps = 0
    /\ pc \in Early => attempt = 0 /\ steps <= 1 /\ provider = "none"
    /\ pc \notin Early => steps + 8 <= Rank[pc] + 8 * attempt
    /\ pc \in {"recover_query", "repair_completeness"} => attempt < MaxAttempts
    /\ pc \in Nodes \ Early => attempt >= 1 /\ provider = "none"

(* Which pass the documents and the draft in the state belong to.           *)
Drafting == {"generate", "validate_citations", "validate_completeness",
             "verify_grounding"}
Gated == Drafting \ {"generate"}

Passed ==
    /\ mismatch => documents = 0
    /\ pc \in Early => documents = 0 /\ generated = NoDraft
    /\ pc \in Drafting \cup {"validate_evidence_completeness", "respond"} =>
          documents \in {0, attempt}
    /\ pc = "recover_query" => documents = 0
    /\ pc \in Gated => generated # NoDraft /\ generated.pass = attempt
    /\ pc \in {"retrieve", "feature_affinity", "rerank", "generate",
               "validate_evidence_completeness", "recover_query"} =>
          generated.pass < attempt
    /\ pc = "repair_completeness" => generated.pass <= attempt

(* A draft that is still grounded cites its evidence, so there is some.     *)
Cited ==
    /\ pc = "validate_citations" /\ generated.cited => documents # 0
    /\ pc = "validate_completeness" /\ grounded # "false" => documents # 0
    /\ pc = "verify_grounding" => documents # 0

(* Why a request that reaches its release may still release its draft.      *)
AtFloor ==
    /\ attempt = MaxAttempts /\ missing # {} /\ lowRelevance
    /\ generated.pass < attempt

Decided ==
    /\ pc \notin Final => response = NoResponse
    /\ pc = "respond" /\ provider = "none" /\ Releasable =>
          \/ accepted # NoDraft /\ documents = generated.pass
          \/ AtFloor
    /\ UnverifiedOnlyAtRelevanceFloor
    /\ ClarifiesOnlyWithoutEvidence

IInv == TypeOK /\ Counted /\ Passed /\ Cited /\ Decided

-----------------------------------------------------------------------------
(* Facts used by every step *)

(* The values of Rank, which the provers do not compute from its CASE.      *)
LEMMA RankValues ==
    /\ \A n \in Nodes \cup {"respond"} \cup Final : Rank[n] \in 2..10
    /\ \A n \in Nodes : Rank[n] <= 9 \/ n \in Early
    /\ Rank["retrieve"] = 2 /\ Rank["feature_affinity"] = 3
    /\ Rank["rerank"] = 4 /\ Rank["validate_evidence_completeness"] = 5
    /\ Rank["generate"] = 6 /\ Rank["validate_citations"] = 7
    /\ Rank["validate_completeness"] = 8 /\ Rank["recover_query"] = 9
    /\ Rank["repair_completeness"] = 9 /\ Rank["verify_grounding"] = 9
    /\ Rank["respond"] = 10 /\ Rank["done"] = 10 /\ Rank["failed"] = 10
BY DEF Rank, Nodes, Final, Early

(* A node that runs while the supersteps are counted is followed by the     *)
(* node its edge names: the limit is out of reach.                          *)
LEMMA GotoMoves ==
    ASSUME IInv, NEW n \in Nodes, NEW m, Goto(n, m)
    PROVE  pc = n /\ pc' = m /\ steps' = steps + 1
<1>1. steps + 1 < RecursionLimit
  BY MaxAttemptsAssumption, RankValues
     DEF IInv, TypeOK, Counted, Goto, RecursionLimit, Nodes, Early
<1>2. QED
  BY <1>1, MaxAttemptsAssumption DEF Goto, IInv, TypeOK, RecursionLimit

(* What the drafts are: a real one belongs to a pass, and everything a      *)
(* model call or the pruning returns is one.                                *)
LEMMA DraftFacts ==
    /\ NoDraft \notin Drafts
    /\ NoDraft.pass = 0
    /\ \A d \in Drafts : d.pass \in 1..MaxAttempts
    /\ \A d \in Drafts \cup {NoDraft} : d.gaps \in SUBSET Requirements
    /\ \A docs : DraftsOver(docs) \subseteq Drafts
    /\ \A g : Pruned(g) \subseteq Drafts
BY MaxAttemptsAssumption DEF Drafts, NoDraft, Passes, DraftsOver, Pruned

-----------------------------------------------------------------------------
(* One lemma per part of the invariant, one case per action.               *)

(* Every node writes values of the declared shapes.                         *)
LEMMA TypeStep ==
    ASSUME IInv, Next
    PROVE  TypeOK'
<1> USE MaxAttemptsAssumption, DraftFacts
     DEF IInv, TypeOK, Counted, Nodes, Final, Reasons, ProviderResponses,
         GateFailures, Statuses, Responses, answerVars, retrievalVars
<1>1. CASE ProviderPlan
  BY <1>1, GotoMoves DEF ProviderPlan
<1>2. CASE ProviderExecute
  BY <1>2, GotoMoves DEF ProviderExecute
<1>3. CASE ProviderUnavailable
  BY <1>3, GotoMoves DEF ProviderUnavailable
<1>4. CASE PlanQueries
  BY <1>4, GotoMoves DEF PlanQueries
<1>5. CASE Retrieve
  BY <1>5, GotoMoves DEF Retrieve
<1>6. CASE FeatureAffinity
  BY <1>6, GotoMoves DEF FeatureAffinity
<1>7. CASE Rerank
  BY <1>7, GotoMoves DEF Rerank, RouteAfterRerank, Kept
<1>8. CASE ValidateEvidenceCompleteness
  BY <1>8, GotoMoves
       DEF ValidateEvidenceCompleteness, RouteAfterEvidence, Exhausted
<1>9. CASE RecoverQuery
  BY <1>9, GotoMoves DEF RecoverQuery
<1>10. CASE RepairCompleteness
  BY <1>10, GotoMoves DEF RepairCompleteness
<1>11. CASE Generate
  <2>1. generated' \in Drafts
    <3>1. CASE routeRefusal
      <4>1. generated' = [pass |-> attempt, outcome |-> "REFUSAL",
                          cited |-> FALSE, gaps |-> {}]
        BY <1>11, <3>1 DEF Generate
      <4>2. attempt \in 1..MaxAttempts
        BY <1>11, GotoMoves DEF Generate, Early
      <4>3. QED
        BY <4>1, <4>2 DEF Drafts, Passes
    <3>2. CASE ~routeRefusal
      <4>1. generated' \in DraftsOver(documents')
        BY <1>11, <3>2 DEF Generate
      <4>2. QED
        BY <4>1 DEF DraftsOver
    <3>3. QED
      BY <3>1, <3>2
  <2>2. QED
    BY <1>11, <2>1, GotoMoves DEF Generate
<1>12. CASE ValidateCitations
  <2>1. generated' = generated \/ generated' \in DraftsOver(documents)
    BY <1>12 DEF ValidateCitations, RepairCitations
  <2>2. generated' \in Drafts \cup {NoDraft}
    BY <2>1 DEF DraftsOver
  <2>3. /\ pc' \in Nodes \cup {"respond"} /\ steps' \in Nat
        /\ UNCHANGED <<attempt, retrievalVars, provider, response>>
    BY <1>12, GotoMoves DEF ValidateCitations
  <2>4. /\ repaired' \in BOOLEAN
        /\ grounded' \in {"unset", "true", "false"} /\ reason' \in Reasons
        /\ accepted' \in {accepted, generated'}
    BY <1>12 DEF ValidateCitations, RepairCitations
  <2>5. QED
    BY <2>2, <2>3, <2>4
<1>13. CASE ValidateCompleteness
  BY <1>13, GotoMoves DEF ValidateCompleteness, RouteAfterCompleteness, Exhausted
<1>14. CASE VerifyGrounding
  <2>1. generated' = generated \/ generated' \in DraftsOver(documents)
    BY <1>14 DEF VerifyGrounding, RefuseTyped, Reject, Accept, Supportable
  <2>2. generated' \in Drafts \cup {NoDraft}
    BY <2>1 DEF DraftsOver
  <2>3. /\ pc' \in Nodes \cup {"respond"} /\ steps' \in Nat
        /\ UNCHANGED <<attempt, retrievalVars, provider, response>>
    BY <1>14, GotoMoves DEF VerifyGrounding
  <2>4. /\ repaired' \in BOOLEAN
        /\ grounded' \in {"unset", "true", "false"} /\ reason' \in Reasons
        /\ accepted' \in {accepted, generated'}
    BY <1>14 DEF VerifyGrounding, RefuseTyped, Reject, Accept
  <2>5. QED
    BY <2>2, <2>3, <2>4
<1>15. CASE RespondFromProvider
  BY <1>15 DEF RespondFromProvider
<1>16. CASE RespondFromState
  BY <1>16
       DEF RespondFromState, Answer, GateRefuses, Refuse, Releasable,
           RefusalStatus
<1>17. CASE Fail
  BY <1>17 DEF Fail
<1>18. CASE Ended
  BY <1>18 DEF Ended, vars
<1>19. QED
  BY <1>1, <1>2, <1>3, <1>4, <1>5, <1>6, <1>7, <1>8, <1>9, <1>10, <1>11,
     <1>12, <1>13, <1>14, <1>15, <1>16, <1>17, <1>18
       DEF Next, Step

(* No node makes the request run ahead of the supersteps its pass allows,   *)
(* and the edges enter a new pass only below max_retrieval_attempts.        *)
LEMMA CountedStep ==
    ASSUME IInv, Next
    PROVE  Counted'
<1> USE MaxAttemptsAssumption, DraftFacts
     DEF IInv, TypeOK, Counted, Nodes, Final, Early, answerVars, retrievalVars
<1>1. CASE ProviderPlan
  BY <1>1, GotoMoves, RankValues DEF ProviderPlan
<1>2. CASE ProviderExecute
  BY <1>2, GotoMoves, RankValues DEF ProviderExecute
<1>3. CASE ProviderUnavailable
  BY <1>3, GotoMoves, RankValues DEF ProviderUnavailable
<1>4. CASE PlanQueries
  BY <1>4, GotoMoves, RankValues DEF PlanQueries
<1>5. CASE Retrieve
  BY <1>5, GotoMoves, RankValues DEF Retrieve
<1>6. CASE FeatureAffinity
  BY <1>6, GotoMoves, RankValues DEF FeatureAffinity
<1>7. CASE Rerank
  BY <1>7, GotoMoves, RankValues DEF Rerank, RouteAfterRerank, Kept
<1>8. CASE ValidateEvidenceCompleteness
  BY <1>8, GotoMoves, RankValues
       DEF ValidateEvidenceCompleteness, RouteAfterEvidence, Exhausted
<1>9. CASE RecoverQuery
  BY <1>9, GotoMoves, RankValues DEF RecoverQuery
<1>10. CASE RepairCompleteness
  BY <1>10, GotoMoves, RankValues DEF RepairCompleteness
<1>11. CASE Generate
  BY <1>11, GotoMoves, RankValues DEF Generate
<1>12. CASE ValidateCitations
  BY <1>12, GotoMoves, RankValues DEF ValidateCitations, RepairCitations
<1>13. CASE ValidateCompleteness
  BY <1>13, GotoMoves, RankValues
       DEF ValidateCompleteness, RouteAfterCompleteness, Exhausted
<1>14. CASE VerifyGrounding
  BY <1>14, GotoMoves, RankValues
       DEF VerifyGrounding, RefuseTyped, Reject, Accept, Supportable
<1>15. CASE RespondFromProvider
  BY <1>15, RankValues DEF RespondFromProvider
<1>16. CASE RespondFromState
  BY <1>16, RankValues
       DEF RespondFromState, Answer, GateRefuses, Refuse, Releasable,
           RefusalStatus
<1>17. CASE Fail
  BY <1>17, RankValues DEF Fail
<1>18. CASE Ended
  BY <1>18 DEF Ended, vars
<1>19. QED
  BY <1>1, <1>2, <1>3, <1>4, <1>5, <1>6, <1>7, <1>8, <1>9, <1>10, <1>11,
     <1>12, <1>13, <1>14, <1>15, <1>16, <1>17, <1>18
       DEF Next, Step

(* The draft and the documents in the state stay those of a known pass.     *)
LEMMA PassedStep ==
    ASSUME IInv, Next
    PROVE  Passed'
<1> USE MaxAttemptsAssumption, DraftFacts
     DEF IInv, TypeOK, Passed, Nodes, Final, Early, Counted, Drafting, Gated,
         answerVars, retrievalVars
<1>1. CASE ProviderPlan
  BY <1>1, GotoMoves DEF ProviderPlan
<1>2. CASE ProviderExecute
  BY <1>2, GotoMoves DEF ProviderExecute
<1>3. CASE ProviderUnavailable
  BY <1>3, GotoMoves DEF ProviderUnavailable
<1>4. CASE PlanQueries
  BY <1>4, GotoMoves DEF PlanQueries
<1>5. CASE Retrieve
  BY <1>5, GotoMoves DEF Retrieve
<1>6. CASE FeatureAffinity
  BY <1>6, GotoMoves DEF FeatureAffinity
<1>7. CASE Rerank
  BY <1>7, GotoMoves DEF Rerank, RouteAfterRerank, Kept
<1>8. CASE ValidateEvidenceCompleteness
  BY <1>8, GotoMoves
       DEF ValidateEvidenceCompleteness, RouteAfterEvidence, Exhausted
<1>9. CASE RecoverQuery
  BY <1>9, GotoMoves DEF RecoverQuery
<1>10. CASE RepairCompleteness
  BY <1>10, GotoMoves DEF RepairCompleteness
<1>11. CASE Generate
  <2>1. generated' \in Drafts /\ generated'.pass = attempt
    <3>1. CASE routeRefusal
      <4>1. generated' = [pass |-> attempt, outcome |-> "REFUSAL",
                          cited |-> FALSE, gaps |-> {}]
        BY <1>11, <3>1 DEF Generate
      <4>2. attempt \in 1..MaxAttempts
        BY <1>11, GotoMoves DEF Generate
      <4>3. QED
        BY <4>1, <4>2 DEF Drafts, Passes
    <3>2. CASE ~routeRefusal
      BY <1>11, <3>2 DEF Generate, DraftsOver
    <3>3. QED
      BY <3>1, <3>2
  <2>2. documents' \in {documents, 0} /\ UNCHANGED <<attempt, mismatch>>
        /\ pc = "generate" /\ pc' = "validate_citations"
    BY <1>11, GotoMoves DEF Generate
  <2>3. QED
    BY <2>1, <2>2
<1>12. CASE ValidateCitations
  <2>1. generated' = generated \/ generated' \in DraftsOver(documents)
    BY <1>12 DEF ValidateCitations, RepairCitations
  <2>2. /\ pc = "validate_citations" /\ pc' = "validate_completeness"
        /\ UNCHANGED <<attempt, documents, mismatch>>
    BY <1>12, GotoMoves DEF ValidateCitations
  <2>3. generated' # NoDraft /\ generated'.pass = attempt
    BY <2>1, <2>2 DEF DraftsOver
  <2>4. QED
    BY <2>2, <2>3
<1>13. CASE ValidateCompleteness
  BY <1>13, GotoMoves DEF ValidateCompleteness, RouteAfterCompleteness, Exhausted
<1>14. CASE VerifyGrounding
  BY <1>14, GotoMoves
       DEF VerifyGrounding, RefuseTyped, Reject, Accept, Supportable
<1>15. CASE RespondFromProvider
  BY <1>15 DEF RespondFromProvider
<1>16. CASE RespondFromState
  BY <1>16
       DEF RespondFromState, Answer, GateRefuses, Refuse, Releasable,
           RefusalStatus
<1>17. CASE Fail
  BY <1>17 DEF Fail
<1>18. CASE Ended
  BY <1>18 DEF Ended, vars
<1>19. QED
  BY <1>1, <1>2, <1>3, <1>4, <1>5, <1>6, <1>7, <1>8, <1>9, <1>10, <1>11,
     <1>12, <1>13, <1>14, <1>15, <1>16, <1>17, <1>18
       DEF Next, Step

(* A draft with valid citations, or still grounded, has evidence behind it. *)
LEMMA CitedStep ==
    ASSUME IInv, Next
    PROVE  Cited'
<1> USE MaxAttemptsAssumption, DraftFacts
     DEF IInv, TypeOK, Cited, Nodes, Final, Early, Passed, Counted, Drafting,
         Gated, answerVars, retrievalVars
<1>1. CASE ProviderPlan
  BY <1>1, GotoMoves DEF ProviderPlan
<1>2. CASE ProviderExecute
  BY <1>2, GotoMoves DEF ProviderExecute
<1>3. CASE ProviderUnavailable
  BY <1>3, GotoMoves DEF ProviderUnavailable
<1>4. CASE PlanQueries
  BY <1>4, GotoMoves DEF PlanQueries
<1>5. CASE Retrieve
  BY <1>5, GotoMoves DEF Retrieve
<1>6. CASE FeatureAffinity
  BY <1>6, GotoMoves DEF FeatureAffinity
<1>7. CASE Rerank
  BY <1>7, GotoMoves DEF Rerank, RouteAfterRerank, Kept
<1>8. CASE ValidateEvidenceCompleteness
  BY <1>8, GotoMoves
       DEF ValidateEvidenceCompleteness, RouteAfterEvidence, Exhausted
<1>9. CASE RecoverQuery
  BY <1>9, GotoMoves DEF RecoverQuery
<1>10. CASE RepairCompleteness
  BY <1>10, GotoMoves DEF RepairCompleteness
<1>11. CASE Generate
  <2>1. generated'.cited => documents' # 0
    BY <1>11 DEF Generate, DraftsOver
  <2>2. QED
    BY <1>11, <2>1, GotoMoves DEF Generate
<1>12. CASE ValidateCitations
  <2>1. /\ pc = "validate_citations" /\ pc' = "validate_completeness"
        /\ UNCHANGED documents
    BY <1>12, GotoMoves DEF ValidateCitations
  <2>2. grounded' # "false" => documents # 0
    BY <1>12, <2>1 DEF ValidateCitations, RepairCitations, DraftsOver
  <2>3. QED
    BY <2>1, <2>2
<1>13. CASE ValidateCompleteness
  BY <1>13, GotoMoves DEF ValidateCompleteness, RouteAfterCompleteness, Exhausted
<1>14. CASE VerifyGrounding
  BY <1>14, GotoMoves
       DEF VerifyGrounding, RefuseTyped, Reject, Accept, Supportable
<1>15. CASE RespondFromProvider
  BY <1>15 DEF RespondFromProvider
<1>16. CASE RespondFromState
  BY <1>16
       DEF RespondFromState, Answer, GateRefuses, Refuse, Releasable,
           RefusalStatus
<1>17. CASE Fail
  BY <1>17 DEF Fail
<1>18. CASE Ended
  BY <1>18 DEF Ended, vars
<1>19. QED
  BY <1>1, <1>2, <1>3, <1>4, <1>5, <1>6, <1>7, <1>8, <1>9, <1>10, <1>11,
     <1>12, <1>13, <1>14, <1>15, <1>16, <1>17, <1>18
       DEF Next, Step

(* Acceptance, or the relevance floor, is behind whatever is released.      *)
LEMMA DecidedStep ==
    ASSUME IInv, Next
    PROVE  Decided'
<1> USE MaxAttemptsAssumption, DraftFacts
     DEF IInv, TypeOK, Decided, Passed, Cited, Counted, Nodes, Final, Early,
         Drafting, Gated, Releasable, AtFloor, UnverifiedOnlyAtRelevanceFloor,
         ClarifiesOnlyWithoutEvidence, NoResponse, answerVars, retrievalVars
<1>1. CASE ProviderPlan
  BY <1>1, GotoMoves DEF ProviderPlan
<1>2. CASE ProviderExecute
  BY <1>2, GotoMoves DEF ProviderExecute
<1>3. CASE ProviderUnavailable
  BY <1>3, GotoMoves DEF ProviderUnavailable
<1>4. CASE PlanQueries
  BY <1>4, GotoMoves DEF PlanQueries
<1>5. CASE Retrieve
  BY <1>5, GotoMoves DEF Retrieve
<1>6. CASE FeatureAffinity
  BY <1>6, GotoMoves DEF FeatureAffinity
<1>7. CASE Rerank
  BY <1>7, GotoMoves DEF Rerank, RouteAfterRerank, Kept
<1>8. CASE ValidateEvidenceCompleteness
  BY <1>8, GotoMoves
       DEF ValidateEvidenceCompleteness, RouteAfterEvidence, Exhausted
<1>9. CASE RecoverQuery
  BY <1>9, GotoMoves DEF RecoverQuery
<1>10. CASE RepairCompleteness
  BY <1>10, GotoMoves DEF RepairCompleteness
<1>11. CASE Generate
  BY <1>11, GotoMoves DEF Generate
<1>12. CASE ValidateCitations
  BY <1>12, GotoMoves DEF ValidateCitations, RepairCitations
<1>13. CASE ValidateCompleteness
  BY <1>13, GotoMoves DEF ValidateCompleteness, RouteAfterCompleteness, Exhausted
<1>14. CASE VerifyGrounding
  <2>1. /\ pc = "verify_grounding" /\ pc' = "respond"
        /\ UNCHANGED <<attempt, documents, missing, lowRelevance, provider,
                       response>>
    BY <1>14, GotoMoves DEF VerifyGrounding
  <2>2. CASE grounded' = "false"
    BY <2>1, <2>2
  <2>3. CASE Accept
    <3>1. generated' = generated \/ generated' \in DraftsOver(documents)
      BY <2>3 DEF Accept, Supportable
    <3>2. generated' # NoDraft /\ generated'.pass = attempt
      BY <2>1, <3>1 DEF DraftsOver
    <3>3. accepted' = generated'
      BY <2>3 DEF Accept
    <3>4. QED
      BY <2>1, <3>2, <3>3
  <2>4. QED
    BY <1>14, <2>2, <2>3 DEF VerifyGrounding, RefuseTyped, Reject
<1>15. CASE RespondFromProvider
  BY <1>15 DEF RespondFromProvider
<1>16. CASE RespondFromState
  <2>1. /\ pc = "respond" /\ provider = "none" /\ pc' = "done"
        /\ UNCHANGED <<attempt, documents, missing, mismatch, lowRelevance,
                       accepted>>
    BY <1>16 DEF RespondFromState
  <2>2. CASE Answer
    <3>1. generated'.pass = generated.pass
      BY <2>2 DEF Answer, Pruned
    <3>2. response' = [status |-> "ANSWERED", path |-> "graph",
                       answer |-> generated', evidence |-> documents]
      BY <2>2 DEF Answer
    <3>3. Releasable
      BY <2>2 DEF Answer
    <3>4. QED
      BY <2>1, <3>1, <3>2, <3>3
  <2>3. CASE GateRefuses
    BY <2>1, <2>3 DEF GateRefuses, RefusalStatus
  <2>4. CASE Refuse
    BY <2>1, <2>4 DEF Refuse, RefusalStatus
  <2>5. QED
    BY <1>16, <2>2, <2>3, <2>4 DEF RespondFromState
<1>17. CASE Fail
  BY <1>17 DEF Fail
<1>18. CASE Ended
  BY <1>18 DEF Ended, vars
<1>19. QED
  BY <1>1, <1>2, <1>3, <1>4, <1>5, <1>6, <1>7, <1>8, <1>9, <1>10, <1>11,
     <1>12, <1>13, <1>14, <1>15, <1>16, <1>17, <1>18
       DEF Next, Step

-----------------------------------------------------------------------------
(* The theorems *)

(* A new request satisfies the inductive invariant.                         *)
LEMMA InitIInv == Init => IInv
<1> SUFFICES ASSUME Init PROVE IInv
  OBVIOUS
<1>1. TypeOK
  <2>1. NoResponse \in Responses
    BY MaxAttemptsAssumption DEF NoResponse, Responses, Statuses
  <2>2. 0 \in 0..MaxAttempts
    BY MaxAttemptsAssumption
  <2>3. QED
    BY <2>1, <2>2 DEF Init, TypeOK, Nodes, Reasons, ProviderResponses
<1>2. Counted
  BY DEF Init, Counted, Early
<1>3. Passed /\ Cited
  BY DEF Init, Passed, Cited, Early, Drafting, Gated
<1>4. Decided
  BY DEF Init, Decided, NoResponse, UnverifiedOnlyAtRelevanceFloor,
         ClarifiesOnlyWithoutEvidence
<1>5. QED
  BY <1>1, <1>2, <1>3, <1>4 DEF IInv

(* Every step, and stuttering, preserves the inductive invariant.           *)
LEMMA NextIInv == IInv /\ [Next]_vars => IInv'
<1> SUFFICES ASSUME IInv, [Next]_vars PROVE IInv'
  OBVIOUS
<1>1. CASE Next
  BY <1>1, TypeStep, CountedStep, PassedStep, CitedStep, DecidedStep DEF IInv
<1>2. CASE UNCHANGED vars
  BY <1>2
     DEF vars, retrievalVars, answerVars, IInv, TypeOK, Counted, Passed, Cited,
         Decided, AtFloor, Releasable, UnverifiedOnlyAtRelevanceFloor,
         ClarifiesOnlyWithoutEvidence
<1>3. QED
  BY <1>1, <1>2

(* The inductive invariant holds of every state of every request.           *)
THEOREM InductiveInvariant == Spec => []IInv
<1>1. QED
  BY InitIInv, NextIInv, PTL DEF Spec

(* Every variable keeps the shape RagState declares for it.                 *)
THEOREM TypeCorrect == Spec => []TypeOK
<1>1. IInv => TypeOK
  BY DEF IInv
<1>2. QED
  BY <1>1, InductiveInvariant, PTL

(* The retries stay within max_retrieval_attempts, and the recursion limit  *)
(* of invoke_bounded_graph is never reached, whatever the budget is.        *)
THEOREM LimitNeverReached == Spec => []WithinRecursionLimit
<1>1. IInv => WithinRecursionLimit
  BY MaxAttemptsAssumption DEF IInv, TypeOK, Counted, WithinRecursionLimit
<1>2. QED
  BY <1>1, InductiveInvariant, PTL

(* verify_grounding and the two validators before it always find the        *)
(* documents and the draft they read without a default.                     *)
THEOREM GatesReadWhatExists == Spec => []GatesHaveEvidence
<1>1. IInv => GatesHaveEvidence
  BY DEF IInv, Passed, Cited, Gated, Drafting, GatesHaveEvidence
<1>2. QED
  BY <1>1, InductiveInvariant, PTL

(* The relevance floor of the last pass is the only way round the claim     *)
(* gate; by every other way an answer was accepted and its sources are its  *)
(* own.                                                                     *)
THEOREM OnlyTheFloorBypassesTheGate == Spec => []UnverifiedOnlyAtRelevanceFloor
<1>1. IInv => UnverifiedOnlyAtRelevanceFloor
  BY DEF IInv, Decided
<1>2. QED
  BY <1>1, InductiveInvariant, PTL

(* A request is asked back about its entity only without evidence.          *)
THEOREM ClarificationHasNoEvidence == Spec => []ClarifiesOnlyWithoutEvidence
<1>1. IInv => ClarifiesOnlyWithoutEvidence
  BY DEF IInv, Decided
<1>2. QED
  BY <1>1, InductiveInvariant, PTL

=============================================================================
