---------------------------- MODULE RagWorkflow ----------------------------
(***************************************************************************)
(* One request of the authorized RAG workflow: the LangGraph state graph   *)
(* compiled by workflow_graph.py, the nodes of workflow_nodes/, and the    *)
(* release decision taken by _response_from_state in workflow.py.          *)
(*                                                                         *)
(* One action is one graph node together with the conditional edge that    *)
(* follows it: LangGraph commits a node's returned patch and evaluates the *)
(* edge in one superstep.  `steps' counts the supersteps, because the      *)
(* graph is run with a recursion limit.                                    *)
(*                                                                         *)
(* What the models return (drafts, verdicts, retrieved documents) is a     *)
(* nondeterministic choice.  A list of documents is abstracted to the pass *)
(* (the value of retrieval_attempt) that selected it, 0 being the empty    *)
(* list: an answer's [SOURCE n] markers index the list it was written      *)
(* from, so it matters which list they are resolved against.               *)
(***************************************************************************)
EXTENDS Naturals

CONSTANTS
    MaxAttempts,     \* settings.max_retrieval_attempts
    AdaptiveQuery,   \* settings.adaptive_query_enabled
    Requirements     \* the items a question can explicitly ask for

ASSUME MaxAttemptsAssumption == MaxAttempts \in Nat \ {0}
ASSUME AdaptiveQueryAssumption == AdaptiveQuery \in BOOLEAN

VARIABLES
    pc,              \* the node to run next, or the request's final state
    steps,           \* supersteps executed so far
    attempt,         \* state.retrieval_attempt (0 before planning)
    queries,         \* state.queries is non-empty
    candidates,      \* state.candidates is non-empty
    routeRefusal,    \* state.canonical_route_refusal_reason is set
    documents,       \* state.documents
    prior,           \* state.prior_documents
    missing,         \* state.missing_requirements
    lowRelevance,    \* state.context_relevance < context_relevance_floor
    mismatch,        \* state.entity_mismatch_requested is set
    generated,       \* state.generated
    repaired,        \* state.repaired
    grounded,        \* state.grounded
    reason,          \* state.grounding_reason, as far as it decides anything
    provider,        \* state.provider_response
    accepted,        \* history: the answer verify_grounding last accepted
    response         \* the RagResponse the caller receives

retrievalVars == <<queries, candidates, routeRefusal, documents, prior,
                   missing, lowRelevance, mismatch>>
answerVars == <<generated, repaired, grounded, reason, accepted>>
vars == <<pc, steps, attempt, retrievalVars, answerVars, provider, response>>

-----------------------------------------------------------------------------
(* Values *)

Nodes == {"provider_plan", "provider_execute", "provider_unavailable",
          "plan_queries", "retrieve", "feature_affinity", "rerank",
          "validate_evidence_completeness", "recover_query", "generate",
          "validate_citations", "validate_completeness",
          "repair_completeness", "verify_grounding"}

Final == {"done", "failed", "recursion_error"}

Passes == 1..MaxAttempts

(* config["recursion_limit"] of invoke_bounded_graph and graph_update_events *)
RecursionLimit_PerPassOnly == 8 * MaxAttempts

RecursionLimit == 12 + 8 * MaxAttempts

(* A GroundedAnswer: the pass whose documents its markers index, its typed *)
(* outcome, whether _citations_valid holds of it, and the requested items  *)
(* its text leaves out (_missing_answer_requirements).                     *)
Drafts == [pass: Passes, outcome: {"ANSWER", "REFUSAL"},
           cited: BOOLEAN, gaps: SUBSET Requirements]
NoDraft == [pass |-> 0, outcome |-> "ANSWER", cited |-> FALSE, gaps |-> {}]

(* typed: the reason of a typed refusal.  gate: a failure of the output gate. *)
Reasons == {"none", "typed", "INCOMPLETE_EVIDENCE", "INCOMPLETE_ANSWER",
            "rejected", "supported", "gate"}

ProviderResponses == {"none", "ANSWERED", "INSUFFICIENT_EVIDENCE",
                      "NEEDS_CLARIFICATION"}

GateFailures == {"PERMISSIONS_NOT_SATISFIED", "UNRESOLVED_SOURCE_CONFLICT",
                 "UNSUPPORTED_CLAIM"}

(* The released answer and the document list its sources are taken from;   *)
(* path tells a structured provider answer from one the graph wrote.       *)
NoResponse == [status |-> "none", path |-> "none",
               answer |-> NoDraft, evidence |-> 0]
Statuses == {"none", "ANSWERED", "NEEDS_CLARIFICATION", "SOURCE_CONFLICT",
             "ACCESS_DENIED", "INSUFFICIENT_EVIDENCE"}
Responses == [status: Statuses, path: {"none", "provider", "graph"},
              answer: Drafts \cup {NoDraft}, evidence: 0..MaxAttempts]

-----------------------------------------------------------------------------
(* The conditional edges.  An operator named Op_Bug is a mutant of Op: a     *)
(* plausible slip in the same code, which no specification uses and which   *)
(* the runs have to tell from Op.                                           *)

RouteAfterRerank(docs) ==
    IF docs # 0 THEN "validate_evidence_completeness"
    ELSE IF AdaptiveQuery /\ attempt < MaxAttempts THEN "recover_query"
    ELSE "respond"

RouteAfterEvidence(gap, low, verdict) ==
    IF verdict = "false" THEN IF documents # 0 THEN "generate" ELSE "respond"
    ELSE IF gap = {} THEN "generate"
    ELSE IF attempt < MaxAttempts THEN "repair_completeness"
    ELSE IF low \/ documents = 0 THEN "respond"
    ELSE "generate"

RouteAfterCompleteness_NoEvidenceCheck(gap, verdict) ==
    IF verdict # "false" /\ gap = {} THEN "verify_grounding"
    ELSE IF verdict # "false" /\ attempt < MaxAttempts THEN "repair_completeness"
    ELSE "verify_grounding"

RouteAfterCompleteness(gap, verdict) ==
    IF verdict # "false" /\ gap = {} THEN "verify_grounding"
    ELSE IF verdict # "false" /\ attempt < MaxAttempts THEN "repair_completeness"
    ELSE IF documents # 0 THEN "verify_grounding"
    ELSE "respond"

Exhausted(gap) == gap # {} /\ attempt >= MaxAttempts

-----------------------------------------------------------------------------
Init ==
    /\ pc = "provider_plan" /\ steps = 0 /\ attempt = 0
    /\ queries = FALSE /\ candidates = FALSE /\ routeRefusal = FALSE
    /\ documents = 0 /\ prior = 0 /\ missing = {}
    /\ lowRelevance = FALSE /\ mismatch = FALSE
    /\ generated = NoDraft /\ repaired = FALSE
    /\ grounded = "unset" /\ reason = "none" /\ accepted = NoDraft
    /\ provider = "none" /\ response = NoResponse

(* Run node n, then continue at m: one superstep.  LangGraph raises         *)
(* GraphRecursionError once the supersteps reach the limit.                 *)
Goto(n, m) ==
    /\ pc = n
    /\ steps' = steps + 1
    /\ pc' = IF steps' >= RecursionLimit THEN "recursion_error" ELSE m

-----------------------------------------------------------------------------
(* Structured providers *)

ProviderPlan ==
    \E m \in {"provider_execute", "provider_unavailable", "plan_queries"} :
        /\ Goto("provider_plan", m)
        /\ UNCHANGED <<attempt, retrievalVars, answerVars, provider, response>>

(* A complete aggregate answers; a timeout or an incomplete snapshot is     *)
(* insufficient; an ambiguous resolution asks back.                        *)
ProviderExecute ==
    /\ Goto("provider_execute", "respond")
    /\ provider' \in ProviderResponses \ {"none"}
    /\ UNCHANGED <<attempt, retrievalVars, answerVars, response>>

ProviderUnavailable ==
    /\ Goto("provider_unavailable", "respond")
    /\ provider' \in {"INSUFFICIENT_EVIDENCE", "NEEDS_CLARIFICATION"}
    /\ UNCHANGED <<attempt, retrievalVars, answerVars, response>>

-----------------------------------------------------------------------------
(* Planning and retrieval *)

PlanQueries ==
    /\ Goto("plan_queries", "retrieve")
    /\ attempt' = 1
    /\ queries' = TRUE
    /\ UNCHANGED <<candidates, routeRefusal, documents, prior, missing,
                   lowRelevance, mismatch, answerVars, provider, response>>

Retrieve ==
    /\ Goto("retrieve", "feature_affinity")
    /\ candidates' \in BOOLEAN
    /\ routeRefusal' \in BOOLEAN
    /\ UNCHANGED <<attempt, queries, documents, prior, missing, lowRelevance,
                   mismatch, answerVars, provider, response>>

(* Title affinity may drop every candidate, and an exact Jira section may   *)
(* replace an empty pool.                                                   *)
FeatureAffinity ==
    /\ Goto("feature_affinity", "rerank")
    /\ candidates' \in BOOLEAN
    /\ UNCHANGED <<attempt, queries, routeRefusal, documents, prior, missing,
                   lowRelevance, mismatch, answerVars, provider, response>>

(* The ranked list is merged with the documents of the pass before the      *)
(* repair, so it is empty only when both are.  Evidence about an entity     *)
(* other than the one asked for is withdrawn as a whole.  The reuse of an   *)
(* identical earlier result is not taken: it compares scored_query and      *)
(* scored_candidate_ids, which RagState does not declare, and LangGraph     *)
(* keeps only declared channels.                                            *)
Kept_WrongEntity(found, wrongEntity) == IF found THEN attempt ELSE 0

Kept(found, wrongEntity) == IF found /\ ~wrongEntity THEN attempt ELSE 0

Rerank ==
    \E found, wrongEntity \in BOOLEAN :
        /\ prior # 0 => found
        /\ found => candidates \/ prior # 0
        /\ wrongEntity => found
        /\ documents' = Kept(found, wrongEntity)
        /\ mismatch' = wrongEntity
        /\ Goto("rerank", RouteAfterRerank(documents'))
        /\ UNCHANGED <<attempt, queries, candidates, routeRefusal, prior,
                       missing, lowRelevance, answerVars, provider, response>>

ValidateEvidenceCompleteness ==
    \E gap \in SUBSET Requirements, low \in BOOLEAN :
        /\ missing' = gap
        /\ lowRelevance' = low
        /\ IF Exhausted(gap) /\ documents = 0
           THEN grounded' = "false" /\ reason' = "INCOMPLETE_EVIDENCE"
           ELSE UNCHANGED <<grounded, reason>>
        /\ Goto("validate_evidence_completeness",
                RouteAfterEvidence(gap, low, grounded'))
        /\ UNCHANGED <<attempt, queries, candidates, routeRefusal, documents,
                       prior, mismatch, generated, repaired, accepted,
                       provider, response>>

RecoverQuery_NotCounted ==
    /\ queries' \in BOOLEAN
    /\ Goto("recover_query", IF queries' THEN "retrieve" ELSE "respond")
    /\ UNCHANGED <<attempt, candidates, routeRefusal, documents, prior, missing,
                   lowRelevance, mismatch, answerVars, provider, response>>

(* A rejected or failed recovery leaves no query, which ends the graph.     *)
RecoverQuery ==
    /\ queries' \in BOOLEAN
    /\ attempt' = attempt + 1
    /\ Goto("recover_query", IF queries' THEN "retrieve" ELSE "respond")
    /\ UNCHANGED <<candidates, routeRefusal, documents, prior, missing,
                   lowRelevance, mismatch, answerVars, provider, response>>

RepairCompleteness ==
    /\ Goto("repair_completeness", "retrieve")
    /\ queries' = TRUE
    /\ attempt' = attempt + 1
    /\ missing' = {}
    /\ prior' = documents
    /\ grounded' = "true"
    /\ UNCHANGED <<candidates, routeRefusal, documents, lowRelevance, mismatch,
                   generated, repaired, reason, accepted, provider, response>>

-----------------------------------------------------------------------------
(* Generation and the gates *)

(* What a model call over the current evidence may return; with no evidence *)
(* no citation is in range.                                                 *)
DraftsOver(docs) == {d \in Drafts : d.pass = attempt /\ (d.cited => docs # 0)}

(* A route the corpus declares out of scope is refused without the model.   *)
(* Entity scoping and the current-Jira-state filter may leave no evidence.  *)
Generate ==
    /\ Goto("generate", "validate_citations")
    /\ IF routeRefusal
       THEN /\ generated' = [pass |-> attempt, outcome |-> "REFUSAL",
                             cited |-> FALSE, gaps |-> {}]
            /\ UNCHANGED documents
       ELSE /\ documents' \in {documents, 0}
            /\ generated' \in DraftsOver(documents')
    /\ UNCHANGED <<attempt, queries, candidates, routeRefusal, prior, missing,
                   lowRelevance, mismatch, repaired, grounded, reason,
                   accepted, provider, response>>

(* One rewrite by the model, or the same rewrite without its uncited        *)
(* claims; if neither has valid citations the answer is not grounded.       *)
RepairCitations ==
    /\ repaired' = TRUE
    /\ generated' \in DraftsOver(documents)
    /\ grounded' = IF generated'.cited THEN grounded ELSE "false"
    /\ UNCHANGED reason

ValidateCitations ==
    /\ Goto("validate_citations", "validate_completeness")
    /\ \/ /\ generated.outcome = "REFUSAL"
          /\ repaired' = FALSE
          /\ grounded' = "false" /\ reason' = "typed"
          /\ UNCHANGED generated
       \/ /\ generated.outcome = "ANSWER" /\ generated.cited
          /\ repaired' = FALSE
          /\ UNCHANGED <<generated, grounded, reason>>
       \/ /\ generated.outcome = "ANSWER" /\ ~generated.cited
          /\ RepairCitations
    /\ UNCHANGED <<attempt, retrievalVars, accepted, provider, response>>

ValidateCompleteness ==
    LET gap == IF grounded = "false" THEN {} ELSE generated.gaps IN
    /\ missing' = gap
    /\ IF Exhausted(gap)
       THEN grounded' = "false" /\ reason' = "INCOMPLETE_ANSWER"
       ELSE UNCHANGED <<grounded, reason>>
    /\ Goto("validate_completeness", RouteAfterCompleteness(gap, grounded'))
    /\ UNCHANGED <<attempt, queries, candidates, routeRefusal, documents,
                   prior, lowRelevance, mismatch, generated, repaired,
                   accepted, provider, response>>

(* The three ways the node can end; module GroundingGate opens it up.  An   *)
(* accepted answer is the draft itself, its supported remainder, or a       *)
(* rewrite over the same evidence; verify() supports no claim without a     *)
(* citation in range.  Verification is on, as it is by default.             *)
Supportable == {d \in {generated} \cup DraftsOver(documents) : d.cited}

RefuseTyped ==
    /\ generated.outcome = "REFUSAL"
    /\ grounded' = "false" /\ reason' = "typed"
    /\ UNCHANGED <<generated, repaired, accepted>>

Reject ==
    /\ generated.outcome = "ANSWER"
    /\ grounded' = "false" /\ reason' = "rejected"
    /\ generated' \in {generated} \cup DraftsOver(documents)
    /\ UNCHANGED <<repaired, accepted>>

Accept ==
    /\ generated.outcome = "ANSWER"
    /\ grounded' = "true" /\ reason' = "supported"
    /\ generated' \in Supportable
    /\ accepted' = generated'
    /\ repaired' \in {repaired, TRUE}

VerifyGrounding ==
    /\ Goto("verify_grounding", "respond")
    /\ RefuseTyped \/ Reject \/ Accept
    /\ UNCHANGED <<attempt, retrievalVars, provider, response>>

-----------------------------------------------------------------------------
(* _response_from_state *)

RespondFromProvider ==
    /\ pc = "respond" /\ provider # "none"
    /\ pc' = "done"
    /\ response' = [status |-> provider, path |-> "provider",
                    answer |-> NoDraft, evidence |-> 0]
    /\ UNCHANGED <<steps, attempt, retrievalVars, answerVars, provider>>

Releasable_AnyVerdict == documents # 0 /\ generated # NoDraft

Releasable == documents # 0 /\ generated # NoDraft /\ grounded # "false"

(* Claims the gate prunes can only widen what the answer leaves out.        *)
Pruned(g) == {d \in Drafts : /\ d.pass = g.pass /\ d.outcome = g.outcome
                             /\ d.cited /\ g.gaps \subseteq d.gaps}

(* The output gate, run only on what is still releasable.                   *)
Answer ==
    /\ Releasable
    /\ generated' \in {generated} \cup Pruned(generated)
    /\ response' = [status |-> "ANSWERED", path |-> "graph",
                    answer |-> generated', evidence |-> documents]
    /\ UNCHANGED <<grounded, reason>>

RefusalStatus(failure) ==
    IF mismatch THEN "NEEDS_CLARIFICATION"
    ELSE IF generated.outcome = "REFUSAL" THEN "INSUFFICIENT_EVIDENCE"
    ELSE IF failure = "UNRESOLVED_SOURCE_CONFLICT" THEN "SOURCE_CONFLICT"
    ELSE IF failure = "PERMISSIONS_NOT_SATISFIED" THEN "ACCESS_DENIED"
    ELSE "INSUFFICIENT_EVIDENCE"

GateRefuses ==
    /\ Releasable
    /\ grounded' = "false" /\ reason' = "gate"
    /\ \E failure \in GateFailures :
          response' = [status |-> RefusalStatus(failure), path |-> "graph",
                       answer |-> NoDraft, evidence |-> documents]
    /\ UNCHANGED generated

Refuse ==
    /\ ~Releasable
    /\ response' = [status |-> RefusalStatus("none"), path |-> "graph",
                    answer |-> NoDraft, evidence |-> documents]
    /\ UNCHANGED <<generated, grounded, reason>>

RespondFromState ==
    /\ pc = "respond" /\ provider = "none"
    /\ pc' = "done"
    /\ Answer \/ GateRefuses \/ Refuse
    /\ UNCHANGED <<steps, attempt, retrievalVars, repaired, accepted, provider>>

-----------------------------------------------------------------------------
(* Any awaited dependency may raise, and asyncio.timeout bounds the whole   *)
(* request: the caller gets 503 and no answer.                              *)
Fail ==
    /\ pc \notin Final
    /\ pc' = "failed"
    /\ UNCHANGED <<steps, attempt, retrievalVars, answerVars, provider, response>>

Ended == pc \in Final /\ UNCHANGED vars

Step ==
    \/ ProviderPlan \/ ProviderExecute \/ ProviderUnavailable
    \/ PlanQueries \/ Retrieve \/ FeatureAffinity \/ Rerank
    \/ ValidateEvidenceCompleteness \/ RecoverQuery \/ RepairCompleteness
    \/ Generate \/ ValidateCitations \/ ValidateCompleteness
    \/ VerifyGrounding \/ RespondFromProvider \/ RespondFromState

Next == Step \/ Fail \/ Ended

Spec == Init /\ [][Next]_vars

(* A runnable coroutine is scheduled: the event loop keeps running nodes.   *)
FairSpec == Spec /\ WF_vars(Step)

-----------------------------------------------------------------------------
(* Properties *)

(* Every variable keeps the shape RagState declares for it. *)
TypeOK ==
    /\ pc \in Nodes \cup {"respond"} \cup Final
    /\ steps \in Nat
    /\ attempt \in 0..MaxAttempts
    /\ queries \in BOOLEAN /\ candidates \in BOOLEAN /\ routeRefusal \in BOOLEAN
    /\ documents \in 0..MaxAttempts /\ prior \in 0..MaxAttempts
    /\ missing \in SUBSET Requirements
    /\ lowRelevance \in BOOLEAN /\ mismatch \in BOOLEAN
    /\ generated \in Drafts \cup {NoDraft}
    /\ repaired \in BOOLEAN
    /\ grounded \in {"unset", "true", "false"}
    /\ reason \in Reasons
    /\ provider \in ProviderResponses
    /\ accepted \in Drafts \cup {NoDraft}
    /\ response \in Responses

(* However recoveries and repairs are mixed, the retries stay within        *)
(* max_retrieval_attempts and the longest path stays inside the headroom    *)
(* invoke_bounded_graph promises ("enough headroom for every configured     *)
(* retry path"): no legal request ends in GraphRecursionError.              *)
WithinRecursionLimit ==
    /\ attempt <= MaxAttempts
    /\ pc # "recursion_error"

(* README.md: ANSWERED is emitted only after the claim gate.  A released    *)
(* answer is the one verify_grounding accepted, up to claims the output     *)
(* gate removed from it.                                                    *)
AnsweredOnlyIfVerified ==
    response.status = "ANSWERED" /\ response.path = "graph" =>
        /\ accepted # NoDraft
        /\ response.answer \in {accepted} \cup Pruned(accepted)

(* The only way an answer escapes verify_grounding: a later pass ended at   *)
(* the relevance floor with the draft of an earlier pass still in state.    *)
(* Every other path to ANSWERED, through recoveries, citation repairs and   *)
(* completeness repairs in any order, ends in an accepted answer whose      *)
(* sources are its own.                                                     *)
UnverifiedOnlyAtRelevanceFloor ==
    response.status = "ANSWERED" /\ response.path = "graph" =>
        \/ accepted # NoDraft /\ response.evidence = response.answer.pass
        \/ /\ attempt = MaxAttempts /\ missing # {} /\ lowRelevance
           /\ response.answer.pass < attempt

(* A request that names one entity and found evidence about another is      *)
(* asked back only when nothing was kept of that evidence, even when a      *)
(* later pass found the right one; the question is never asked together     *)
(* with a list of sources.                                                  *)
ClarifiesOnlyWithoutEvidence ==
    response.status = "NEEDS_CLARIFICATION" /\ response.path = "graph" =>
        response.evidence = 0

(* The gates never run on an empty pool: they read state["documents"] and   *)
(* state["generated"] without a default, so a route that reached them       *)
(* without either would end the request in a KeyError.                      *)
GatesHaveEvidence ==
    /\ pc = "verify_grounding" => documents # 0 /\ generated # NoDraft
    /\ pc \in {"validate_citations", "validate_completeness"} =>
          generated # NoDraft /\ generated.pass = attempt

(* Every request ends with a response, or with the error of a dependency;   *)
(* the retries never keep it going.                                         *)
Terminates == <>(pc \in {"done", "failed"})
=============================================================================
