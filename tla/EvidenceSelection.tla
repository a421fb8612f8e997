-------------------------- MODULE EvidenceSelection --------------------------
(***************************************************************************)
(* How the evidence of one answer is found: the retrieval passes of        *)
(* app/workflow_nodes/retrieval.py, with the recovery and the repair that  *)
(* send a request round again.  One action is one node of the graph.       *)
(*                                                                         *)
(* What the planner decided is the request, a record:                      *)
(*   intent    the route                                                   *)
(*   scope     the source types to search ({}: every type)                 *)
(*   queries   what to search for; slot is the place kept for a            *)
(*             translation (0: none)                                       *)
(*   listing, procedural, single                                           *)
(*             the question enumerates, asks how to, or asks for one record*)
(*   status    it asks for the present state of tickets                    *)
(*   asked     the product it names; uncertain: the name was misspelled    *)
(*   needs     the terms the answer must hold                              *)
(*   titled    the chunks of the pages whose title it names, or of the     *)
(*             ticket it names                                             *)
(*   sections  the chunks of the ticket section it names                   *)
(*   direct    that section is the ticket's present record, or there is    *)
(*             more than one ticket: the lookup decides even if it is empty*)
(*   located   the code it locates                                         *)
(*   listed    what an inventory or an overview may list                   *)
(*                                                                         *)
(* Which chunks a search finds, how they are ranked, whether a translation *)
(* or a recovery is usable, and what an answer leaves out is not           *)
(* determined.                                                             *)
(***************************************************************************)
EXTENDS EvidenceWindow

CONSTANTS
    Requests,
    MaxAttempts,    \* max_retrieval_attempts
    MaxVariants,    \* max_query_variants
    RerankTopN, MixedTopN, InventoryTopN, PageTopN

ASSUME SelectionAssumption ==
    /\ MaxAttempts \in 1..3 /\ MaxVariants \in 1..5
    /\ {RerankTopN, MixedTopN, InventoryTopN, PageTopN} \subseteq Nat \ {0}

Routes == {"CODE_ASSISTED", "CROSS_SOURCE", "IMPLEMENTATION", "DELIVERY",
           "ENTITY_OVERVIEW", "PROJECT_OVERVIEW", "FEATURE_INVENTORY",
           "CODE_INVENTORY", "STRUCTURED_ENTITY", "STRUCTURED_INVENTORY"}

(* What the planner makes sure of: there is something to search for, a     *)
(* place kept for a translation is an empty one beside a question, and a   *)
(* question about one record is CODE_ASSISTED.                             *)
ASSUME RequestsAssumption ==
    \A r \in Requests :
        /\ r.intent \in Routes /\ (r.single => r.intent = "CODE_ASSISTED")
        /\ r.queries \in Seq(ToSet(r.queries)) /\ r.queries # <<>>
        /\ r.slot \in 0..Len(r.queries) /\ (r.slot # 0 => Len(r.queries) >= 2)
        /\ \A i \in DOMAIN r.queries : i # r.slot => r.queries[i] # ""
        /\ r.needs \in Seq(ToSet(r.needs))
        /\ r.sections \in Seq(Docs) /\ IsInjective(r.sections)

VARIABLES
    request,
    pc,             \* the node to run next
    attempt,        \* retrieval_attempt
    queries, slot,  \* queries, translation_slot
    searched,       \* the (query, scope) pairs of this pass
    candidates,     \* candidates, in rank order
    preserve,       \* preserve_candidates
    documents,      \* documents, the window of evidence
    prior,          \* prior_documents (none while nothing is repaired)
    repairing       \* repair_requirements

vars == <<request, pc, attempt, queries, slot, searched, candidates, preserve,
          documents, prior, repairing>>

-----------------------------------------------------------------------------
Init ==
    /\ request \in Requests
    /\ pc = "retrieve" /\ attempt = 1
    /\ queries = request.queries /\ slot = request.slot
    /\ searched = {} /\ candidates = <<>> /\ preserve = FALSE
    /\ documents = <<>> /\ prior = <<>> /\ repairing = <<>>

(* A delivery question about one section of one ticket is looked up.       *)
SectionLookup == request.intent = "DELIVERY" /\ (request.direct \/ request.sections # <<>>)

RetrieveSections ==
    /\ pc = "retrieve" /\ SectionLookup
    /\ candidates' = request.sections
    /\ searched' = {} /\ slot' = 0 /\ preserve' = FALSE
    /\ pc' = "affinity"
    /\ UNCHANGED <<request, attempt, queries, documents, prior, repairing>>

(* A deliberately wrong variant: also when there is none.                  *)
Scopes_AlwaysFanned == IF request.intent \in {"CROSS_SOURCE", "CODE_ASSISTED"}
                       THEN {{type} : type \in request.scope} ELSE {request.scope}

(* Some routes search each source type on its own.                         *)
Scopes == IF request.intent \in {"CROSS_SOURCE", "CODE_ASSISTED"} /\ request.scope # {}
          THEN {{type} : type \in request.scope} ELSE {request.scope}

InScope == {d \in Docs : request.scope = {} \/ d.type \in request.scope}

(* A repair keeps the candidates it had in the running.                    *)
Reachable == InScope \cup (IF preserve THEN ToSet(candidates) ELSE {})

(* The queries after the translation took its place, or lost it.           *)
Translated ==
    IF slot = 0 THEN {queries}
    ELSE LET accepted == ReplaceAt(queries, slot, "translation")
         IN  {RemoveAt(queries, slot), accepted}
             \cup (IF Len(queries) < MaxVariants
                   THEN {Append(accepted, "terminology")} ELSE {})

(* Searched while the translation is awaited.                              *)
BaseQueries == {queries[i] : i \in DOMAIN queries \ {slot}}

Retrieve ==
    /\ pc = "retrieve" /\ ~SectionLookup
    /\ queries' \in Translated
    /\ searched' = (BaseQueries \cup ToSet(queries')) \X Scopes
    /\ \E found \in SUBSET Reachable : candidates' \in SetToSeqs(found)
    /\ slot' = 0 /\ preserve' = FALSE
    /\ pc' = "affinity"
    /\ UNCHANGED <<request, attempt, documents, prior, repairing>>

-----------------------------------------------------------------------------
(* What an inventory or an overview may list; a feature is listed once.    *)
Listed(s) ==
    LET listed == Selected(s, LAMBDA d : d \in request.listed)
    IN  IF request.intent = "FEATURE_INVENTORY"
        THEN FirstOfEach(listed, "source") ELSE listed

(* Exact evidence takes the place of similar evidence.                     *)
Current(s) == Selected(s, LAMBDA d : d.current)

AskedState == request.intent = "DELIVERY" /\ request.status

(* A deliberately wrong variant: a named title goes before the state asked *)
(* for.                                                                    *)
Preferred_TitleFirst ==
    LET named == Selected(candidates, LAMBDA d : d \in request.titled)
    IN  IF named # <<>> THEN named
        ELSE IF AskedState THEN Current(candidates)
        ELSE IF request.sections # <<>> THEN request.sections
        ELSE candidates

Preferred ==
    IF AskedState /\ Current(candidates) # candidates THEN Current(candidates)
    ELSE IF request.sections # <<>> THEN request.sections
    ELSE IF request.intent = "PROJECT_OVERVIEW" THEN Listed(candidates)
    ELSE LET named == Selected(candidates, LAMBDA d : d \in request.titled)
         IN  IF named # <<>> THEN named ELSE candidates

FeatureAffinity ==
    /\ pc = "affinity"
    /\ candidates' = Preferred
    /\ pc' = "rerank"
    /\ UNCHANGED <<request, attempt, queries, slot, searched, preserve, documents,
                   prior, repairing>>

-----------------------------------------------------------------------------
Inventory == request.intent \in {"FEATURE_INVENTORY", "CODE_INVENTORY"}

TopN == CASE request.intent = "PROJECT_OVERVIEW" -> Most(3, RerankTopN)
          [] Inventory -> InventoryTopN
          [] request.intent \in {"CROSS_SOURCE", "CODE_ASSISTED"} -> MixedTopN
          [] OTHER -> RerankTopN

(* The rankings a route may come to, before anything is protected.         *)
CrossSourceRankings(all) ==
    LET Of(type) == {d \in all : d.type = type}
        Share(type) == IF all = Of(type) THEN MixedTopN ELSE PageTopN
    IN  {Alternate(p, c) : p \in Rankings(Of("PAGE"), Share("PAGE")),
                           c \in Rankings(Of("CODE"), Share("CODE"))}

Ranked ==
    LET all == ToSet(candidates)
        located == {d \in all : d \in request.located}
        exact == {d \in all : d.anchored /\ d.type = "PAGE"}
    IN  IF request.intent = "IMPLEMENTATION" /\ located # {} THEN
            Arrangements(located, TopN)
        ELSE IF request.intent = "DELIVERY" /\ Len(candidates) = 1 THEN {candidates}
        ELSE IF request.intent = "STRUCTURED_INVENTORY" /\ exact # {} THEN
            Arrangements(exact, TopN)
        ELSE IF request.intent = "PROJECT_OVERVIEW" THEN
            {r \in Rankings(all, TopN) : r = <<>> => all = {}}
        ELSE IF request.intent = "FEATURE_INVENTORY" THEN
            IF request.listing THEN Arrangements(all, TopN)
            ELSE {Window(Listed(r), TopN) : r \in SetToSeqs(all)}
        ELSE IF request.intent = "CODE_INVENTORY" THEN
            Arrangements(ToSet(Listed(candidates)), TopN)
        ELSE IF request.procedural THEN
            {r \in Rankings(all, TopN) : r = <<>> => all = {}}
        ELSE IF request.intent \in {"CODE_ASSISTED", "STRUCTURED_INVENTORY"} THEN
            Rankings({d \in all : d.type \in {"PAGE", "CODE"}}, MixedTopN)
        ELSE IF request.intent = "CROSS_SOURCE" THEN CrossSourceRankings(all)
        ELSE IF request.intent = "ENTITY_OVERVIEW" THEN
            {Window(DiverseOrder(r), TopN) : r \in SetToSeqs(all)}
        ELSE IF request.intent = "IMPLEMENTATION" THEN Rankings(all, Cardinality(all))
        ELSE Rankings(all, RerankTopN)

(* A deliberately wrong variant: with the threshold.                       *)
Fallback_Thresholded(s) ==
    IF s # <<>> \/ candidates = <<>> THEN {s} ELSE Rankings(ToSet(candidates), TopN)

(* When nothing is left, the candidates are ranked without a threshold.    *)
Fallback(s) ==
    IF s # <<>> \/ candidates = <<>> THEN {s}
    ELSE Rankings(ToSet(candidates), TopN) \ {<<>>}

Neighborly == request.intent \notin {"ENTITY_OVERVIEW", "PROJECT_OVERVIEW", "CROSS_SOURCE"}
              /\ ~Inventory

Shaped(ranked) ==
    LET anchored == ProtectAnchors(ranked, candidates, TopN)
        wider == IF Neighborly /\ anchored # <<>>
                 THEN ExpandNeighbors(anchored, candidates, TopN) ELSE anchored
        kept == CASE request.intent = "FEATURE_INVENTORY" /\ ~request.listing -> Listed(wider)
                  [] request.intent = "CODE_INVENTORY" -> Listed(wider)
                  [] request.intent = "ENTITY_OVERVIEW" -> DiverseOrder(wider)
                  [] request.intent = "PROJECT_OVERVIEW" -> DiverseOrder(Listed(wider))
                  [] OTHER -> wider
    IN  IF request.intent = "FEATURE_INVENTORY" THEN ReserveForPages(kept, TopN) ELSE kept

(* A deliberately wrong variant: the pass before is forgotten.             *)
Merged_Afresh(shaped) ==
    LET whole == PinRequirements(shaped, candidates, repairing, TopN)
        kept == IF request.intent = "FEATURE_INVENTORY"
                THEN ReserveForPages(whole, TopN) ELSE whole
    IN  IF request.listing THEN Window(kept, TopN)
        ELSE Window(DiverseOrder(kept), TopN)

(* What was selected, what the pass before had, and what it was short of.  *)
Merged(shaped) ==
    LET whole == PinRequirements(MergeRanked(shaped, prior, TopN), candidates,
                                 repairing, TopN)
        kept == IF request.intent = "FEATURE_INVENTORY"
                THEN ReserveForPages(whole, TopN) ELSE whole
    IN  IF request.listing THEN Window(kept, TopN)
        ELSE Window(DiverseOrder(kept), TopN)

ByRecord == request.single \/ request.intent \in {"STRUCTURED_ENTITY", "STRUCTURED_INVENTORY"}

(* The structure of a single record decides which chunk leads it, so any   *)
(* of the window may.                                                      *)
Completed(window) ==
    CASE request.single /\ window # <<>> ->
             {Reconstruct(<<d>>, InScope, TRUE) : d \in ToSet(window)}
      [] ByRecord /\ ~(request.single /\ window # <<>>) ->
             {Reconstruct(window, InScope, FALSE)}
      [] OTHER -> {window}

(* The documents are all about one product, and not the one asked about.   *)
Mismatched(window) ==
    LET declared == {d.entity : d \in ToSet(window)}
        named == declared \ {NoEntity}
    IN  /\ Cardinality(named) = 1
        /\ ~(SectionLookup /\ ToSet(window) \subseteq ToSet(request.sections))
        /\ \/ request.uncertain
           \/ /\ request.asked # NoEntity /\ request.asked \notin named
              /\ NoEntity \notin declared

Route(found) ==
    CASE found # <<>> -> "validate"
      [] found = <<>> /\ attempt < MaxAttempts -> "recover"
      [] OTHER -> "end"

(* Every pass ranks.  _rerank would give a repair whose query and          *)
(* candidates are those scored last its prior documents, but it compares   *)
(* scored_query and scored_candidate_ids, which RagState does not declare, *)
(* and LangGraph keeps only declared channels.                             *)
Rerank ==
    /\ pc = "rerank"
    /\ \E ranked \in Ranked :
          \E shaped \in Fallback(Shaped(ranked)) :
             \E window \in Completed(Merged(shaped)) :
                documents' = IF Mismatched(window) THEN <<>> ELSE window
    /\ pc' = Route(documents')
    /\ UNCHANGED <<request, attempt, queries, slot, searched, candidates, preserve,
                   prior, repairing>>

-----------------------------------------------------------------------------
RequiredTypes ==
    CASE request.intent = "CODE_INVENTORY" -> <<"CODE">>
      [] request.intent = "DELIVERY" -> <<"ISSUE">>
      [] request.intent = "CROSS_SOURCE" -> <<"PAGE", "CODE">>
      [] request.intent \in {"FEATURE_INVENTORY", "ENTITY_OVERVIEW"} -> <<"PAGE">>
      [] OTHER -> <<>>

Missing ==
    LET types == MissingTypes(RequiredTypes, documents)
    IN  MissingTerms(request.needs, documents)
        \o [i \in DOMAIN types |-> SourceType(types[i])]

(* Repair: one more pass, for what is missing, on top of what there is.    *)
Repair(missing) ==
    /\ attempt < MaxAttempts
    /\ queries' = <<"repair">> /\ attempt' = attempt + 1
    /\ preserve' = TRUE /\ prior' = documents /\ repairing' = missing
    /\ pc' = "retrieve"
    /\ UNCHANGED <<request, slot, searched, candidates, documents>>

(* At the last attempt what there is must do, unless it is irrelevant.     *)
ValidateEvidence ==
    /\ pc = "validate"
    /\ \/ Missing = <<>> /\ pc' = "generate"
       \/ Missing # <<>> /\ attempt = MaxAttempts /\ pc' \in {"generate", "end"}
    /\ UNCHANGED <<request, attempt, queries, slot, searched, candidates, preserve,
                   documents, prior, repairing>>

RepairEvidence == pc = "validate" /\ Missing # <<>> /\ Repair(Missing)

(* The answer may leave out what its evidence holds.                       *)
Answered ==
    /\ pc = "generate" /\ pc' = "end"
    /\ UNCHANGED <<request, attempt, queries, slot, searched, candidates, preserve,
                   documents, prior, repairing>>

(* An inventory must cite every source it is written from.                 *)
AllSources == [kind |-> "inventory", of |-> "all_sources"]

RepairAnswer ==
    /\ pc = "generate"
    /\ \E left \in SUBSET ToSet(request.needs), uncited \in SUBSET {AllSources} :
          LET missing == Selected(request.needs, LAMBDA r : r \in left)
                         \o IF uncited = {} THEN <<>> ELSE <<AllSources>>
          IN  missing # <<>> /\ (uncited # {} => Inventory) /\ Repair(missing)

(* Recovery: another wording, if the planner has one.                      *)
Recover ==
    /\ pc = "recover"
    /\ attempt' = attempt + 1
    /\ \/ queries' = <<"recovery">> /\ pc' = "retrieve"
       \/ queries' = <<>> /\ pc' = "end"
    /\ UNCHANGED <<request, slot, searched, candidates, preserve, documents, prior,
                   repairing>>

Terminated == pc = "end" /\ UNCHANGED vars

Next ==
    \/ RetrieveSections \/ Retrieve \/ FeatureAffinity \/ Rerank
    \/ ValidateEvidence \/ RepairEvidence \/ Answered \/ RepairAnswer \/ Recover
    \/ Terminated

Spec == Init /\ [][Next]_vars

-----------------------------------------------------------------------------
TypeOK ==
    /\ request \in Requests
    /\ pc \in {"retrieve", "affinity", "rerank", "validate", "generate", "recover", "end"}
    /\ attempt \in 1..MaxAttempts
    /\ preserve \in BOOLEAN /\ slot \in 0..Len(queries)
    /\ ToSet(candidates) \cup ToSet(documents) \cup ToSet(prior) \subseteq Docs

(* Every pass that searches searches something: each of its queries, none  *)
(* of them the empty place of a translation, over just the scope planned   *)
(* for the request, however its passes went (_retrieve, _recover_query:    *)
(* a recovery "may never broaden the source policy").                      *)
SearchesAsPlanned ==
    pc = "affinity" /\ ~SectionLookup =>
        /\ searched # {}
        /\ ToSet(queries) = {pair[1] : pair \in searched}
        /\ \A pair \in searched : pair[1] # ""
        /\ \A query \in ToSet(queries) :
              UNION {pair[2] : pair \in {p \in searched : p[1] = query}} = request.scope

(* The window of evidence never holds a chunk twice, nor more chunks than  *)
(* the route's limit unless records take their chunks' place.  A [SOURCE n]*)
(* marker counts on both.                                                  *)
WindowSound ==
    /\ TypeOK
    /\ IsInjective(documents)
    /\ ~ByRecord => Len(documents) <= TopN

(* A repair adds to the evidence it repairs, whatever it found and ranked, *)
(* the same candidates again included: unless chunks that rank before fill *)
(* the window, it still has all that the pass before had                   *)
(* (_merge_ranked_documents) and what was missing, if a candidate had it   *)
(* (_include_repair_evidence).                                             *)
RepairAddsUnlessFull ==
    pc = "validate" /\ ~ByRecord /\ request.intent # "FEATURE_INVENTORY"
    /\ Len(documents) < TopN =>
        /\ ToSet(prior) \subseteq ToSet(documents)
        /\ \A requirement \in ToSet(repairing) :
              (\E d \in ToSet(candidates) : Satisfies(d, requirement))
              => \E d \in ToSet(documents) : Satisfies(d, requirement)

(* A chunk with an identifier of the question is among the evidence if any *)
(* candidate is one, whatever its source type and its rank ("An exact      *)
(* identifier match is protected regardless of source family"), where      *)
(* nothing but the candidates is listed.                                   *)
AnchorKept ==
    /\ pc = "validate" /\ ~request.single /\ ~Inventory
    /\ request.intent = "PROJECT_OVERVIEW" => request.sections = <<>>
    /\ \E d \in ToSet(candidates) : d.anchored
    => \E d \in ToSet(documents) : d.anchored

(* Candidates are not all lost to a threshold: no evidence is left of them *)
(* only if it was about another product than the question's.               *)
EvidenceNotLost ==
    pc = "recover" /\ candidates # <<>> => request.asked # NoEntity \/ request.uncertain

(* What the question needs most survives every threshold and every limit.  *)
EvidenceKept == AnchorKept /\ EvidenceNotLost

(* The state of a ticket is told from its present record, never from its   *)
(* history, in no pass (current_jira_status_evidence).                     *)
PresentStateOnly ==
    AskedState => \A d \in ToSet(documents) : d.current

(* Where records take their chunks' place, a record is there with all of   *)
(* its chunks in scope, or with those of the part that a chunk is known to *)
(* be cut from (_reconstruct_parent_records).                              *)
RecordsWhole ==
    pc = "validate" /\ ByRecord /\ ~request.single =>
        \A d \in ToSet(documents), e \in InScope :
            d.parent # NoParent /\ SameRecord(d, e) => e \in ToSet(documents)

(* What stands for a record is the record: whole, and as it is now.        *)
RecordsFaithful == PresentStateOnly /\ RecordsWhole
=============================================================================
