--------------------------- MODULE QueryPlanning ---------------------------
(***************************************************************************)
(* From the resolved question to the searches of its passes: the route and *)
(* the source types of planning.py and query_analysis.py, the narrowing by *)
(* the provider selection, and in retrieval.py the searches themselves,    *)
(* with the translation and the base searches running as tasks.            *)
(*                                                                         *)
(* The plan reads a question through its patterns: a set of them is chosen *)
(* when the plan needs it.  Queries are named for what they are.  The turn *)
(* that is planned is the last one followed.                               *)
(***************************************************************************)
EXTENDS Conversation

(* What a question may match: the routes of planning.py and those of        *)
(* query_analysis.py, the words of its intent, and what else decides its    *)
(* queries.                                                                 *)
PlanningPatterns == {"single_record", "entity_details", "entity_attribute", "inventory", "flow"}
SubjectPatterns == {"code_inventory", "features", "entity_overview", "project_overview"}
IntentPatterns == {"issue", "ticket_document", "ticket_work", "identifier", "compare",
                   "implementation"}
QueryPatterns == {"weak", "multi_part", "code_location"}
NoisePatterns == {"noisy"}
OtherPatterns == {"english", "attachments", "section"}
Patterns == PlanningPatterns \cup SubjectPatterns \cup IntentPatterns \cup QueryPatterns
                \cup NoisePatterns \cup OtherPatterns

CONSTANTS
    Deployments,     \* [types, mode, providers, available, settings], see Deployment
    PatternSets,     \* the sets of patterns a question may match
    MaxVariants,     \* max_query_variants
    MaxAttempts      \* max_retrieval_attempts

(* types: vocabulary.source_types, none when it was not observed.           *)
(* mode, providers, available: the provider selection of the request.       *)
Types == {"PAGE", "CODE", "ISSUE", "ATTACHMENT"}
Providers == {"JIRA", "GITHUB", "CONFLUENCE"}
Deployment ==
    [types : SUBSET Types, mode : {"SINGLE_PROVIDER", "FEDERATED", "LEGACY"},
     providers : SUBSET Providers, available : SUBSET Providers,
     settings : SUBSET {"translation", "expansion", "hyde"}]

ASSUME DeploymentsAssumption ==
    /\ Deployments \subseteq Deployment
    /\ \A d \in Deployments :
          /\ d.providers \subseteq d.available
          /\ d.mode # "LEGACY" => d.providers # {}
          /\ d.mode = "SINGLE_PROVIDER" => Cardinality(d.providers) = 1
ASSUME PatternsAssumption == \A p \in PatternSets : p \subseteq Patterns
ASSUME VariantsAssumption == MaxVariants \in Nat \ {0} /\ MaxAttempts \in Nat \ {0}

VARIABLES
    deployment,      \* one of Deployments, once it matters
    followup,        \* what the plan reads of the resolution: "none", "rewritten", "subtopic"
    plan,            \* [intent, wants, types, queries, slot, attachments, section], see NoPlan
    allowed,         \* resolved_request.allowed_source_categories
    attempt,         \* retrieval_attempt
    searched,        \* the <<query, scope>> searched, over the passes
    repeated,        \* one of them was searched twice
    base,            \* the gather of the base searches: a task
    translation,     \* the translation of the pass: a task
    looked           \* the deterministic lookups of the pass that ended

planningVars == <<deployment, followup, plan, allowed, attempt, searched, repeated, base, translation, looked>>
vars == <<conversationVars, phase, planningVars>>

(* wants: the types of the route, before any narrowing; slot: the query the *)
(* translation will take, 0 without; the other two are patterns.            *)
NoPlan == [intent |-> "NONE", wants |-> {}, types |-> {}, queries |-> <<>>, slot |-> 0,
           attachments |-> FALSE, section |-> FALSE]

-----------------------------------------------------------------------------
(* Routes and scopes. The empty scope is every source type. *)

Available(type) == deployment.types = {} \/ type \in deployment.types

(* _source_route_intent *)
RouteIntent(p) ==
    LET issues == Available("ISSUE")
        comparable == deployment.types = {} \/ {"PAGE", "CODE"} \subseteq deployment.types
    IN  IF issues /\ "issue" \in p THEN "DELIVERY"
        ELSE IF "ticket_document" \in p THEN "CODE_ASSISTED"
        ELSE IF issues /\ "ticket_work" \in p THEN "DELIVERY"
        ELSE IF "identifier" \in p THEN "CODE_ASSISTED"
        ELSE IF comparable /\ "compare" \in p THEN "CROSS_SOURCE"
        ELSE IF "implementation" \in p THEN "IMPLEMENTATION" ELSE "CODE_ASSISTED"

(* _intent_source_scope *)
IntentScope(intent) ==
    CASE intent \in {"IMPLEMENTATION", "CODE_ASSISTED", "CROSS_SOURCE"} -> {"PAGE", "CODE"}
      [] intent = "DELIVERY" -> {"ISSUE"}
      [] OTHER -> {}

(* _narrow_source_types: of nothing the project has, every type it has. *)
Narrowed(requested) ==
    IF deployment.types = {} THEN requested ELSE requested \cap deployment.types

(* The routes of _plan_queries_core: when each is taken, and the intent and *)
(* the types it plans.                                                      *)
By(taken, intent, types) == [taken |-> taken, intent |-> intent, wants |-> types, types |-> types]

CodeInventory(p) == By("code_inventory" \in p /\ Available("CODE"), "CODE_INVENTORY", {"CODE"})
SingleRecord(p) == By("single_record" \in p /\ "entity_details" \notin p, "CODE_ASSISTED", {})
StructuredEntity(p) == By("entity_details" \in p, "STRUCTURED_ENTITY", {})
EntityAttribute(p) == By("entity_attribute" \in p, "IMPLEMENTATION", {"CODE"})
StructuredInventory(p) == By("inventory" \in p, "STRUCTURED_INVENTORY", {})
ImplementationFlow(p) ==
    By("flow" \in p /\ RouteIntent(p) = "CODE_ASSISTED", "CODE_ASSISTED", {"CODE", "PAGE"})
FeatureInventory(p) == By("features" \in p, "FEATURE_INVENTORY", {"PAGE"})
EntityOverview(p) == By("entity_overview" \in p, "ENTITY_OVERVIEW", {"PAGE"})
ProjectOverview(p) == By("project_overview" \in p, "PROJECT_OVERVIEW", {})

(* Only the scope of an intent is narrowed to what the project has.         *)
ByIntent(taken, p) ==
    [By(taken, RouteIntent(p), IntentScope(RouteIntent(p))) EXCEPT !.types = Narrowed(@)]
ContextualRoute(p) == ByIntent(followup = "subtopic", p)
Direct(p) == ByIntent(TRUE, p)

(* The first that is taken. *)
Routes(p) ==
    <<ContextualRoute(p), CodeInventory(p), SingleRecord(p), StructuredEntity(p), EntityAttribute(p),
      StructuredInventory(p), ImplementationFlow(p), FeatureInventory(p), EntityOverview(p),
      ProjectOverview(p), Direct(p)>>
RouteNumber(p) == SelectInSeq(Routes(p), LAMBDA r : r.taken)
Route(p) == Routes(p)[RouteNumber(p)]
IsDirect(p) == RouteNumber(p) = Len(Routes(p))

(* The provider's source types; a route by default leaves attachments out. *)
SelectedTypes(providers) ==
    UNION {CASE p = "JIRA" -> {"ISSUE", "ATTACHMENT"} [] p = "GITHUB" -> {"CODE"}
             [] p = "CONFLUENCE" -> {"PAGE", "ATTACHMENT"} : p \in providers}
EnabledTypes(providers) ==
    UNION {CASE p = "JIRA" -> {"ISSUE"} [] p = "GITHUB" -> {"CODE"}
             [] p = "CONFLUENCE" -> {"PAGE"} : p \in providers}

Within(types, limit) == IF types \cap limit # {} THEN types \cap limit ELSE limit

WithinProviders_IfAny(types) ==
    IF deployment.mode = "LEGACY" THEN types
    ELSE types \cap SelectedTypes(deployment.providers)

WithinProviders(types) ==
    CASE deployment.mode # "LEGACY" -> Within(types, SelectedTypes(deployment.providers))
      [] deployment.mode = "LEGACY" /\ deployment.available # Providers ->
            Within(types, EnabledTypes(deployment.available))
      [] OTHER -> types

(* "release attachments": planned, and again searched, under this scope.    *)
AttachmentScope(intent, p, types) ==
    IF intent = "DELIVERY" /\ "attachments" \in p THEN {"ISSUE", "ATTACHMENT"} ELSE types

PlannedScope(intent, p, types) == AttachmentScope(intent, p, WithinProviders(types))

-----------------------------------------------------------------------------
(* Queries *)

Truncated(queries) == SubSeq(queries, 1, IF Len(queries) < MaxVariants THEN Len(queries) ELSE MaxVariants)

(* The extra queries of the direct path, each kept only if it is safe and   *)
(* new: the identifiers of the answer before for a follow-up, and the       *)
(* correction of a noisy question.                                          *)
AnchoredQueries == IF followup = "none" THEN {<<>>} ELSE {<<>>, <<"anchored">>}
CorrectedQueries(p) ==
    IF "noisy" \in p THEN {<<>>, <<"corrected">>, <<"corrected", "corrected terms">>} ELSE {<<>>}

OwnQueries(p) ==
    {<<"question">> \o a \o c : a \in AnchoredQueries, c \in CorrectedQueries(p)}

(* expansion_needed *)
Expands(p) ==
    "expansion" \in deployment.settings /\ p \cap {"weak", "multi_part", "code_location"} # {}

Defers(p) ==
    /\ "english" \in p /\ "translation" \in deployment.settings
    /\ ~Expands(p)

(* translate_to_english or translate_to_spanish; <<>> when it fails.        *)
TranslatedQueries(p) ==
    IF "translation" \in deployment.settings /\ ~Defers(p)
    THEN {<<>>, <<"translated">>, <<"translated", "translated terms">>} ELSE {<<>>}

(* plan, and hyde, of the planner model; <<>> when it fails.                *)
PlannerQueries(p, before, translated) ==
    LET plans == {<<>>, <<"candidate">>, <<"candidate", "translated candidate">>}
        hypothesis(m) ==
            "hyde" \in deployment.settings /\ "weak" \in p /\ Len(before \o m) < MaxVariants
    IN  IF Expands(p) \/ ("english" \notin p /\ translated = <<>>)
        THEN plans \cup {Append(m, "hypothesis") : m \in {n \in plans : hypothesis(n)}}
        ELSE {<<>>}

(* The deferred translation holds its place with an empty query, if there   *)
(* is a place left.                                                         *)
DeferredQueries(p) ==
    {[queries |-> Truncated(Append(own, "")), slot |-> IF Len(own) < MaxVariants THEN Len(own) + 1 ELSE 0] :
        own \in OwnQueries(p)}

EagerQueries(p) ==
    LET all == UNION {UNION {{own \o t \o m : m \in PlannerQueries(p, own \o t, t)} :
                                t \in TranslatedQueries(p)} : own \in OwnQueries(p)}
    IN  {[queries |-> Truncated(q), slot |-> 0] : q \in all}

RouteQueries(p) ==
    {[queries |-> Truncated(<<"question", "route query">> \o
                     (IF CodeInventory(p).taken THEN <<>> ELSE <<"second route query">>)),
      slot |-> 0]}

QueriesOf(p) ==
    CASE ~IsDirect(p) -> RouteQueries(p)
      [] IsDirect(p) /\ Defers(p) -> DeferredQueries(p)
      [] IsDirect(p) /\ ~Defers(p) -> EagerQueries(p)

-----------------------------------------------------------------------------
Init ==
    /\ ConversationInit
    /\ deployment = NoTopic /\ followup = "none"
    /\ plan = NoPlan /\ allowed = {} /\ attempt = 0
    /\ searched = {} /\ repeated = FALSE
    /\ base = "none" /\ translation = "none" /\ looked = 0

(* The turn whose plan is followed: what comes after reads no conversation. *)
Follow ==
    /\ phase = "resolved"
    /\ followup' = CASE resolved = Unresolved -> "none"
                     [] resolved # Unresolved /\ ContextualSubtopic(asked, HistorySent) -> "subtopic"
                     [] OTHER -> "rewritten"
    /\ deployment' \in Deployments
    /\ phase' = "planning"
    /\ client' = {} /\ turns' = <<>> /\ active' = NoTopic
    /\ asked' = NoTopic /\ resolved' = Unresolved
    /\ UNCHANGED <<plan, allowed, attempt, searched, repeated, base, translation, looked>>

(* _plan_queries. The patterns of a rewritten question decide with those of *)
(* the subject it carries.                                                  *)
PlanQueries ==
    /\ phase = "planning"
    /\ \E p \in PatternSets : \E q \in QueriesOf(p) :
          plan' = [intent |-> Route(p).intent, wants |-> Route(p).wants,
                   types |-> PlannedScope(Route(p).intent, p, Route(p).types),
                   queries |-> q.queries, slot |-> q.slot,
                   attachments |-> "attachments" \in p, section |-> "section" \in p]
    /\ allowed' = IF plan'.types = {} THEN deployment.types ELSE plan'.types
    /\ attempt' = 1 /\ phase' = "planned"
    /\ UNCHANGED <<conversationVars, deployment, followup, searched, repeated, base, translation, looked>>

SearchScope ==
    IF plan.intent = "DELIVERY" /\ plan.attachments THEN {"ISSUE", "ATTACHMENT"} ELSE plan.types

(* One search per type for the intents that weigh them against each other. *)
Scopes ==
    IF plan.intent \in {"CROSS_SOURCE", "CODE_ASSISTED"} /\ SearchScope # {}
    THEN {{type} : type \in SearchScope}
    ELSE {SearchScope}

SearchFor(queries) ==
    LET pairs == queries \X Scopes
    IN  /\ searched' = searched \cup pairs
        /\ repeated' = (repeated \/ pairs \cap searched # {})

(* An exact section of an issue replaces the searches of the pass. *)
LoadSection ==
    /\ phase = "planned" /\ plan.intent = "DELIVERY" /\ plan.section
    /\ plan' = [plan EXCEPT !.slot = 0, !.types = SearchScope]
    /\ phase' = "evidence"
    /\ UNCHANGED <<conversationVars, deployment, followup, allowed, attempt, searched, repeated, base, translation, looked>>

StartSearches ==
    /\ phase = "planned"
    /\ SearchFor({plan.queries[i] : i \in DOMAIN plan.queries \ {plan.slot}})
    /\ base' = "running"
    /\ translation' = IF plan.slot > 0 THEN "running" ELSE "none"
    /\ looked' = 0 /\ phase' = "lookups"
    /\ UNCHANGED <<conversationVars, deployment, followup, plan, allowed, attempt>>

(* The tasks run on by themselves. *)
BaseEnds ==
    /\ base = "running" /\ base' \in {"found", "raised"}
    /\ UNCHANGED <<conversationVars, phase, deployment, followup, plan, allowed, attempt, searched, repeated, translation, looked>>

TranslationEnds ==
    /\ translation = "running" /\ translation' \in {"accepted", "rejected"}
    /\ UNCHANGED <<conversationVars, phase, deployment, followup, plan, allowed, attempt, searched, repeated, base, looked>>

(* The exact, lexical and rare-term lookups, awaited one after the other.   *)
LookUp ==
    /\ phase = "lookups"
    /\ looked' = looked + 1
    /\ phase' = IF looked' = 3 THEN "base" ELSE "lookups"
    /\ UNCHANGED <<conversationVars, deployment, followup, plan, allowed, attempt, searched, repeated, base, translation>>

AwaitBase_ForgetsTranslation ==
    /\ phase = "base" /\ base = "found"
    /\ phase' = IF translation = "accepted" THEN "translation" ELSE "evidence"
    /\ base' = "none"
    /\ UNCHANGED <<conversationVars, deployment, followup, plan, allowed, attempt, searched, repeated, translation, looked>>

AwaitBase ==
    /\ phase = "base" /\ base = "found"
    /\ phase' = IF translation = "none" THEN "evidence" ELSE "translation"
    /\ base' = "none"
    /\ UNCHANGED <<conversationVars, deployment, followup, plan, allowed, attempt, searched, repeated, translation, looked>>

(* A translation that fails, is unsafe or is known gives up its place.      *)
DropTranslation ==
    /\ phase = "translation" /\ translation = "rejected"
    /\ plan' = [plan EXCEPT !.queries = RemoveAt(@, plan.slot), !.slot = 0, !.types = SearchScope]
    /\ translation' = "none" /\ phase' = "evidence"
    /\ UNCHANGED <<conversationVars, deployment, followup, allowed, attempt, searched, repeated, base, looked>>

SearchTranslated ==
    /\ phase = "translation" /\ translation = "accepted"
    /\ \E terms \in {<<>>, <<"translated terms">>} :
          LET queries == [plan.queries EXCEPT ![plan.slot] = "translated"] \o
                             (IF Len(plan.queries) < MaxVariants THEN terms ELSE <<>>)
          IN  /\ SearchFor({queries[i] : i \in plan.slot..Len(queries)})
              /\ plan' = [plan EXCEPT !.queries = queries, !.slot = 0, !.types = SearchScope]
    /\ translation' = "none" /\ phase' = "translated"
    /\ UNCHANGED <<conversationVars, deployment, followup, allowed, attempt, base, looked>>

TranslatedFound ==
    /\ phase = "translated" /\ phase' = "evidence"
    /\ UNCHANGED <<conversationVars, planningVars>>

(* Enough evidence, or the passes are over. *)
PassEnds ==
    /\ phase = "evidence" /\ phase' = "done"
    /\ UNCHANGED <<conversationVars, planningVars>>

RecoverQuery_Repeats ==
    /\ phase = "evidence" /\ attempt < MaxAttempts
    /\ plan' = [plan EXCEPT !.queries = <<"question">>, !.slot = 0]
    /\ attempt' = attempt + 1 /\ phase' = "planned"
    /\ UNCHANGED <<conversationVars, deployment, followup, allowed, searched, repeated, base, translation, looked>>

(* What the planner model may propose: words of its own, or a query of an   *)
(* earlier pass. Only those of the last pass are refused, and the question  *)
(* as the user typed it, which a rewritten question is not.                 *)
RecoveryCandidates ==
    ({"recovery", "question", "translated"} \ {plan.queries[i] : i \in DOMAIN plan.queries})
        \ (IF followup = "none" THEN {"question"} ELSE {})

(* _recover_query: another query for a pass in the same scope, or none,     *)
(* which ends the request.                                                  *)
RecoverQuery ==
    /\ phase = "evidence" /\ attempt < MaxAttempts
    /\ \/ /\ \E query \in RecoveryCandidates : plan' = [plan EXCEPT !.queries = <<query>>]
          /\ phase' = "planned"
       \/ plan' = [plan EXCEPT !.queries = <<>>] /\ phase' = "done"
    /\ attempt' = attempt + 1
    /\ UNCHANGED <<conversationVars, deployment, followup, allowed, searched, repeated, base, translation, looked>>

(* What is awaited raises, and the request fails.  The tasks that are not   *)
(* awaited are left to run.                                                 *)
Fail ==
    /\ \/ phase \in {"lookups", "translated"} /\ UNCHANGED base
       \/ phase = "base" /\ base = "raised" /\ base' = "none"
    /\ phase' = "failed"
    /\ UNCHANGED <<conversationVars, deployment, followup, plan, allowed, attempt, searched, repeated, translation, looked>>

(* The request is cancelled, and with it what it awaits, nothing else.      *)
Cancel ==
    /\ phase \in {"lookups", "base", "translation", "translated"}
    /\ phase' = "failed"
    /\ base' = IF phase = "base" THEN "none" ELSE base
    /\ translation' = IF phase = "translation" THEN "none" ELSE translation
    /\ UNCHANGED <<conversationVars, deployment, followup, plan, allowed, attempt, searched, repeated, looked>>

Search ==
    \/ LoadSection \/ StartSearches \/ BaseEnds \/ TranslationEnds \/ LookUp
    \/ AwaitBase \/ DropTranslation \/ SearchTranslated \/ TranslatedFound
    \/ PassEnds \/ RecoverQuery \/ Fail \/ Cancel

Ended == phase \in {"done", "failed"} /\ UNCHANGED vars

Next ==
    \/ Converse /\ UNCHANGED planningVars
    \/ Follow \/ PlanQueries \/ Search \/ Ended

Spec == Init /\ [][Next]_vars

-----------------------------------------------------------------------------
(* Properties *)

AttachmentSearch == plan.intent = "DELIVERY" /\ plan.attachments

(* The final gate admits evidence of every scope that was searched, in the  *)
(* recovered passes too, and of no type the plan did not resolve.           *)
AllowedCoversSearched ==
    \A pair \in searched :
        IF pair[2] = {} THEN allowed = deployment.types ELSE pair[2] \subseteq allowed

(* Where a request looks: never beyond the providers selected for it, with  *)
(* one exception, a delivery question about attachments, which is searched  *)
(* in Jira whatever was selected; and everywhere only when the route is for *)
(* every type, or wants types of which the project has none, or when the    *)
(* router is off, which leaves no provider and so no scope at all.  What it *)
(* finds there the final gate admits.                                       *)
ScopeKept ==
    /\ AllowedCoversSearched
    /\ \A pair \in searched :
           LET scope == pair[2]
               limit == IF deployment.mode = "LEGACY" THEN EnabledTypes(deployment.available)
                        ELSE SelectedTypes(deployment.providers)
           IN  AttachmentSearch \/
               /\ deployment.mode # "LEGACY" => scope # {} /\ scope \subseteq limit
               /\ deployment.mode = "LEGACY" /\ deployment.available \notin {{}, Providers} =>
                     scope # {} /\ scope \subseteq limit
               /\ scope = {} /\ plan.wants # {} /\ deployment.available # {} =>
                     plan.wants \cap deployment.types = {}

(* The empty query that holds the place of the translation is never         *)
(* searched, the first pass searches the question itself, within the number *)
(* of variants, and no query is searched twice in a scope, except by a      *)
(* third pass: a recovery is compared with the queries of the pass before   *)
(* it only.                                                                 *)
QueriesSound ==
    /\ repeated => attempt > 2
    /\ \A pair \in searched : pair[1] # ""
    /\ Len(plan.queries) <= MaxVariants
    /\ phase = "lookups" /\ attempt = 1 => \E pair \in searched : pair[1] = "question"

(* A task outlives its request only when the request failed or was          *)
(* cancelled before it awaited the task.                                    *)
OrphansOnlyAfterFailure ==
    phase \in {"planned", "evidence", "done"} => base = "none" /\ translation = "none"
=============================================================================
