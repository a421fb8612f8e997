-------------------------- MODULE StructuredQuery ---------------------------
(***************************************************************************)
(* The structured route over several turns of one conversation: the        *)
(* provider_plan, provider_execute and provider_unavailable nodes          *)
(* (workflow_nodes/providers.py), the query scope the response hands the   *)
(* client and the client sends back, and the cached corpora the exact      *)
(* answers are computed from, which change between two pages of a list.    *)
(***************************************************************************)
EXTENDS JiraAggregate, CorpusScan

CONSTANTS
    Questions,      \* what a user may ask
    IndexStates,    \* what the vector index may hold, a sequence of records
    Deployments,    \* settings the service may run with
    MaxTurns, MaxRefreshes      \* bounds of the model

(* The scopes authorized_source_snapshot is called with, each a corpus of its own. *)
Scopes == {{"ISSUE"}, {"ATTACHMENT"}, {"ISSUE", "ATTACHMENT"}}

(* Every record the index may ever hold. *)
Chunks == UNION {{index[i] : i \in DOMAIN index} : index \in IndexStates}

ASSUME ChunksAssumption ==
    IndexStates \subseteq Seq(Chunks) /\ \A r \in Chunks : r.item \in Nat

(* config.py bounds the settings; the page size is a literal. *)
ASSUME DeploymentsAssumption ==
    \A d \in Deployments :
        d.maxListItems \in Nat \ {0} /\ d.pageSize \in Nat \ {0} /\ d.maxRecords \in Nat \ {0}

ASSUME TurnsAssumption == MaxTurns \in Nat /\ MaxRefreshes \in Nat

VARIABLES
    settings,       \* the deployment and the request's enabledProviders
    corpus,         \* the cached scan and the index it read, by scope
    structuredScope,    \* what the client holds of the last answer
    response,       \* the last response
    asked,          \* history: the ticket constraints in force, see Asked
    presumed,       \* history: constraints in force were presumed gone, see Presumes
    shown,          \* history: the items of the listing displayed so far
    steady,         \* history: its corpus did not change since the listing began
    turns, refreshes

history == <<asked, presumed, shown, steady>>
structuredVars == <<settings, corpus, structuredScope, response, history, turns, refreshes>>

NoResponse == [status |-> "NONE"]
NothingAsked == [labels |-> {}, state |-> << >>, topic |-> {}, keys |-> {}]

Statuses == {"NONE", "ANSWERED", "INSUFFICIENT_EVIDENCE", "NEEDS_CLARIFICATION",
             "WORKFLOW", "ERROR"}

Load(index, types) ==
    LET scan == Scan(index, types, settings.pageSize, settings.maxRecords)
    IN  [index |-> index, complete |-> scan.complete, records |-> scan.records]

TypeOK ==
    /\ settings \in Deployments
    /\ \A s \in Scopes : /\ corpus[s].index \in IndexStates
                       /\ \A r \in corpus[s].records : r.type \in s
    /\ \/ structuredScope = NoScope
       \/ /\ structuredScope.operation \in Operations
          /\ structuredScope.offset \in Nat /\ structuredScope.limit \in Nat \ {0}
    /\ response.status \in Statuses
    /\ presumed \in BOOLEAN /\ steady \in BOOLEAN
    /\ turns \in 0..MaxTurns /\ refreshes \in 0..MaxRefreshes

StructuredInit ==
    /\ settings \in Deployments
    /\ \E index \in IndexStates : corpus = [s \in Scopes |-> Load(index, s)]
    /\ structuredScope = NoScope /\ response = NoResponse
    /\ asked = NothingAsked /\ presumed = FALSE /\ shown = {} /\ steady = TRUE
    /\ turns = 0 /\ refreshes = 0
-----------------------------------------------------------------------------
(* provider_plan: the selection, after the caps and the switches of the    *)
(* settings.                                                               *)
Capped_NoCap(query) == query
Capped(query) == [query EXCEPT !.limit = Lesser(@, settings.maxListItems)]

ProviderPlan(q) ==
    LET enabled == IF settings.router THEN settings.enabled ELSE {}
        known == IF settings.conversation THEN structuredScope ELSE NoScope
        selection == SelectProviders(q, enabled, known)
    IN  CASE selection.mode = "STRUCTURED" /\ settings.structured ->
                [selection EXCEPT !.query = Capped(@)]
          [] \/ selection.mode = "STRUCTURED" /\ ~settings.structured
             \/ selection.mode = "FEDERATED" /\ ~settings.federation ->
                [selection EXCEPT !.mode = "LEGACY", !.query = NoQuery]
          [] OTHER -> selection

(* A question goes on with what was asked before, whatever the router makes *)
(* of it, unless it says itself what it is about: it names a provider, a   *)
(* ticket, or tickets ("What are all fixed?", in the documentation's table).*)
Continues(q) ==
    /\ settings.conversation /\ structuredScope # NoScope
    /\ Requested(q) = {} /\ "jira" \notin q.says

(* With one provider enabled the router presumes that each question which  *)
(* states an operation is about it (assume_jira), and a new one: what was  *)
(* asked before is forgotten.                                              *)
Presumes(q, plan) ==
    /\ Continues(q) /\ ~plan.inherited
    /\ Cardinality(settings.enabled) = 1 /\ asked # NothingAsked

(* What the user means by the turns so far, kept apart from the filters the *)
(* router keeps: one slot for the status, whichever field spells it.       *)
StateAsked(q) ==
    CASE "pending" \in q.says -> <<"category", {"new", "indeterminate"}>>
      [] "pending" \notin q.says /\ "fixed" \in q.says -> <<"fixed">>
      [] {"pending", "fixed"} \cap q.says = {} /\ q.statuses # {} ->
            <<"status", q.statuses>>
      [] {"pending", "fixed"} \cap q.says = {} /\ q.statuses = {} /\ q.category # {} ->
            <<"category", q.category>>
      [] OTHER -> << >>
Asked(q) ==
    LET before == IF Continues(q) THEN asked ELSE NothingAsked
        topic == IF "pending" \in q.says THEN q.topic ELSE {}
        Newer(new, old, none) == IF new = none THEN old ELSE new
        section == q.section # "" /\ "more" \notin q.says
    IN  [labels |-> IF section THEN before.labels ELSE Newer(q.labels, before.labels, {}),
         state |-> IF section THEN before.state
                   ELSE Newer(StateAsked(q), before.state, << >>),
         topic |-> IF section THEN before.topic ELSE Newer(topic, before.topic, {}),
         keys |-> Newer(q.keys, before.keys, {})]

(* The page of a LIST or SECTION answer: how far the next one starts, what *)
(* the user sees, and the resultPage.                                      *)
Paged(query) == query.operation \in {"LIST", "SECTION"}
Returned(query, items) ==
    IF Paged(query) THEN Page(items, query.offset, query.limit) ELSE {}
Displayed(query, items) ==
    IF query.operation = "LIST"
    THEN Page(items, query.offset, Lesser(query.limit, settings.maxListItems))
    ELSE Returned(query, items)

Turn == turns' = turns + 1
Execute(plan) == Turn /\ plan.mode = "STRUCTURED"
Respond(status, reason) == response' = [status |-> status, reason |-> reason]
KeepScope == UNCHANGED <<settings, corpus, structuredScope, history, refreshes>>

(* Two resolutions of the records read, all of them or not, could mean     *)
(* "fixed" (_resolve_fixed_filter; sections are answered before it).       *)
Ambiguous(query) ==
    /\ query.operation \notin SectionOperations
    /\ AmbiguousFixed(query.filters, Current(corpus[ScannedTypes(query)].records))

Answer(q, plan) ==
    LET query == plan.query
        records == corpus[ScannedTypes(query)].records
        items == Population(query, records)
        end == query.offset + Cardinality(Returned(query, items))
    IN  /\ Execute(plan)
        /\ corpus[ScannedTypes(query)].complete
        /\ ~Ambiguous(query)
        /\ structuredScope' = [operation |-> query.operation, filters |-> query.filters,
                     offset |-> end, limit |-> query.limit]
        /\ response' = [status |-> "ANSWERED", query |-> query,
                        total |-> Cardinality(items),
                        page |-> Displayed(query, items),
                        hasMore |-> Paged(query) /\ end < Cardinality(items)]
        /\ asked' = Asked(q)
        /\ presumed' = (Presumes(q, plan) \/ (presumed /\ Continues(q)))
        /\ shown' = IF query.offset = 0 THEN Displayed(query, items)
                    ELSE shown \cup Displayed(query, items)
        /\ steady' = (steady \/ query.offset = 0)
        /\ UNCHANGED <<settings, corpus, refreshes>>

(* The user is asked which, over a truncated scan as well: aggregate then  *)
(* says complete=True.                                                     *)
AskResolution(plan) ==
    /\ Execute(plan)
    /\ Ambiguous(plan.query)
    /\ Respond("NEEDS_CLARIFICATION", "AMBIGUOUS_JIRA_RESOLUTION")
    /\ KeepScope

(* The scan was truncated, or took longer than provider_timeout_seconds.   *)
NoSnapshot(plan) ==
    /\ Execute(plan)
    /\ \/ /\ ~corpus[ScannedTypes(plan.query)].complete /\ ~Ambiguous(plan.query)
          /\ Respond("INSUFFICIENT_EVIDENCE", "INCOMPLETE_PROVIDER_SNAPSHOT")
       \/ Respond("INSUFFICIENT_EVIDENCE", "PROVIDER_TIMEOUT")
    /\ KeepScope

(* The read itself failed: nothing catches it and the request fails.       *)
ReadFails(plan) ==
    Execute(plan) /\ Respond("ERROR", "READ_FAILED") /\ KeepScope

ProviderUnavailable(plan) ==
    /\ Turn
    /\ \/ /\ plan.mode = "CLARIFICATION"
          /\ Respond("NEEDS_CLARIFICATION", "STRUCTURED_CONTEXT_REQUIRED")
       \/ /\ plan.mode = "UNAVAILABLE"
          /\ Respond("INSUFFICIENT_EVIDENCE", "PROVIDER_DISABLED")
    /\ KeepScope

(* The question goes to the retrieval workflow: an answer carries a context *)
(* update without a structuredScope, a refusal carries none.               *)
Workflow(plan) ==
    /\ Turn
    /\ plan.mode \in {"LEGACY", "SINGLE_PROVIDER", "FEDERATED"}
    /\ \E answered \in BOOLEAN :
        /\ Respond("WORKFLOW", IF answered THEN "ANSWERED" ELSE "REFUSED")
        /\ IF answered
           THEN /\ structuredScope' = NoScope
                /\ asked' = NothingAsked /\ presumed' = FALSE
                /\ shown' = {} /\ steady' = TRUE
           ELSE UNCHANGED <<structuredScope, history>>
    /\ UNCHANGED <<settings, corpus, refreshes>>

(* The query the listing of the client's scope came from.                  *)
Listing ==
    [operation |-> structuredScope.operation, filters |-> structuredScope.filters,
     section |-> "", offset |-> structuredScope.offset, limit |-> structuredScope.limit]

(* A cached corpus expires and is read again; the index has moved on.      *)
Refresh ==
    /\ refreshes < MaxRefreshes
    /\ \E s \in Scopes, index \in IndexStates :
        /\ corpus' = [corpus EXCEPT ![s] = Load(index, s)]
        /\ corpus' # corpus
        /\ steady' = (steady /\ (structuredScope = NoScope \/ s # ScannedTypes(Listing)))
    /\ refreshes' = refreshes + 1
    /\ UNCHANGED <<settings, structuredScope, response, asked, presumed, shown, turns>>

StructuredNext ==
    \/ /\ turns < MaxTurns
       /\ \E q \in Questions : \E plan \in {ProviderPlan(q)} :
            \/ Answer(q, plan) \/ AskResolution(plan)
            \/ NoSnapshot(plan) \/ ReadFails(plan)
            \/ ProviderUnavailable(plan) \/ Workflow(plan)
    \/ Refresh

StructuredSpec == StructuredInit /\ [][StructuredNext]_structuredVars
-----------------------------------------------------------------------------
(* The pages of a listing tile it: whatever turns come between two "show   *)
(* more" (clarifications, refusals, timeouts, disabled providers), the     *)
(* items displayed are the first nextOffset ones of the result set, each   *)
(* once and none left out, as long as the corpus did not change; and when  *)
(* the last page says there is no more, all of them were displayed.        *)
PagesTile ==
    /\ TypeOK
    /\ structuredScope # NoScope /\ steady =>
        LET items == Population(Listing, corpus[ScannedTypes(Listing)].records)
        IN  /\ shown = Page(items, 0, structuredScope.offset)
            /\ structuredScope.offset <= Cardinality(items)
            /\ response.status = "ANSWERED" /\ Paged(Listing) /\ ~response.hasMore
                    => shown = items

(* An exact answer needs a scan that read the whole scope: when every      *)
(* record of the scope is compatible the flag says so rightly, wherever    *)
(* the ceiling falls with respect to the pages. (With a record of another  *)
(* schema in the last, shortened page it does not: that page is shorter    *)
(* than the page size, admits fewer records than the ceiling allows, and   *)
(* the scan ends as if there were nothing after it.)                       *)
Stored(s) == {r \in {corpus[s].index[i] : i \in DOMAIN corpus[s].index} : r.type \in s}
CompleteIfCompatible ==
    \A s \in Scopes :
        corpus[s].complete /\ (\A r \in Stored(s) : r.compatible)
            => corpus[s].records = Stored(s)

(* The tickets a user who asked all this means, from the documentation's   *)
(* rules: every constraint in force holds, and a newer status replaces the *)
(* older one. "Fixed" means an observed resolution of that name, else done. *)
InState(record, current) ==
    LET state == asked'.state
    IN  CASE state = << >> -> TRUE
          [] state # << >> /\ state[1] = "category" ->
                ValuesOf(record, "status_category_key") \cap state[2] # {}
          [] state # << >> /\ state[1] = "status" -> record.status \in state[2]
          [] OTHER -> IF FixedResolutions(current) # {}
                      THEN record.resolution \in FixedResolutions(current)
                      ELSE "done" \in ValuesOf(record, "status_category_key")
OnTopic(record, current) ==
    LET topic == asked'.topic
        exact == topic \cap ObservedLabels(current)
        alias == IF exact # {} THEN exact ELSE TopicAlias(current, topic)
    IN  \/ topic = {}
        \/ alias = {} /\ topic \subseteq record.title \cup record.labels
        \/ record.labels \cap alias # {}
MeansTicket(record, current) ==
    /\ asked'.labels # {} => record.labels \cap asked'.labels # {}
    /\ asked'.keys # {} => record.key \in asked'.keys
    /\ InState(record, current)
    /\ OnTopic(record, current)
Meant(query, records) ==
    LET looked == IF query.operation \in SectionOperations
                  THEN {r \in records : InSection(r, SectionKind(query))}
                  ELSE Current(records)
    IN  {r.item : r \in {c \in looked : MeansTicket(c, Current(records))}}

(* A filter that the records the operation looks at cannot meet: the       *)
(* section a listing before was about, or an unresolved "fixed" or topic.  *)
LeftOver(query) ==
    IF query.operation \in SectionOperations
    THEN {"fixed", "topic"} \cap DOMAIN query.filters # {}
    ELSE "section_kind" \in DOMAIN query.filters

Answered == turns' > turns /\ response'.status = "ANSWERED"
ExactFor(query) ==
    query.operation \in TicketOperations \cup SectionOperations =>
        LET records == corpus[ScannedTypes(query)].records
        IN  response'.total = Cardinality(Meant(query, records))

(* An exact total is the number of tickets, or of events, that meet every  *)
(* constraint of the conversation, as its user means it and whatever the   *)
(* router takes for a continuation, through inherited, replaced and        *)
(* re-resolved filters.  There are two ways to a wrong one: the query drags *)
(* along a filter of the other kind of listing (LeftOver), or the only     *)
(* provider was presumed to be asked something new (Presumes).             *)
ExactAsAsked ==
    [][Answered /\ ~LeftOver(response'.query) /\ ~presumed' => ExactFor(response'.query)]_structuredVars
=============================================================================
