--------------------------- MODULE ProviderRouter ---------------------------
(***************************************************************************)
(* providers/router.py: which provider answers a question, and the Jira    *)
(* query a structured question stands for, as functions of what the        *)
(* router's patterns find in the question.                                 *)
(*                                                                         *)
(* A question is a record: `says' holds the patterns that match, `section' *)
(* the Jira section it names, and the other fields the values the patterns *)
(* extract (issue keys, label tokens, status words, topic words).          *)
(***************************************************************************)
EXTENDS Naturals, FiniteSets

Providers == {"JIRA", "GITHUB", "CONFLUENCE"}
Patterns == {"jira", "jiraExplicit", "github", "confluence", "count", "list",
             "distribution", "overview", "cross", "more", "fixed", "children",
             "pending", "all", "instead"}

(* _jira_structured_query and StructuredQuery: pages of 50, of 20 for sections. *)
DefaultPage == 50
SectionPage == 20

TicketOperations == {"COUNT", "LIST", "DISTRIBUTION"}
SectionOperations == {"SECTION", "SECTION_COUNT"}
Operations == TicketOperations \cup SectionOperations \cup {"OVERVIEW", "DETAIL"}

(* Filters are a function from the fields that are filtered to the values  *)
(* accepted.                                                               *)
Single(field, values) == [f \in {field} |-> values]
Updated(old, new) ==
    [f \in DOMAIN old \cup DOMAIN new |->
        IF f \in DOMAIN new THEN new[f] ELSE old[f]]
Dropping(filters, fields) == [f \in DOMAIN filters \ fields |-> filters[f]]
Present(filters) ==
    [f \in {g \in DOMAIN filters : filters[g] # {}} |-> filters[f]]

NoQuery == [operation |-> "NONE"]
Query(operation, filters, section, limit) ==
    [operation |-> operation, filters |-> filters, section |-> section,
     offset |-> 0, limit |-> limit]

(* _jira_filters: a status word yields to "fixed" and to an exact status.  *)
JiraFilters(q) ==
    Present([labels |-> q.labels,
             fixed |-> IF "fixed" \in q.says THEN {"AUTO"} ELSE {},
             status_category_key |->
                IF "fixed" \in q.says \/ q.statuses # {} THEN {} ELSE q.category,
             status |-> q.statuses])

(* The filters of an aggregate: pending work overrides the status word.    *)
AggregateFilters(q) ==
    IF "pending" \in q.says
    THEN Updated(JiraFilters(q),
                 Present([status_category_key |-> {"new", "indeterminate"},
                          topic |-> q.topic]))
    ELSE JiraFilters(q)

AggregateOperation(q) ==
    IF "overview" \in q.says THEN "OVERVIEW"
    ELSE IF "distribution" \in q.says THEN "DISTRIBUTION"
    ELSE IF "count" \in q.says THEN "COUNT"
    ELSE IF \/ "pending" \in q.says
            \/ /\ "list" \in q.says
               /\ "all" \in q.says \/ DOMAIN AggregateFilters(q) # {}
         THEN "LIST"
    ELSE "NONE"

JiraStructuredQuery(q, assumeJira) ==
    LET keyed == Present([issue_key |-> q.keys])
    IN  IF ~("jira" \in q.says \/ assumeJira \/ q.keys # {})
        THEN NoQuery
        ELSE IF q.keys # {} /\ q.says \cap {"github", "confluence"} # {}
        THEN NoQuery
        ELSE IF q.keys # {} /\ "children" \in q.says
        THEN Query("DETAIL", keyed, "", DefaultPage)
        ELSE IF /\ q.section # ""
                /\ q.keys # {} \/ assumeJira \/ "jiraExplicit" \in q.says
        THEN Query(IF "count" \in q.says THEN "SECTION_COUNT" ELSE "SECTION",
                   Updated(Single("section_kind", {q.section}), keyed),
                   q.section, SectionPage)
        ELSE IF q.keys # {} /\ "cross" \notin q.says
        THEN Query("DETAIL", keyed, "", DefaultPage)
        ELSE IF AggregateOperation(q) = "NONE"
        THEN NoQuery
        ELSE Query(AggregateOperation(q), Updated(AggregateFilters(q), keyed),
                   "", DefaultPage)

(* What the client sends back of the answer before, or NoScope.            *)
NoScope == [operation |-> "NONE"]
StatusFields_NoFixed == {"status", "status_category_key", "resolution"}
StatusFields == {"status", "status_category_key", "resolution", "fixed"}

(* "Show more": the next page of what was listed, or the list of what was counted. *)
NextPage(scope) ==
    [operation |-> CASE scope.operation \in TicketOperations -> "LIST"
                     [] scope.operation = "SECTION_COUNT" -> "SECTION"
                     [] OTHER -> scope.operation,
     filters |-> scope.filters,
     section |-> IF "section_kind" \in DOMAIN scope.filters
                 THEN CHOOSE kind \in scope.filters["section_kind"] : TRUE
                 ELSE "",
     offset |-> scope.offset, limit |-> scope.limit]

(* The filters a continuation runs with: a new status replaces the old one, *)
(* whatever field holds it.                                                *)
Inherited(filters, incoming) ==
    Updated(IF DOMAIN incoming \cap StatusFields # {}
            THEN Dropping(filters, StatusFields) ELSE filters, incoming)

JiraStructuredFollowup(q, scope) ==
    LET candidate == JiraStructuredQuery(q, TRUE)
    IN  IF "more" \in q.says
        THEN NextPage(scope)
        ELSE IF candidate # NoQuery
        THEN [candidate EXCEPT
                !.filters = IF "issue_key" \in DOMAIN candidate.filters
                            THEN candidate.filters
                            ELSE Inherited(scope.filters, candidate.filters),
                !.limit = scope.limit]
        ELSE IF q.labels # {} /\ "instead" \in q.says
        THEN Query(scope.operation,
                   Updated(scope.filters, Single("labels", q.labels)),
                   "", scope.limit)
        ELSE NoQuery

Requested(q) ==
    {p \in Providers :
        \/ p = "JIRA" /\ ("jiraExplicit" \in q.says \/ q.keys # {})
        \/ p = "GITHUB" /\ "github" \in q.says
        \/ p = "CONFLUENCE" /\ "confluence" \in q.says}

Selection(mode, providers, query, inherited) ==
    [mode |-> mode, providers |-> providers, query |-> query,
     inherited |-> inherited]

SelectProviders(q, enabled, scope) ==
    LET requested == Requested(q)
        fresh == IF "JIRA" \in enabled
                 THEN JiraStructuredQuery(q, Cardinality(enabled) = 1)
                 ELSE NoQuery
        inherited == /\ fresh = NoQuery /\ scope # NoScope
                     /\ requested = {} /\ "JIRA" \in enabled
        query == IF inherited THEN JiraStructuredFollowup(q, scope) ELSE fresh
    IN  IF requested \ enabled # {}
        THEN Selection("UNAVAILABLE", requested \ enabled, NoQuery, FALSE)
        ELSE IF query # NoQuery
        THEN Selection("STRUCTURED", {"JIRA"}, query, inherited)
        ELSE IF Cardinality(requested) > 1
        THEN Selection("FEDERATED", requested, NoQuery, FALSE)
        ELSE IF "JIRA" \in requested /\ "cross" \in q.says
        THEN Selection("FEDERATED", enabled, NoQuery, FALSE)
        ELSE IF requested # {}
        THEN Selection("SINGLE_PROVIDER", requested, NoQuery, FALSE)
        ELSE IF /\ scope = NoScope
                /\ "more" \in q.says \/ {"fixed", "list"} \subseteq q.says
        THEN Selection("CLARIFICATION", {"JIRA"}, NoQuery, FALSE)
        ELSE Selection("LEGACY", {}, NoQuery, FALSE)
=============================================================================
