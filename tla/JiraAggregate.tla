--------------------------- MODULE JiraAggregate ----------------------------
(***************************************************************************)
(* providers/indexed.py: what an exact Jira query returns of the records   *)
(* of one authorized snapshot.                                             *)
(*                                                                         *)
(* A record stands for an indexed chunk. `item' is the stable identity the *)
(* adapter groups by (the issue of a CURRENT chunk, the event of a section *)
(* chunk), a number in the order the adapter sorts by; several chunks may  *)
(* have one.                                                               *)
(***************************************************************************)
EXTENDS ProviderRouter

(* The corpus scopes the operations scan.                                  *)
SectionKind(query) ==
    IF query.section # "" THEN query.section
    ELSE CHOOSE kind \in query.filters["section_kind"] : TRUE

ScannedTypes(query) ==
    CASE query.operation \in SectionOperations ->
            IF SectionKind(query) = "ATTACHMENT" THEN {"ATTACHMENT"} ELSE {"ISSUE"}
      [] query.operation \in {"OVERVIEW", "DETAIL"} -> {"ISSUE", "ATTACHMENT"}
      [] OTHER -> {"ISSUE"}

Current(records) == {r \in records : r.type = "ISSUE" /\ r.kind = "CURRENT"}

(* _resolve_fixed_filter. Every record built by _document_from_fields has  *)
(* a status_category_key, be it empty, so the exact-status fallback is for *)
(* an empty snapshot only.                                                 *)
FixedResolutions(current) ==
    {r.resolution : r \in current} \cap {"Fixed", "Resolved"}
AmbiguousFixed(filters, current) ==
    "fixed" \in DOMAIN filters /\ Cardinality(FixedResolutions(current)) > 1
ResolveFixed(filters, current) ==
    IF "fixed" \notin DOMAIN filters THEN filters
    ELSE Updated(Dropping(filters, {"fixed"}),
            CASE FixedResolutions(current) # {} ->
                    Single("resolution", FixedResolutions(current))
              [] FixedResolutions(current) = {} /\ current # {} ->
                    Single("status_category_key", {"done"})
              [] OTHER -> Single("status", {"Done"}))

(* _resolve_topic_filter: an observed label by that name, else the one     *)
(* label that goes with the topic clearly more often than any other.       *)
Mentions(current, topic) == {r \in current : topic \subseteq r.title \cup r.labels}
ObservedLabels(current) == UNION {r.labels : r \in current}
Together(current, topic, label) ==
    Cardinality({r \in current : topic \subseteq r.title /\ label \in r.labels})
Frequency(current, label) == Cardinality({r \in current : label \in r.labels})
AliasCandidates(current, topic) ==
    {l \in ObservedLabels(current) :
        /\ Together(current, topic, l) >= 2
        /\ \/ Frequency(current, l) <= 3
           \/ 10 * Frequency(current, l) <= 8 * Cardinality(current)}
(* The scores compared are count / sqrt(frequency), best >= 1.5 * second.  *)
ClearlyBetter(current, topic, l, m) ==
    4 * Together(current, topic, l)^2 * Frequency(current, m)
        >= 9 * Together(current, topic, m)^2 * Frequency(current, l)
TopicAlias(current, topic) ==
    {l \in AliasCandidates(current, topic) :
        /\ Frequency(current, l) > Cardinality(Mentions(current, topic))
        /\ \A m \in AliasCandidates(current, topic) \ {l} :
              ClearlyBetter(current, topic, l, m)}
ResolveTopic(filters, current) ==
    IF "topic" \notin DOMAIN filters \/ current = {} THEN filters
    ELSE LET topic == filters["topic"]
             exact == topic \cap ObservedLabels(current)
             alias == IF exact # {} THEN exact ELSE TopicAlias(current, topic)
         IN  IF alias = {} THEN filters
             ELSE Updated(Dropping(filters, {"topic"}),
                          Single("topic_alias_label", alias))

(* _matches. A record has no value for a field it does not carry, and then *)
(* no filter on that field accepts it.                                     *)
LegacyCategory(status) ==
    CASE status = "To Do" -> {"new"}
      [] status \in {"In Progress", "QA"} -> {"indeterminate"}
      [] status \in {"Done", "Closed"} -> {"done"}
      [] OTHER -> {}
ValuesOf(record, field) ==
    CASE field \in {"labels", "topic_alias_label"} -> record.labels
      [] field = "status" -> {record.status}
      [] field = "status_category_key" ->
            IF record.category # "" THEN {record.category}
            ELSE LegacyCategory(record.status)
      [] field = "resolution" -> {record.resolution} \ {""}
      [] field = "issue_key" -> {record.key}
      [] OTHER -> {}
Matches(record, filters) ==
    \A field \in DOMAIN filters :
        IF field = "topic" THEN filters[field] \subseteq record.title \cup record.labels
        ELSE ValuesOf(record, field) \cap filters[field] # {}

MatchedTickets(query, records) ==
    LET current == Current(records)
        filters == ResolveTopic(ResolveFixed(query.filters, current), current)
    IN  {r.item : r \in {c \in current : Matches(c, filters)}}
InSection(record, kind) ==
    \/ record.kind = kind
    \/ kind = "ATTACHMENT" /\ record.type = "ATTACHMENT"
MatchedSections(query, records) ==
    {r.item : r \in {c \in records :
        /\ InSection(c, SectionKind(query))
        /\ Matches(c, Dropping(query.filters, {"section_kind"}))}}

(* The result set of the query, each issue or event once.                  *)
Population(query, records) ==
    IF query.operation \in SectionOperations
    THEN MatchedSections(query, records)
    ELSE MatchedTickets(query, records)

(* ordered[offset : offset + limit] *)
Rank(items, i) == Cardinality({j \in items : j < i})
Page(items, offset, limit) ==
    {i \in items : offset <= Rank(items, i) /\ Rank(items, i) < offset + limit}
=============================================================================
