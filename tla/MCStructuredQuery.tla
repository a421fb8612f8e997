------------------------- MODULE MCStructuredQuery --------------------------
EXTENDS StructuredQuery

Ticket(key, labels, title, status, category, resolution) ==
    [item |-> key, part |-> 1, key |-> key, kind |-> "CURRENT", type |-> "ISSUE",
     labels |-> labels, title |-> title, status |-> status,
     category |-> category, resolution |-> resolution, compatible |-> TRUE]
Chunk(ticket, item, part, kind, type) ==
    [ticket EXCEPT !.item = item, !.part = part, !.kind = kind, !.type = type]

(* An event is two chunks, and so is one ticket; one ticket has no         *)
(* category yet; the word "print" is in two titles, the label on three.    *)
Board(first, third, fourth) ==
    LET one == Ticket(1, {"POS"}, {"print"}, "Done", "", first)
        two == Ticket(2, {"POS"}, {"print"}, "To Do", "new", "")
        three == Ticket(3, {"POS"}, {"layout"}, third[1], third[2], "")
        four == Ticket(4, {"BOT"}, {"layout"}, "Closed", "done", fourth)
    IN  <<four, one, [one EXCEPT !.part = 2], two, three,
          Chunk(one, 11, 1, "", "ATTACHMENT"),
          Chunk(two, 21, 1, "COMMENT", "ISSUE"), Chunk(two, 21, 2, "COMMENT", "ISSUE"),
          Chunk(four, 41, 1, "COMMENT", "ISSUE")>>
Doing == <<"In Progress", "indeterminate">>
(* In the second index one chunk is still of the previous schema, where    *)
(* the smaller ceiling falls.                                              *)
MCIndexStates == {Board("", Doing, ""),
              [Board("", <<"QA", "">>, "Fixed") EXCEPT ![8].compatible = FALSE],
              Board("Fixed", Doing, "Resolved")}

Silent == [says |-> {}, section |-> "", keys |-> {}, labels |-> {},
           category |-> {}, statuses |-> {}, topic |-> {}]
Saying(patterns) == [Silent EXCEPT !.says = patterns]
Jira == {"jira", "jiraExplicit"}
MCQuestions == {
    Silent,                                                     \* an unrelated question
    Saying({"more", "list"}),                                   \* show more
    Saying(Jira \cup {"list", "all"}),                          \* list all Jira tickets
    [Saying({"jira", "count"}) EXCEPT !.labels = {"POS"}],      \* how many POS tickets
    Saying({"list", "all", "fixed"}),                           \* what are all fixed?
    [Saying({"instead"}) EXCEPT !.labels = {"BOT"}],            \* what about BOT?
    [Saying({"count"}) EXCEPT !.category = {"done"}],           \* how many are done?
    [Saying({"list"}) EXCEPT !.statuses = {"In Progress"}],     \* which is in progress
    [Saying({"jira", "pending"}) EXCEPT !.topic = {"print"}, !.category = {"new"}],
    [Saying({"list"}) EXCEPT !.section = "COMMENT"],            \* show comments
    [Saying(Jira \cup {"count"}) EXCEPT !.section = "COMMENT"],
    [Saying(Jira \cup {"list"}) EXCEPT !.section = "ATTACHMENT"],
    Saying(Jira \cup {"distribution"}),                         \* Jira status report
    Saying(Jira \cup {"overview"}),                             \* summarize Jira
    [Silent EXCEPT !.keys = {2}],                               \* what is T-2 about?
    [Saying({"children", "cross"}) EXCEPT !.keys = {2}],
    [Saying({"cross", "github"}) EXCEPT !.keys = {2}],          \* is T-2 implemented on GitHub
    Saying(Jira \cup {"cross"}),
    Saying({"github"})}

Everything == [router |-> TRUE, structured |-> TRUE, federation |-> TRUE,
               conversation |-> TRUE, enabled |-> Providers, maxListItems |-> 2,
               pageSize |-> 3, maxRecords |-> 10]
MCDeployments == {
    Everything,
    [Everything EXCEPT !.enabled = {"JIRA"}, !.maxListItems = 1],
    [Everything EXCEPT !.conversation = FALSE, !.federation = FALSE],
    [Everything EXCEPT !.structured = FALSE],
    [Everything EXCEPT !.maxRecords = 7],
    [Everything EXCEPT !.router = FALSE]}
=============================================================================
