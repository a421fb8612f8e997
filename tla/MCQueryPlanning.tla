--------------------------- MODULE MCQueryPlanning ---------------------------
(* TLC instances of QueryPlanning. *)
EXTENDS QueryPlanning

MCQuestions ==
    {q \in [form : Forms, topic : Topics \cup {NoTopic}, words : 1..2,
            complete : BOOLEAN, points : BOOLEAN] :
        /\ q.topic = NoTopic => q.words = 1
        /\ q.form = "attribute" => q.topic = NoTopic /\ q.points
        /\ q.form \in {"fragment", "subtopic"} => q.topic # NoTopic
        /\ q.form = "subtopic" => q.words = 2
        /\ q.form \notin {"plain", "attribute"} => ~q.points /\ ~q.complete
        /\ q.complete => q.topic # NoTopic /\ ~q.points}

(* A route with an intent, or an intent with what decides its queries. *)
MCPatternSets ==
    LET routes == {{r} \cup i : r \in PlanningPatterns \cup SubjectPatterns,
                                i \in {{}} \cup {{j} : j \in IntentPatterns}}
        directs == {i \cup q : i \in {{}} \cup {{j} : j \in IntentPatterns},
                               q \in {{}} \cup {{k} : k \in QueryPatterns}
                                        \cup {{"noisy"}, {"attachments"}, {"section"}} \cup {{"noisy", "weak"}, {"attachments", "section"}}}
    IN  {s \cup l : s \in routes \cup directs \cup {{"single_record", "entity_details"}},
                    l \in {{}, {"english"}}}

(* The corpora and the selections that differ in what they leave to search. *)
MCDeployments ==
    LET made(types, mode, providers, available, settings) ==
            [types |-> types, mode |-> mode, providers |-> providers,
             available |-> available, settings |-> settings]
        corpora == {{}, Types, {"PAGE"}, {"PAGE", "CODE"}, {"ISSUE", "ATTACHMENT"}}
        selections == {<<"SINGLE_PROVIDER", {"CONFLUENCE"}, {"CONFLUENCE", "JIRA"}>>,
                       <<"SINGLE_PROVIDER", {"JIRA"}, Providers>>,
                       <<"FEDERATED", {"JIRA", "GITHUB"}, Providers>>,
                       <<"LEGACY", {}, {}>>, <<"LEGACY", {}, {"GITHUB"}>>,
                       <<"LEGACY", {}, Providers>>}
    IN  {made(c, s[1], s[2], s[3], {"translation"}) : c \in corpora, s \in selections}
        \cup {made({"PAGE", "CODE"}, "LEGACY", {}, Providers, settings) :
                 settings \in SUBSET {"translation", "expansion", "hyde"}}
=============================================================================
