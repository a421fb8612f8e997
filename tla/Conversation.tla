---------------------------- MODULE Conversation ----------------------------
(***************************************************************************)
(* A conversation, turn by turn (conversation.py, fail_closed.py and       *)
(* _resolve_conversation_question of planning.py): what a follow-up is     *)
(* taken to be about, and what the service remembers for the next turn.    *)
(* The service keeps nothing itself: the client sends back the active      *)
(* subject of the last answer, or the last messages, or both.              *)
(*                                                                         *)
(* A question is what the patterns find in it: its form, the topic it      *)
(* names and in how many words, whether it is a sentence of its own        *)
(* (_complete_explicit_question), and whether it points at something       *)
(* ("that", "these").                                                      *)
(***************************************************************************)
EXTENDS Naturals, Sequences, FiniteSets, SequencesExt

CONSTANTS
    Topics, NoTopic,
    Known,           \* the topics of the corpus vocabulary; none when it is empty
    Questions,       \* [form, topic, words, complete, points]
    Clients,         \* what a client may send back: subsets of {"context", "history"}
    WindowTurns,     \* conversation_history[-6:], in turns
    BudgetTurns,     \* the turns within max_conversation_history_tokens
    MaxTurns         \* bound on the answered turns of a conversation

Forms == {"plain", "reference", "verb", "fragment", "attribute", "subtopic"}

ASSUME QuestionsAssumption == \A q \in Questions :
    /\ q.form \in Forms /\ q.topic \in Topics \cup {NoTopic} /\ q.words \in 1..2
    /\ q.form = "attribute" => q.topic = NoTopic /\ q.points
    /\ q.form \in {"fragment", "subtopic"} => q.topic # NoTopic /\ ~q.complete
    /\ q.complete => q.topic # NoTopic /\ ~q.points
ASSUME TopicsAssumption == NoTopic \notin Topics
ASSUME WindowAssumption == BudgetTurns \in 1..WindowTurns /\ WindowTurns \in Nat

VARIABLES
    client,          \* what this client sends back
    turns,           \* the answered turns: [topic, subject, carried, about, mentions]
    active,          \* conversationContextUpdate.activeSubject of the last answer
    asked,           \* the question of the turn, or NoTopic
    resolved,        \* [how, carries]: the question retrieval is given
    phase

conversationVars == <<client, turns, active, asked, resolved>>

Unresolved == [how |-> "asked", carries |-> NoTopic]

-----------------------------------------------------------------------------
(* _conversation_subject: a single plain word is no subject. *)
SubjectOf(q) == IF q.words > 1 THEN q.topic ELSE NoTopic

(* _subject_matches_vocabulary, asked only of a vocabulary that is not empty. *)
InVocabulary(topic) == Known = {} \/ topic \in Known

(* What has a subject of its own: a sentence of its own, or a topic in       *)
(* several words with no pronoun.                                           *)
Explicit(q) == q.complete \/ (q.words > 1 /\ ~q.points)

(* _conversation_resolution_decision, with the vocabulary or without it. *)
Decision(q, vocabulary) ==
    LET named == q.topic # NoTopic
    IN  CASE q.form = "reference" -> "REFERENCE"
          [] q.form = "verb" /\ SubjectOf(q) = NoTopic -> "SHORT_VERB_ELLIPSIS"
          [] q.form = "fragment" -> "LEADING_FRAGMENT_CONTINUATION"
          [] q.form = "attribute" -> "DEMONSTRATIVE_ATTRIBUTE_FOLLOWUP"
          [] (q.form \in {"plain", "subtopic"} \/ (q.form = "verb" /\ SubjectOf(q) # NoTopic))
                /\ named /\ ~Explicit(q) /\ vocabulary # {} /\ q.topic \notin vocabulary ->
                "NON_VOCABULARY_SUBJECT"
          [] q.form = "plain" /\ ~named /\ q.points -> "ANAPHORIC_PRONOUN"
          [] OTHER -> "NOT_NEEDED"

Needed(q, vocabulary) == Decision(q, vocabulary) # "NOT_NEEDED"

LastTurns(history, n) ==
    SubSeq(history, IF Len(history) > n THEN Len(history) - n + 1 ELSE 1, Len(history))

(* What the request carries, and what _bounded_history leaves of it. *)
HistorySent == IF "history" \in client THEN LastTurns(turns, WindowTurns) ELSE <<>>
BoundedHistory == LastTurns(HistorySent, BudgetTurns)
SubjectSent == IF "context" \in client THEN active ELSE NoTopic

(* _contextual_subtopic_followup: a topic of the answer before, without a   *)
(* predicate.                                                               *)
ContextualSubtopic(q, history) ==
    q.form = "subtopic" /\ history # <<>> /\ q.topic \in Last(history).mentions

(* _deterministic_conversation_rewrite: the last subject the user named, or *)
(* the one of the last answer that has one.                                 *)
DeterministicSubject(history) ==
    LET latest(subjects) == LET i == SelectLastInSeq(subjects, LAMBDA s : s # NoTopic)
                            IN  IF i = 0 THEN NoTopic ELSE subjects[i]
        users == [i \in DOMAIN history |-> history[i].subject]
        answers == [i \in DOMAIN history |-> history[i].about]
    IN  IF latest(users) # NoTopic THEN latest(users) ELSE latest(answers)

SafeRewrites_Any(q, history) == Topics

(* _safe_conversation_rewrite: only words of the question and the history. *)
SafeRewrites(q, history) ==
    {q.topic} \cup UNION {history[i].mentions \cup {history[i].topic} : i \in DOMAIN history}

(* clarification_response: it decides without the vocabulary. *)
Clarifies(q) ==
    /\ Needed(q, {}) /\ Decision(q, {}) # "LEADING_FRAGMENT_CONTINUATION"
    /\ q.topic \notin Known
    /\ SubjectSent = NoTopic /\ HistorySent = <<>>

(* The question with "(previous subject: ...)" after it. *)
Suffix(topic) == [how |-> "suffix", carries |-> topic]

(* The model that rewrites may name any of the topics, or fail. *)
ModelRewrites(q, history) ==
    {Unresolved} \cup {[how |-> "model", carries |-> t] : t \in SafeRewrites(q, history)}

(* _resolve_conversation_question *)
Resolutions(q) ==
    LET history == BoundedHistory
        subject == SubjectSent
        subtopic == ~Needed(q, Known) /\ ContextualSubtopic(q, history)
        reason == Decision(q, Known)
        explicit == SubjectOf(q) # NoTopic /\ InVocabulary(SubjectOf(q))
        rewrite == IF reason = "SHORT_VERB_ELLIPSIS" THEN NoTopic ELSE DeterministicSubject(history)
        alone == history = <<>> /\ subject = NoTopic
        asIs == ~subtopic /\ (~Needed(q, Known) \/ explicit)
    IN  CASE reason = "LEADING_FRAGMENT_CONTINUATION" /\ alone ->
                {[how |-> "standalone", carries |-> NoTopic]}
          [] reason # "LEADING_FRAGMENT_CONTINUATION" /\ alone -> {Unresolved}
          [] ~alone /\ asIs -> {Unresolved}
          [] ~alone /\ ~asIs /\ subject # NoTopic -> {Suffix(subject)}
          [] ~alone /\ ~asIs /\ subject = NoTopic /\ rewrite # NoTopic -> {Suffix(rewrite)}
          [] OTHER -> ModelRewrites(q, history)

(* _resolved_conversation_subject *)
ResolvedSubject(q, r) ==
    CASE r.how \in {"suffix", "model"} -> r.carries
      [] r.how = "standalone" -> q.topic
      [] OTHER -> SubjectOf(q)

Either(a, b) == IF a # NoTopic THEN a ELSE b

ContextSubject_KeepsOld(q, r, existing) == Either(existing, ResolvedSubject(q, r))

(* _conversation_context_subject: what the answer tells the client to send  *)
(* back. A subtopic is searched, and remembered, under its own name.        *)
ContextSubject(q, r, existing) ==
    LET named == SubjectOf(q)
        explicit == IF Needed(q, Known) /\ ~InVocabulary(named) THEN NoTopic ELSE named
        carried == ResolvedSubject(q, r)
        subject == IF Needed(q, Known) /\ explicit = NoTopic THEN Either(carried, existing)
                   ELSE explicit
    IN  Either(subject, Either(carried, existing))

-----------------------------------------------------------------------------
ConversationInit ==
    /\ client \in Clients
    /\ turns = <<>> /\ active = NoTopic
    /\ asked = NoTopic /\ resolved = Unresolved
    /\ phase = "idle"

Ask ==
    /\ phase = "idle"
    /\ \E q \in Questions : asked' = q
    /\ phase' = "asked"
    /\ UNCHANGED <<client, turns, active, resolved>>

Clarify ==
    /\ phase = "asked" /\ Clarifies(asked)
    /\ asked' = NoTopic /\ phase' = "idle"
    /\ UNCHANGED <<client, turns, active, resolved>>

ResolveConversation ==
    /\ phase = "asked" /\ ~Clarifies(asked)
    /\ resolved' \in Resolutions(asked)
    /\ phase' = "resolved"
    /\ UNCHANGED <<client, turns, active, asked>>

(* The topics the answer may be about: those named or carried, or any.      *)
AnswerTopics ==
    LET given == {asked.topic, resolved.carries} \ {NoTopic}
    IN  IF given = {} THEN Topics ELSE given

(* ANSWERED, with its conversationContextUpdate. *)
Answered ==
    /\ phase = "resolved" /\ Len(turns) < MaxTurns
    /\ \E about \in AnswerTopics, also \in Topics :
          turns' = Append(turns,
                     [topic |-> asked.topic, subject |-> SubjectOf(asked),
                      carried |-> resolved.carries, about |-> about, mentions |-> {about, also}])
    /\ active' = ContextSubject(asked, resolved, SubjectSent)
    /\ asked' = NoTopic /\ resolved' = Unresolved /\ phase' = "idle"
    /\ UNCHANGED client

(* A refusal has no update, and the client keeps what it had. *)
Refused ==
    /\ phase = "resolved"
    /\ asked' = NoTopic /\ resolved' = Unresolved /\ phase' = "idle"
    /\ UNCHANGED <<client, turns, active>>

Converse == Ask \/ Clarify \/ ResolveConversation \/ Answered \/ Refused

-----------------------------------------------------------------------------
(* Properties *)

(* A follow-up that names nothing is about what the last turn was about.    *)
(* The exceptions are in the code.  A question searched as it was asked     *)
(* that has no subject, as one that names its topic in one plain word,      *)
(* leaves the subject of before for the turn after it to carry; and without *)
(* the context the messages are read for the last subject a user named, so  *)
(* what a turn without one was resolved to is passed over.                  *)
FollowsLatestSubject ==
    phase = "resolved" /\ resolved.how = "suffix" /\ asked.topic = NoTopic =>
        LET last == Last(turns)
        IN  \/ resolved.carries \in {last.about, last.topic, last.carried}
            \/ last.subject = NoTopic /\ (last.carried = NoTopic \/ "context" \notin client)

(* What a question is rewritten to be about was said in the conversation,   *)
(* and a sentence of its own is searched as it was asked.                   *)
RewrittenFromConversation ==
    phase = "resolved" =>
        /\ resolved.carries # NoTopic =>
              \/ resolved.carries = asked.topic
              \/ \E i \in DOMAIN turns : resolved.carries \in
                    turns[i].mentions \cup {turns[i].topic}
        /\ asked.complete /\ asked.form = "plain" => resolved = Unresolved
=============================================================================
