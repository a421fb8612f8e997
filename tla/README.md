# Formal models of project-intelligence-rag

TLA+ specifications of the retrieval-augmented answering service under `app/`:
what a question of a conversation is taken to mean, the workflow that turns it
into a released answer, how its evidence is searched, found and kept, the gates
an answer passes, the two routes around the workflow (exact structured answers,
JSON conversion), and the concurrent machinery around them: admission, caches,
startup.  TLC checks small instances; TLAPS proves the results listed below for
every instance.

Contents: [inventory](#inventory) · [modules](#modules) · [runs](#runs) ·
[abstractions and bounds](#abstractions-and-bounds) · [fairness](#fairness) ·
[proofs](#proofs) · [where the code departs from its documentation](#where-the-code-departs-from-its-documentation) ·
[not modelled](#not-modelled) · [plan](#plan)

## Inventory

| Part | State | Operations | Interacts through |
|---|---|---|---|
| Service (`main.py`) | admission semaphores, in-flight gauge, readiness flags | `answer`, `answer_stream`, `_acquire_request_slot`, warm-up loop | runs one workflow per admitted request |
| Workflow graph (`workflow_graph.py`, `workflow.py`, `workflow_nodes/state.py`) | `RagState` | fourteen nodes, five conditional edges, `_response_from_state` | nodes return patches of the shared state |
| Structured providers (`workflow_nodes/providers.py`, `providers/`) | provider plan, snapshot, the structured scope that travels with the client | plan, execute, unavailable | short-circuit the graph with a `provider_response` |
| Conversation (`conversation.py`, `_resolve_conversation_question`) | none of its own: the client sends back the last subject, the last messages, or both | resolve a follow-up, update the context | the resolved question is what planning reads |
| Planning (`workflow_nodes/planning.py`, `query_analysis.py`) | plan, source types, queries, translation slot, attempt | `_plan_queries`, `_recover_query` | feeds retrieval, counts passes |
| Retrieval (`workflow_nodes/retrieval.py`, `completeness.py`, `reranking.py`) | candidates, documents, prior documents, repair requirements; tasks for the base searches and the translation | `_retrieve`, `_feature_affinity`, `_rerank`, `_validate_evidence_completeness` | feeds generation, may send the graph back |
| Corpus reads (`retrieval.py`) | corpus, vocabulary, client and collection caches under thread locks | `_cached_authorized_corpus`, `_fetch_fallback_corpus`, `corpus_vocabulary`, `shared_chroma_client`; lookups by identifier, section, sibling | threads of several requests |
| Generation (`_generate`, `llm.py`, `retry.py`, `deterministic_answers.py`) | draft, stream text, verified claims, repair budget, model slot | stream, classify, invoke, fall back, repair | model calls under a slot; scoring threads |
| Accelerator (`accelerator.py`, `grounding.py`) | semaphore, threads | `accelerator_request`, `_ensure_scores` | shared by all requests of a process |
| Grounding gate (`_verify_grounding`, `grounding.py`) | draft, verdict | verify, prune, regenerate, repair, coverage, relevance | model calls, cross encoder |
| Output gate (`fail_closed.py`, `grounding_contract.py`) | answer, verdict | `validate_output`, `apply_output_gate` | last word on release |
| Query embedding cache (`embedding.py`) | ordered dictionary | `embed_queries`, `_encode`, `_evict_locked` | retrieval threads |
| Startup (`lifespan`, `_warm_lexical_corpora_until_ready`, `warm_authorized_lexical_corpora`) | readiness, the pending attempt | warm, retry, stop | shares the Chroma client, its collections and the event loop with the constructors of requests |
| JSON conversion (`json_transform.py`) | none | detect, extract, decode in bounded rounds, repair, render | answers before the graph |
| Text functions (language, tables, presentation, citations, BM25 and fusion) | none | pure functions | called by the nodes |

What is hard here, and the properties that would catch it going wrong:

* **Retries leave state behind.**  Recoveries and repairs share one counter and
  hand documents, drafts, requirements and flags to the next pass.  An answer
  must be released with the evidence it was written from, and a repair may only
  add (`UnverifiedOnlyAtRelevanceFloor`, `RepairAddsUnlessFull`,
  `Terminates`, `WithinRecursionLimit`).
* **One bounded window, many claimants.**  Anchors, neighbours, prior
  documents, pinned evidence and reserved slots all want places; filters follow
  each other and each may empty the pool (`WindowSound`, `EvidenceKept`,
  `RecordsFaithful`).
* **Several gates on several versions of one answer.**  Each trusts what the
  others leave (`AcceptedIsGrounded`, `ShortfallDisclosed`,
  `OnlyRelevanceRepairForgets`, `UnsupportedOnlyIfIncomplete`,
  `CompleteMeansCovered`).
* **Slots, timers and threads.**  A semaphore's slot passes between tasks that
  may time out in the same step; a claim is scored while a stream holds a model
  slot, on a thread no cancellation stops (`SlotsSound`, `ResourcesKept`,
  `PartialIsVerified`, `ExtractedNeverRewritten`, `EveryCallEnds`,
  `EveryRequestEnds`).
* **Exact answers over a conversation.**  Filters are inherited, replaced and
  resolved again, paging is an offset into a list computed afresh each turn, a
  scan may be truncated (`PagesTile`, `ExactAsAsked`,
  `CompleteIfCompatible`).
* **A subject nobody stores.**  The service keeps no conversation: what "it" means is
  decided from what it last told the client to remember, and each answer decides
  that anew (`FollowsLatestSubject`, `RewrittenFromConversation`).
* **A scope narrowed three times**, by route, by what the project has and by the
  selected providers, where the empty result of a narrowing means everything
  (`ScopeKept`); and queries that take places by number while others are added,
  dropped and recovered (`QueriesSound`).
* **Tasks started before what may raise** (`OrphansOnlyAfterFailure`).
* **A cache read in one critical section and trusted in the next**, filled from reads
  that take turns with ingestion, and keyed for callers who see different documents
  (`OwnCorpus`, `FreshWithinTtl`, `FailsOnlyWhenFull`, `VocabularyRecovers`).
* **A dependency that is away at startup**, or that answers nothing to a client
  without a timeout on the event loop (`WarmUpRecovers`).
* **A document cut anywhere**, repaired by rules that apply to each other's results
  (`KeepsCompleteElements`, `NothingInvented`, `OnlyConversionsIntercepted`).

## Modules

An operator called `Op_Something` is a deliberately wrong variant of `Op` that
no specification uses: substituted for `Op` it breaks the property named next
to it in `PROJECT.json`.  Each `MC...` module instantiates its namesake for TLC.

**`RagWorkflow`** is one request.  One action is one LangGraph node with the
conditional edge that follows it (LangGraph commits a node's patch and picks the
edge in one superstep), `pc` is the node to run next, and every other variable
is a channel of `RagState` or the response.  A document list is the number of the
pass that selected it (0: empty), because an answer's `[SOURCE n]` markers index
the list it was written from; a draft is that pass, its typed outcome, whether
its citations are valid and which requested items it leaves out.  What models and
retrieval return is nondeterministic.  `Fail` is any awaited dependency raising,
or the request timeout.  `accepted` is a history variable.

**`Conversation`** is a conversation turn by turn: a question is what the patterns
find in it (form, topic, words, whether it is a sentence of its own, whether it points
at something), a topic is a model value, and the client returns the context update, the
messages, or both.  **`QueryPlanning`** extends it with everything from the resolved
question to the searches: the eleven routes with their source types, the three
narrowings, the list of queries with the place kept for the translation, and per pass the
deterministic look-ups beside two tasks, the gather of the base searches and the
translation.  Each task ends, or
raises, in a step of its own; a cancellation may come at every await.  The
recovery goes round again with the state the pass before it left.

**`EvidenceWindow`** and **`EvidenceSelection`** open up what `RagWorkflow` calls
one document list.  `EvidenceWindow` has the operations on ranked lists of chunks:
merging, anchor protection, neighbour expansion, diversity, reserved slots, pinned
requirements, reconstruction of whole records (a record is the chunks of one parent, or
of its part with the same locator where the matched chunk has one).  What the code does
in a loop over chunks is a recursive function of the position.  `EvidenceSelection` runs the nodes
from `_retrieve` to `_validate_evidence_completeness`, with the recovery and the
repair that go round again, for every route; `Shaped`, `Merged` and `Completed` are
the stages of `_rerank` in the code's order.  Every pass ranks: the reuse of an earlier
ranking at the top of `_rerank` is dead in the compiled graph (see
[departures](#where-the-code-departs-from-its-documentation)).

**`Generation`** opens up the `generate` node, with two requests at once: the
incremental stream and its per-claim verdicts, classification, the buffered call,
transient retries, fallbacks to extracted and canonical text, the chain of shaping
repairs and its budget, the model slot (`_model_slot`) every call holds, and the
accelerator's permit and threads.  Prose grows by thirds of a sentence (words,
citation, full stop), because the claim callback is keyed by the text it was given.
`Cancel` is a client that leaves or the outer request timeout.

**`GateContract`** says what the workflow relies on: one decision, and released
claims are supported and on topic, unless `grounding_verification_enabled` is off.
**`GroundingGate`** is `_verify_grounding`
itself, one action per stretch of code between two calls of the language model.
An answer is its set of claims; what the evidence supports is fixed, what the
model writes is not, and the setting is either (`verifying`): with it off a draft that
passes the deterministic checks is accepted as it is, with the reason DISABLED.  It
refines `GateContract` (`ImplementsContract`).

**`OutputGate`** is `apply_output_gate` with `validate_output` and
`_response_from_state`, over every combination of document facts, request,
claim kinds and citations.

**`ProviderRouter`**, **`JiraAggregate`**, **`CorpusScan`** are the pure parts of the
structured route: `select_providers`, the filters and aggregates of the indexed
adapter, and the paged scan behind a corpus.  **`StructuredQuery`** composes them:
several turns of one conversation, the scope the client holds and sends back, and
cached corpora that change between two pages.  `Meant` is the reference definition
the aggregates are checked against: the tickets a user who asked all this means.  What was
asked (`Asked`) is kept apart from the router: whether a question goes on with the
conversation is read off the question alone (`Continues`: it names neither a provider nor
tickets nor a ticket), never off the router's `inherited`.

**`Admission`** is the slot boundary of `main.py`.  The standard library's
semaphore (as of Python 3.12.2) is modelled as `main.py` uses it: a released slot
is handed to the first waiter, whose task runs later and may time out first.

**`EmbedCache`** is the query-vector cache (the model may fail before anything is stored,
`EncodeFails`) and **`CorpusCache`** the cache of authorized
corpora with the paged scan that fills it; in both, one critical section, one page read
or one store is one action.  **`CorpusReads`** composes them: threads search for callers
with different policies in the dense channel, which falls back to the corpus when the
embedding or the vector search raises, or in the lexical one; ingestion changes the index
between two pages, and the clock ticks.

**`Startup`** is the warm-up beside the constructors of the first requests, over a Chroma
that is up, down or silent.  What the code runs on the event loop occupies `loop`; a read
without a timeout on it stops every other coroutine.

**`JsonText`** is JSON as a sequence of tokens: the strict parser, the repairs one by one,
the completion of a truncated text.  **`JsonTransform`** is the conversion itself: which
messages it takes, the spans it takes for payloads (`StructuralSpan`, `QuotedSpan`), the
choice between them by decoding (`Fitting`), and the rounds of `_decode`, one action each.
A quoted bracket is a kind of token (`held`, a string that holds brackets and no document),
and a message may begin and end in them.

`RagWorkflow`, `EvidenceSelection`, `Generation`, `GroundingGate` and `OutputGate`
(and `QueryPlanning` before them) describe the same request at different depth: the coarse module leaves
nondeterministic what the detailed one computes.  Only `GroundingGate` against
`GateContract` is checked as a refinement; the others are aligned by reading.

## Runs

| Run | Bounds | Shows |
|---|---|---|
| `RagWorkflow` | 3 passes (the configured maximum), one requirement | termination, recursion limit, gates never run without evidence, the one path around the gate |
| `RagWorkflowStaleAnswer` | 2 passes | violation: a stale draft is released unverified at the relevance floor |
| `QueryPlanning` | 2 answered turns, 2 topics, 3 kinds of client, a history of 2 turns, 37 deployments, every pair of a route and an intent, 3 variants, 3 passes | follow-ups keep the latest subject and only what was said; no pass leaves the selected providers; queries keep their places; tasks outlive only failures |
| `EvidenceSelection` | 16 requests over the ten routes, 5 chunks, 3 passes | the planned scope is what is searched; the window is sound; anchors, pinned and prior evidence survive; a record is whole and present |
| `Generation` | 2 requests, 1 slot, 1 permit, 2 attempts, 1 repair, 2 passes, 1 sentence | slots and permits given back on every way out, only verified partial text, extracted text not reworded, bounded calls, every request ends |
| `GroundingGate` | 2 claims, a floor of 2, verification on or off | accepted answers are grounded; refinement of the contract |
| `OutputGate` | 2 claims, symmetric | nothing unclean is answered, COMPLETE means covered |
| `StructuredQuery` | 19 questions, 4 turns, 3 indexes, 6 deployments, one refresh | pages tile a list, exact totals are those of what was asked, with two named exceptions, a complete scan is complete |
| `Admission` | 4 requests, 2 slots | slots conserved, queue sound, no idle slot, every waiting call ends |
| `CorpusReads` | 2 threads, 2 texts, a cache of 1, 2 callers, 2 indexes, pages of 2, ceiling 4, time to live 2, 3 searches, 2 ticks | a corpus is its caller's and not older than allowed; an embedding fails only by an eviction from a full cache |
| `Startup` | 2 callers, 2 corpora, 2 outages, 2 ticks | the warm-up recovers from every outage except in the ways it names; no vocabulary outlives its time |
| `JsonTransform` | bodies of up to 5 tokens (8 when nested), 8 rare kinds of token, up to 6 string encodings in a fence and 2 outside, 2 words of prose on each side, quoted brackets | nothing is invented or reordered, a cut loses only what was incomplete, only conversions are intercepted |

`RagWorkflowStaleAnswer` is the finding of `PROJECT.json`.  Deadlock is checked except in
`StructuredQuery`, where a conversation may end after its turns, and in `Startup`, where a
hung event loop really is the end of every coroutine.

## Abstractions and bounds

* **`RagWorkflow`.**  Three passes is the largest `max_retrieval_attempts` the
  settings accept, so the run is not smaller than the code in that direction.
  One requirement distinguishes complete from incomplete; more would not change a
  route, as routes ask only whether something is missing.
* **`EvidenceSelection`.**  Scores, fusion, deduplication of equal bodies and the
  narrowing of the pool to the cross-encoder's limits are any order of any subset
  of the chunks in scope: no property may depend on a score.  A node is atomic, so
  the tasks inside `_retrieve` do not interleave.  `adaptive_query_enabled` is TRUE.
  The structure score that orders the chunks of a single record is any of them.
  `RequestsAssumption` is what the planner makes sure of: queries to search, an empty
  place for a translation only beside a question, and a single record only on the
  CODE_ASSISTED route (planning.py:415); the run's requests meet it, and the proofs rest
  on it.
  Five chunks are a page of two chunks that are not adjacent (a third would be
  between them; of one it is known which part of the page it is cut from), a file with the identifier, a ticket and a piece of its past:
  each route finds evidence it wants, evidence it must not take, and more chunks than
  places (windows of two and three).  The sixteen requests give every route, and
  every branch of `_rerank`, at least one request; combinations of rare switches
  that no question produces are not enumerated.
* **`Generation`.**  One sentence has two claims (with and without its stop), which
  is the smallest text on which a prefix can be judged differently from the whole;
  one streaming and one buffered request make both kinds of call compete for one
  slot.  With two attempts and one repair both the retry and the budget end within the run.
* **`GroundingGate`, `OutputGate`.**  Two claims: one to keep and one to lose.  All
  facts about claims are quantified, so the instance covers every mixture of
  kept, dropped, required, expected, cited and uncited.  `MCOutputGate` gives one
  value to what the code does not read.
* **`StructuredQuery`.**  Text is what the code's patterns find in it (`says`,
  `labels`, `keys`, ...).  Four turns are a listing, two continuations or
  detours and one more page.  The indexes put a two-chunk event across a page
  boundary, a record of a previous schema at the ceiling, and fields that make
  resolution observed or not.  A deployment changes one switch at a time, and the page
  and record limits.  Assumed of the outside: a section's chunk carries its
  ticket's fields, and a client echoes the last scope it received.
* **`Admission`.**  With two slots and four requests two wait at a time, the least
  for order among waiters to matter.
* **`QueryPlanning`.**  Two topics distinguish the latest subject from an older one, two
  answered turns are the least with an older one (the history holds both, and
  the proofs cover shorter ones); clients send back the context, the messages or both;  and three the least number of passes in
  which a query may return (`QueriesSound`).  Deployments cover five
  corpora with six selections, and every combination of translation, expansion and
  hypothetical documents; a question matches a route with at most one intent, or an
  intent with what decides its queries.  Queries are names of what they are made of.
* **`CorpusReads`.**  Two callers of one project of whom one sees more; the second index
  loses a record, gains one and gains one of another schema, so that a fetch torn by
  ingestion skips or doubles one.  The embedding cache has one place for two texts: every
  insertion evicts.  The real bounds (64 texts, 64 corpora) change how often these cases
  happen, not which there are.  Threads and texts are symmetric (no liveness is checked).
  `torn` marks a fetch during which the index changed: `OwnCorpus` excepts it, as nothing
  in the code notices.
* **`Startup`.**  A corpus is one read, the two model warm-ups are left out (they catch
  everything and share nothing).  Two outages are one during an attempt and one during its
  successor; two ticks pass the vocabulary's time to live.  Its specification is called
  `StartupSpec`, and that of `StructuredQuery` `StructuredSpec`, so that one module can
  prove about it beside another (`Service_proofs`, `Corpora_proofs`).
* **`JsonTransform`.**  A text is its tokens: characters inside a string appear only as
  the one rewriting the repairs do to them (`none` to `altered`), or as brackets that a
  scan may find there (`held`).  Only words count as prose: a quote, a bracket or a value is
  shorter than the 24 characters allowed around a payload, one word is within them and two
  are not.  Outside a fence a document is encoded at most twice, as the pattern of a quoted
  span allows for no more.  Five tokens hold every
  pair of neighbours the repairs look at inside a container; the nested bodies put a
  container, or its remains, after a first key, element or pair.

## Fairness

* `RagWorkflow`, `GroundingGate`: weak fairness of the node to run next.  The
  event loop keeps running a coroutine that can run; every awaited call has a
  timeout.  `Fail` is not fair.
* `Admission`: weak fairness of each admitted or waiting request's next step
  (timers fire, tasks run, `request_timeout_seconds` ends a running request); none
  of a client's call.
* `Generation`: weak fairness of the server as a whole, `WF(Server)`.  Nothing is
  assumed of any one request, of the outer timeout or of `Cancel`: that a request ends
  follows from the timers of its own calls and the bounds on their number.
* `Startup`: weak fairness of the warm-up's attempt, of the loop that awaits it and of
  each constructor: coroutines that can run are run, and `wait_for` fires.  Nothing makes
  Chroma come back: `WarmUpRecovers` is about the behaviours in which it stays up.
* `JsonTransform`: weak fairness of `Next`; it is sequential code.
* `OutputGate`, `CorpusReads`, `StructuredQuery`, `EvidenceSelection` and
  `QueryPlanning` state safety only.

## Proofs

`RagWorkflow_proofs` proves for every `MaxAttempts` in the range the settings allow,
both values of `AdaptiveQuery` and every set of requirements: `TypeOK`,
`WithinRecursionLimit`, `GatesHaveEvidence`, `UnverifiedOnlyAtRelevanceFloor` and
`ClarifiesOnlyWithoutEvidence`.  None but the first is inductive.  The strengthening
`IInv` has four more parts.  `Counted` ties the superstep counter to the pass: a node at
`Rank` *k* of pass *a* was reached in at most `k + 8a - 8` supersteps, because no way
round the graph is longer than eight nodes and a new pass begins only below the
limit; the recursion limit follows by arithmetic.  `Passed` says which pass the
documents and the draft belong to at each node.  `Cited` says a draft that is still
grounded has documents.  `Decided` says why a request that stands before its release
may release: its draft was accepted with its own documents, or it is the one exception.

`GroundingGate_proofs` proves for every set of claims and every floor:
`TypeOK` (with `RewritesBounded`), `AcceptedIsGrounded`, `ShortfallDisclosed`,
`RewrittenIsComplete`, `OnlyRelevanceRepairForgets`, and that every step of
the gate is a step of `GateContract` or a stutter (`GateRefinesContract`, the safety
part of `ImplementsContract`).  `GateInv` adds to them that a draft is marked grounded
only after a verification of that very draft, or with verification off (`Verified`), that the shortfall is noted
before relevance is scored (`Noted`), how many rewrites each state may follow
(`Bounded`), which reasons still promise a complete answer (`Whole`) and that the note
of a removal stays with the answer (`Remembered`).

`OutputGate_proofs` proves the three safety properties of its run for every set of
claims.  `ReleaseInv` relates the answer to what the workflow counted before the gate
pruned it (`Counted`), says what each verdict of the gate rests on (`Judged`) and what the
response carries (`Released`).  The finite checks of `validate_output` are lemmas
about its first failure: what a tolerated failure still implies, and what none implies.

`QueryPlanning_proofs` proves all five properties of its run, for every set of
deployments, questions, patterns, clients and topics, every vocabulary and every number of
turns and passes.  For `ScopeKept` and `OrphansOnlyAfterFailure`, `PlanInv` says
where each task may still be at work (`TasksAwaited`) and that the plan keeps its route
and types, with every search in a scope these lead to (`PlanKept`).  For
`QueriesSound`, `QueriesKept` follows the list of queries through a pass: what may be in
it, that the empty query stands last and only in the first pass (`QueriesPlanned`), that it
is there exactly while the translation is awaited (`SlotAwaited`), and what was searched:
in the first pass only what is planned, before the second nothing of what it plans
(`QueriesSearched`).  The last part is what a recovery is compared with, and why a third
pass is excepted.  For `FollowsLatestSubject` and `RewrittenFromConversation`,
`ConversationInv` says that the client's subject was said in some turn and is that of the
last turn unless that one had none (`Remembered`), that every turn mentions what it is
about (`TurnsTyped`), and that the resolution at hand is one the code makes of just this
conversation; neither property speaks of how the client came to hold its subject, so
neither is inductive.

`Generation_proofs` proves `ResourcesKept`, `PartialIsVerified` and
`ExtractedNeverRewritten` for every number of requests, slots, permits, attempts, repairs
and passes.  A step is of one request and leaves what the others have of their own as it is
(`OthersUnmoved`), so `LocalInv` is proved for the request that moves, and what all share
(`SlotInv`, `PoolInv`) by counting who comes and who leaves.  `LocalInv` says which of its
variables a pass begins anew (`Fresh`), that text copied from the evidence never comes to a
repair (`Reshaped`), that verified claims are supported (`Kept`), and how many calls each
place may have behind it (`Counted`): the attempts of a call under way come on top of the
repairs already used, which the budget alone does not say.

`EvidenceSelection_proofs` proves all five properties of its run, for every collection of
chunks, every set of requests the planner makes, every limit and number of passes, and
whatever a search finds and a ranking prefers.  A window of evidence is what a chain of
operations makes of the candidates, so the work is in lemmas about lists without
repetitions (`Lists`): what each operation keeps, what it puts first, that it repeats
nothing, and that it loses nothing when its result is not full (`MergeList`,
`ProtectList`, `DiverseList`, `ReserveList`).  The loops are folds: `Recursion` proves once
that a fold over a sequence exists, and each loop has its lemma by induction over the
position (`ExpandedList`, `PinnedList`, `JoinedList`).  `OrderExists` shows that the chunks
of a record have an order by ordinal.  `ShapedList`, `MergedList` and `CompletedList` put
them together along the stages of `_rerank`, and `WindowOfPass` says what the window of any
pass is (`IsWindow`).  None of the five properties is inductive.  `IInv` adds, for
`SearchesAsPlanned`, that before a search there is a query and no empty one outside the
translation's place (`QueriesReady`); for `WindowSound`, that all three lists are without
repetition and that the limit holds (`EvidenceListed`, `WithinLimit`); for `EvidenceKept`,
that what an overview ranks is listed (`CandidatesMeant`); for `RecordsFaithful`, that prior
evidence and ranked candidates are of the present, since they come back through a merge
(`PresentRanked`), and that the window's records are whole (`RecordsComplete`).

`Corpora_proofs` proves the three properties of `CorpusReads` for every collection and
sequence of ingestions, page size, ceiling, time to live, cache bound and number of threads.
`EmbedInv` says of each call that a text of it is cached or still to be encoded unless the
cache is full, since only a full cache evicts.  `OwnCorpus` is about the cached corpora, but
an entry is only as good as the fetch it is made of, so `CorpusInv` is about the fetches
under way too: what a fetch has read is of its caller (`ScanTyped`), and one that saw no
ingestion, dropped no record and is below the ceiling has, of the partitions it has ended
and of the pages of the current one, everything once (`Exact`).  The lemmas go up in
layers: selecting keeps members and order (`PickedFacts`), a page is a stretch of a
partition (`PageFacts`), a page adds just what it read (`ReadPageExact`), a cache keeps its
other entries (`WithoutFacts`, `PutFacts`).  `FreshWithinTtl` needs only that an entry
expires a time to live after its fetch *began*.

It also proves two properties of `StructuredQuery`, whose corpora are scanned page by page
in the same way.  `CompleteIfCompatible` is about a recursive function, of as many steps as
the index has records and types: it exists (`IteratesExist`), each step takes a page
of what is left (`ScanStep`, with the lemmas above), and a page that is not the last of the
partition reads a record, so that no scan still has pages to go when the steps are spent
(`PagesToGo`).  That is where compatibility is needed: with a dropped record in the page
that the ceiling shortens, the scan is not the whole (`ScanFacts`).  For `PagesTile` the
invariant says of the client's scope that its query has the result set the listing
began with (`Tiled`).  A query that does not begin a list is the next page of the one held, has
its filters and reads its corpus (`PlanFacts`, `KinLookAlike`), through every combination of the
router's branches and the settings' switches, and it asks for no more than is shown
(the cap).  A page of *n* items after the first *m* ends the first *m + n* (`PagesGoOn`),
which is a fact about ranks: the least of the rest is the next (`LeadingCount`).

`Service_proofs` proves `SlotsSound` of `Admission` for every capacity and every finite set of
requests.  The invariant is inductive as it stands; the work is in the queue and in
counting: `WakeKeeps` (waking the first *n* waiters moves exactly *n* slots),
`LeaveKeeps` (whoever leaves the queue leaves no slot idle), `WithoutQueued` (leaving
keeps everyone else, once and in order), from the library's facts about finite sets and
sequences.

It also proves `VocabularyRecovers` of `Startup` for every number of callers, corpora,
outages and ticks: a vocabulary counts from the look-up that missed, not from the end of
the read (`Dated`).

The assumptions are the named ASSUMEs of the modules (bounds on constants from the
settings' validators, finite sets); nothing else.  `TypeOK` of `RagWorkflow` and
`GroundingGate` is proved and in no run's list, because each is a part of the invariants
above.

Induction over numbers is done without the library's induction theorems, which take an
operator as a parameter: a set of naturals has a least member (`Smallest`, from the
well-foundedness of `<`), and the least counterexample is refuted.  So the
lemmas about `SelectInSeq`, `SelectLastInSeq` and `Selected` are proved.  `Selection`
exists for it: `Selected` is `SelectSeq` said without recursion.

Model-checked only:

* liveness (`Terminates`, `EveryCallEnds`, `EveryRequestEnds`, `WarmUpRecovers`, the
  liveness part of `ImplementsContract`), which is out of the prover's reach;
* `ExactAsAsked` of `StructuredQuery`: it speaks of what a user means (`Asked`), and
  holds of the questions of the run, not of every combination of patterns: a question that
  says "pending" and names a status too is filtered by both, and the user means one;
* `NothingInvented`, `KeepsCompleteElements` and `OnlyConversionsIntercepted` of
  `JsonTransform`: the parser is a fold over the tokens, and the repairs are recursive
  functions of them, one applied to the result of the other.

## Where the code departs from its documentation

One disagreement is a run: `RagWorkflowStaleAnswer`, the finding of `PROJECT.json`.  The
others were met while modelling; the models follow the code, and where a property has
to except one of them, the exception is named here.

*Gates and workflow.*  An incomplete answer is released once the passes are spent
(answering.py:2272, against llm.py:1073).  The relevance repair skips the check for a
summarised population and drops the "removed" note (answering.py:2859–2860, against
2810 and 2723): `OnlyRelevanceRepairForgets` says that nothing else does.  A regenerated
answer is not checked for completeness (2706), and the outcome of a rewrite is never
read (2758, against llm.py:361).  A coverage failure is reported first and hides an
unsupported claim behind it (grounding_contract.py:339, fail_closed.py:363, against
docs/CURRENT_ARCHITECTURE.md:464): `UnsupportedOnlyIfIncomplete` says it is the only way.
A stream's slot is lost when the client leaves before `events()` starts (main.py:539):
`Admission` has it as `LoseBody`.

*Conversation and planning.*  A question that introduces a subject outside the patterns
("What is POS?", "Describe POS") keeps or is rewritten with the old one
(planning.py:952 onwards).  A client that sends the messages without the context returns to an
older subject after a turn that named none, because only what users wrote is read
(workflow_support/conversation.py:466–488); with the context too, a question searched as it was asked leaves
the subject of before in place.  `FollowsLatestSubject` excepts just these.  Whether to ask for clarification is decided without the
vocabulary, the resolution with it.  A requested scope of which the project has nothing
narrows to the empty tuple, which means every type (planning.py:53–62, against
1074–1076); with the provider router off, nothing is "available" and every scope narrows
so (providers.py:119–124, planning.py:225–236, against
docs/PROVIDER_ROUTING_AND_JIRA_AGGREGATES.md:278).  Attachments are searched beside the
selected providers (planning.py:237–245, against 393–395 of the same page).  A recovery
query is compared with the last pass only, so a third pass may repeat a query of the
first (planning.py:1069): `QueriesSound` excepts a third pass.

*Retrieval.*  When thresholds leave a scoped request nothing, `_rerank` ranks all
candidates, tickets included, although a comment (retrieval.py:1745–1750) and
`tests/test_phase5_foundation.py:303` say an empty scoped set fails closed; it is
reachable where the scope is unrestricted.  A pinned match is cut off by a full window
(completeness.py:196, against its docstring), "source:X" requirements match no text, and
a later ranking that fills the window displaces prior documents: hence
`RepairAddsUnlessFull`.  "Only identical scorer pairs permit reuse of the previous ranked
result" (retrieval.py:481), and `tests/test_identical_repair_rerank.py` calls the node with
a dictionary that has the keys, but `RagState` (workflow_nodes/state.py:12–76) declares
neither `scored_query` nor `scored_candidate_ids`, and the graph keeps declared channels
only: nothing is ever reused, and an identical repair ranks its candidates again, as in
the model.  Of the documents without a record only the first survives
reconstruction.  `jira_exact_section_loaded` is never reset; sections are loaded for any
intent, whatever the scope; a recovery on the section route repeats the same lookup; a
translation task is orphaned when the base search raises (`OrphansOnlyAfterFailure` says
nothing else orphans one); an anchor's place may be lost to later source limits and
inventory filters (`AnchorKept` exempts inventories).

*Caches.*  The query-vector cache reads after its second encode without looking again,
so an eviction in between raises the `KeyError` its comment excludes (embedding.py:81,
against 90); the search then falls back to the lexical channel (`FailsOnlyWhenFull`).  A
paged scan torn by ingestion still reports that it is complete (retrieval.py:1108); an
older, slower fetch may replace a newer corpus (1065), and an empty vocabulary is cached
after a transient failure.

*Generation.*  `last_stream_truncated` is never reset, so a later whole answer may be
reported as truncated.  A timeout while classifying discards the verified prose.  A
shaping repair that finds no slot fails the request; `ModelSlotUnavailableError` is not
one of the errors the fallbacks catch.  The budget validated in config.py:366–374
counts the non-streamed calls of one pass only.

*Structured route.*  A page shortened by the record ceiling, with an incompatible
record in it, ends its partition without marking the scan truncated
(retrieval.py:1095–1131): `CompleteIfCompatible` says this is the only way.  A filter
whose question is long past may be left over: after "show the comments", "how many are
done?" is answered with an exact zero (router.py:406, indexed.py:128–131).  And with
Jira as the only provider a question that states an operation is taken for a new one about
it (`assume_jira`, router.py:138): after "How many Jira tickets have the POS label?", "What
are all fixed?" lists the fixed tickets of every label, against the table of
docs/PROVIDER_ROUTING_AND_JIRA_AGGREGATES.md:181, which has POS inherited.  `ExactAsAsked`
names the two (`LeftOver`, and `Presumes`, which lasts as long as the conversation goes on
from there) and says that there is no other way to a wrong exact total.  Which resolution
"fixed" means is asked over a truncated scan as well, which `aggregate` then calls
complete (indexed.py:138–146).  A direct question
about sections ignores the labels it names.  With the router off every question that
names a provider is refused and "show more" asks for clarification.  A refused or
clarified turn leaves the scope in place, although the documentation says an explicit
provider clears it.  `LEGACY_STATUS:DONE` is dead code since a category key is always
written; the clarification of an ambiguous resolution cannot be answered; a shrinking
snapshot yields a page that ends past the total.

*JSON conversion.*  The repairs rewrite the inside of strings too (json_transform.py:592,
against 611): `["None of these"` becomes "null of these".
A message without a trigger is taken for a payload when next to nothing stands around the
candidate, however many words stand *in* it, and the message is then answered with a
parse error, against "prose that merely contains braces is not a conversion request"
(144–145): a question within brackets, one that starts with a bracket it never closes, and,
as the pattern of `_widest_quoted_span` is greedy (523–529), one that begins and ends with
a quoted bracket (`"[INFO]" why ... "[ERROR]"`).  An encoded document outside a fence is
scanned for brackets before it is decoded, with its escaped quotes taken for the beginnings
and ends of strings (484–497), and an array in it that closes before its first string is
converted in its place: of `"{\"a\": [1]}"` the user is given `[1]`, although the comment at
473–474 says that what is nested is not mistaken for the whole payload.  Of a document that
nests too deep, a string with brackets in it may be converted and no error reported.
`OnlyConversionsIntercepted` excepts these by name (`LooseWords`, `StartsUnclosed`,
`PartFound`).

*Startup.*  The client of Chroma has no timeout where comments count on one
(retrieval.py:108–111 and 1140–1149, against 228), its constructor runs before the
timeout of the underlying HTTP client is set, and constructors and warm-up steps run on
the event loop: a silent Chroma stops every coroutine.  The warm-up loop waits for ever
on an attempt that itself ended in `TimeoutError` (main.py:89), and a cancellation during
its sleep or just after a timeout leaves the pending attempt running (90–92, 115).
`WarmUpRecovers` names the cases in which there is no recovery.

## Not modelled

* Text functions whose result the models take as any: language detection, table
  normalization and table evidence, prompts, wording of the deterministic extractors,
  catalog answers, most of the patterns of `query_analysis.py`.
* Numeric ranking: BM25, reciprocal rank fusion, scores (any order of any subset).
* Retrieval by exact identifier, structure, sibling and canonical question beyond what
  `_retrieve` does with their outcome.
* Telemetry beyond the gauge; request authentication and rate limiting (the limiter
  never awaits inside its lock); construction of clients and configuration.
* The offline evaluation, lab and tool programs, corpora and documentation data.

## Plan

Done: every stateful component but the rate limiter has its module; every safety property
of `RagWorkflow`, `GroundingGate`, `OutputGate`, `QueryPlanning`, `EvidenceSelection`,
`Generation`, `Admission`, `CorpusReads` and `Startup` is a theorem, and so are the
invariants of `StructuredQuery`.  Left:

1. Refinement of one answer: `OutputGate` and `GroundingGate` composed under
   `GateContract`, and `EvidenceSelection` against the retrieval part of `RagWorkflow`.
2. A corpus whose fetches may finish out of order against an abstract one that never goes
   back, which the code's does not implement (retrieval.py:1065).
