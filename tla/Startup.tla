------------------------------ MODULE Startup ------------------------------
(***************************************************************************)
(* The warm-up of the lexical corpora after startup (main.py) beside the   *)
(* construction of the first requests' workflows (workflow.py), over a     *)
(* Chroma that goes away, falls silent and comes back.                     *)
(*                                                                         *)
(* The constructor of a workflow, and some steps of the warm-up, talk to   *)
(* Chroma on the event loop: while one of them is under way no other       *)
(* coroutine runs.  The other reads of the warm-up are in worker threads.  *)
(***************************************************************************)
EXTENDS Naturals

CONSTANTS
    Callers,        \* of one project and with the same visible policies
    Corpora,         \* the corpora that are fetched, four for each project
    VocabularyTtl,
    MaxOutages,      \* bound on the failures of Chroma
    MaxClock         \* bound on the ticks

ASSUME StartupAssumption == Corpora \in Nat \ {0} /\ VocabularyTtl \in Nat

VARIABLES
    chroma,          \* "up", "down": it refuses, "silent": it never answers
    outages,
    clock,
    client,          \* _CHROMA_CLIENTS: "none", "bounded" or "unbounded" reads
    collection,      \* _CHROMA_COLLECTIONS has the project's
    loop,            \* "free", "hung", or the request that occupies it
    stage,           \* by request
    vocabulary,      \* _VOCABULARY_CACHE: None or [known, expires, read]
    began,           \* by request: when it looked its vocabulary up
    given,           \* by request: [known, age] of its vocabulary, or None
    attempt,         \* the task pending, or how it ended
    left,            \* corpora the attempt has yet to fetch
    waiter,          \* _warm_lexical_corpora_until_ready
    ready            \* lexical_corpus_ready

environmentVars == <<chroma, outages, clock>>
requestVars == <<stage, vocabulary, began, given>>
warmVars == <<attempt, left, waiter, ready>>
startupVars == <<environmentVars, client, collection, loop, requestVars, warmVars>>

None == [known |-> FALSE, age |-> 0, expires |-> 0, read |-> 0]

StartupInit ==
    /\ chroma \in {"up", "down", "silent"} /\ outages = 0 /\ clock = 0
    /\ client = "none" /\ collection = FALSE /\ loop = "free"
    /\ stage = [r \in Callers |-> "arriving"]
    /\ vocabulary = None
    /\ began = [r \in Callers |-> 0] /\ given = [r \in Callers |-> None]
    /\ attempt = "none" /\ left = 0 /\ waiter = "looping" /\ ready = FALSE

-----------------------------------------------------------------------------
(* What becomes of a read.  The timeout of the transport is set only once   *)
(* the client is made, and only by shared_chroma_client.                    *)
Answers == chroma = "up"
Raises == chroma = "down" \/ (chroma = "silent" /\ client = "bounded")
Hangs == chroma = "silent" /\ client # "bounded"

(* A read on the event loop that never ends stops every coroutine.          *)
HangLoop == Hangs /\ loop' = "hung"

Stage(r, here, there) == stage[r] = here /\ stage' = [stage EXCEPT ![r] = there]

-----------------------------------------------------------------------------
(* AuthorizedRagWorkflow.__init__ *)

(* ChromaAccessRetriever.create begins, in a loop that is then occupied:    *)
(* it needs a client only for a collection it does not have yet.            *)
Connect(r) ==
    /\ loop = "free"
    /\ \/ /\ collection \/ client # "none"
          /\ Stage(r, "arriving", IF collection THEN "connected" ELSE "connecting")
          /\ loop' = r /\ UNCHANGED client
       \/ /\ ~collection /\ client = "none" /\ Answers
          /\ client' = "unbounded"
          /\ Stage(r, "arriving", "connecting") /\ loop' = r
       \/ /\ ~collection /\ client = "none" /\ Raises
          /\ Stage(r, "arriving", "refused") /\ UNCHANGED <<client, loop>>
       \/ /\ ~collection /\ client = "none" /\ HangLoop
          /\ Stage(r, "arriving", "hung") /\ UNCHANGED client
    /\ UNCHANGED <<environmentVars, collection, vocabulary, began, given, warmVars>>

(* get_collection: the client stays cached when it fails.                   *)
GetCollection(r) ==
    /\ \/ Answers /\ collection' = TRUE /\ Stage(r, "connecting", "connected") /\ UNCHANGED loop
       \/ Raises /\ Stage(r, "connecting", "refused") /\ loop' = "free" /\ UNCHANGED collection
       \/ HangLoop /\ Stage(r, "connecting", "hung") /\ UNCHANGED collection
    /\ UNCHANGED <<environmentVars, client, vocabulary, began, given, warmVars>>

Give(r, known, age) == given' = [given EXCEPT ![r] = [None EXCEPT !.known = known, !.age = age]]

Expired_Never(entry) == entry = None

(* The cached entry does not count any more, or there is none.              *)
Expired(entry) == entry.expires <= clock

(* corpus_vocabulary finds its entry in the cache, or begins to read.       *)
FindVocabulary(r) ==
    /\ began' = [began EXCEPT ![r] = clock]
    /\ \/ /\ ~Expired(vocabulary)
          /\ Give(r, vocabulary.known, clock - vocabulary.read)
          /\ Stage(r, "connected", "made") /\ loop' = "free"
       \/ /\ Expired(vocabulary)
          /\ Stage(r, "connected", "reading") /\ UNCHANGED <<given, loop>>
    /\ UNCHANGED <<environmentVars, client, collection, vocabulary, warmVars>>

(* An empty vocabulary stands for one that could not be read.               *)
ReadVocabulary(r) ==
    /\ \/ \E known \in BOOLEAN :
             /\ IF known THEN Answers ELSE Raises
             /\ vocabulary' = [None EXCEPT !.known = known, !.read = began[r],
                                           !.expires = began[r] + VocabularyTtl]
             /\ Give(r, known, 0)
             /\ Stage(r, "reading", "made") /\ loop' = "free"
       \/ HangLoop /\ Stage(r, "reading", "hung") /\ UNCHANGED <<vocabulary, given>>
    /\ UNCHANGED <<environmentVars, client, collection, began, warmVars>>

Construct(r) == Connect(r) \/ GetCollection(r) \/ FindVocabulary(r) \/ ReadVocabulary(r)

-----------------------------------------------------------------------------
(* warm_authorized_lexical_corpora *)

(* A read may raise a TimeoutError, which its waiter takes for its own.     *)
AttemptRaises == Raises /\ attempt' \in {"failed", "timed out"} /\ UNCHANGED left

(* shared_chroma_client, on the event loop. *)
MakeClient ==
    /\ attempt = "created" /\ loop = "free"
    /\ \/ /\ client # "none" \/ Answers
          /\ client' = IF client = "none" THEN "bounded" ELSE client
          /\ attempt' = "listing" /\ UNCHANGED <<left, loop>>
       \/ client = "none" /\ AttemptRaises /\ UNCHANGED <<client, loop>>
       \/ client = "none" /\ HangLoop /\ UNCHANGED <<client, attempt, left>>
    /\ UNCHANGED <<environmentVars, collection, requestVars, waiter, ready>>

(* list_collections, in a thread. *)
ListCollections ==
    /\ attempt = "listing"
    /\ \/ Answers /\ attempt' = "opening" /\ UNCHANGED left
       \/ AttemptRaises
       \/ Hangs /\ attempt' = "hung" /\ UNCHANGED left
    /\ UNCHANGED <<environmentVars, client, collection, loop, requestVars, waiter, ready>>

(* ChromaAccessRetriever.create, on the event loop. *)
OpenCollection ==
    /\ attempt = "opening" /\ loop = "free"
    /\ \/ /\ collection \/ Answers
          /\ collection' = TRUE
          /\ attempt' = "fetching" /\ left' = Corpora /\ UNCHANGED loop
       \/ ~collection /\ AttemptRaises /\ UNCHANGED <<collection, loop>>
       \/ ~collection /\ HangLoop /\ UNCHANGED <<collection, attempt, left>>
    /\ UNCHANGED <<environmentVars, client, requestVars, waiter, ready>>

(* _cached_authorized_corpus for the next scope, in a thread. *)
FetchCorpus ==
    /\ attempt = "fetching"
    /\ \/ /\ Answers
          /\ left' = left - 1
          /\ attempt' = IF left' = 0 THEN "warmed" ELSE "fetching"
       \/ AttemptRaises
       \/ Hangs /\ attempt' = "hung" /\ UNCHANGED left
    /\ UNCHANGED <<environmentVars, client, collection, loop, requestVars, waiter, ready>>

WarmUp == MakeClient \/ ListCollections \/ OpenCollection \/ FetchCorpus

-----------------------------------------------------------------------------
(* _warm_lexical_corpora_until_ready *)

Unfinished == {"created", "listing", "opening", "fetching", "hung"}
Waits(here, there) == loop = "free" /\ waiter = here /\ waiter' = there

(* One attempt is under way at a time; a slow one is waited for again.      *)
Await ==
    /\ Waits("looping", "waiting")
    /\ attempt' = IF attempt = "none" THEN "created" ELSE attempt
    /\ UNCHANGED <<left, ready>>

SeeWarm ==
    /\ Waits("waiting", "done") /\ attempt = "warmed"
    /\ ready' = TRUE /\ UNCHANGED <<attempt, left>>

(* wait_for times out, or the attempt itself has ended in a TimeoutError.   *)
SeeTimeout ==
    /\ Waits("waiting", "sleeping") /\ attempt \in Unfinished \cup {"timed out"}
    /\ UNCHANGED <<attempt, left, ready>>

SeeFailure_KeepsAttempt ==
    /\ Waits("waiting", "sleeping") /\ attempt = "failed"
    /\ UNCHANGED <<attempt, left, ready>>

(* The failed attempt is forgotten, and the next round begins another.      *)
SeeFailure ==
    /\ Waits("waiting", "sleeping") /\ attempt = "failed"
    /\ attempt' = "none" /\ UNCHANGED <<left, ready>>

WakeUp == Waits("sleeping", "looping") /\ UNCHANGED <<attempt, left, ready>>

(* lifespan cancels the task: the attempt it waits for goes with it, the    *)
(* one it sleeps over, or has just timed out on, is left to run.            *)
Shutdown ==
    /\ \E here \in {"looping", "waiting", "sleeping"} : Waits(here, "cancelled")
    /\ \/ UNCHANGED attempt
       \/ waiter = "waiting" /\ attempt \in Unfinished /\ attempt' = "cancelled"
    /\ UNCHANGED <<left, ready>>

AwaitWarmUp ==
    /\ Await \/ SeeWarm \/ SeeTimeout \/ SeeFailure \/ WakeUp
    /\ UNCHANGED <<environmentVars, client, collection, loop, requestVars>>

Stop == Shutdown /\ UNCHANGED <<environmentVars, client, collection, loop, requestVars>>

-----------------------------------------------------------------------------
Environment ==
    /\ \/ /\ chroma = "up" /\ outages < MaxOutages
          /\ outages' = outages + 1 /\ chroma' \in {"down", "silent"}
          /\ UNCHANGED clock
       \/ chroma # "up" /\ chroma' = "up" /\ UNCHANGED <<outages, clock>>
       \/ clock < MaxClock /\ clock' = clock + 1 /\ UNCHANGED <<chroma, outages>>
    /\ UNCHANGED <<client, collection, loop, requestVars, warmVars>>

StartupNext ==
    \/ \E r \in Callers : Construct(r)
    \/ WarmUp \/ AwaitWarmUp \/ Stop \/ Environment

(* A coroutine that can run is run, a thread makes its progress, and a read *)
(* that Chroma answers ends.  Nothing makes Chroma come back.               *)
Fairness ==
    /\ WF_startupVars(WarmUp) /\ WF_startupVars(AwaitWarmUp)
    /\ \A r \in Callers : WF_startupVars(Construct(r))

StartupSpec == StartupInit /\ [][StartupNext]_startupVars /\ Fairness

-----------------------------------------------------------------------------
(* Properties *)

(* Once Chroma is back for good the process becomes ready, unless it was    *)
(* stopped, an attempt ended in a TimeoutError or in a read that no timeout *)
(* bounds, or such a read holds the event loop.                             *)
WarmUpRecovers ==
    <>[](chroma = "up") =>
        <>(ready \/ waiter = "cancelled" \/ attempt \in {"timed out", "hung"} \/ loop = "hung")

(* No request plans with a vocabulary read longer ago than its time to      *)
(* live, the empty one that stands for a failed read included.              *)
VocabularyRecovers ==
    \A r \in Callers : given[r].age = 0 \/ given[r].age < VocabularyTtl
=============================================================================
