----------------------------- MODULE CorpusReads -----------------------------
(***************************************************************************)
(* The searches of the requests of one process (retrieval.py), each in a   *)
(* worker thread: in the dense channel, which embeds, asks Chroma, and     *)
(* falls back to the authorized corpus when either raises, or in the       *)
(* lexical channel, which reads the corpus at once.                        *)
(***************************************************************************)
EXTENDS EmbedCache, CorpusCache

CONSTANTS
    Fallback,        \* lexical_fallback_enabled
    MaxSearches      \* bound on the searches

ASSUME ReadersAssumption == Readers = Threads

VARIABLES
    stage,           \* by thread
    caller,          \* by thread: who it searches for
    searches

searchVars == <<stage, caller, searches>>
vars == <<embedVars, cacheVars, searchVars>>

NoCaller == [policies |-> {}, schema |-> ""]

Init ==
    /\ EmbedInit /\ CacheInit
    /\ stage = [t \in Threads |-> "idle"] /\ caller = [t \in Threads |-> NoCaller]
    /\ searches = 0

Stage(t, here, there) == stage[t] = here /\ stage' = [stage EXCEPT ![t] = there]

-----------------------------------------------------------------------------
Begin(t) ==
    /\ searches < MaxSearches /\ searches' = searches + 1
    /\ stage[t] = "idle" /\ stage' \in {[stage EXCEPT ![t] = s] : s \in {"dense", "lexical"}}
    /\ \E c \in Callers : caller' = [caller EXCEPT ![t] = c]
    /\ UNCHANGED <<embedVars, cacheVars>>

(* ainvoke_scoped: embedded once, whatever comes of it. *)
Embed(t) ==
    /\ \/ FindMissing(t) /\ Stage(t, "dense", "embedding")
       \/ Encode(t) /\ UNCHANGED stage
       \/ EncodeFails(t) /\ Stage(t, "embedding", "fallback")
       \/ FindAbsent(t) /\ UNCHANGED stage
       \/ ReadVectors(t) /\ Stage(t, "embedding", IF failed'[t] THEN "fallback" ELSE "querying")
    /\ UNCHANGED <<cacheVars, caller, searches>>

(* _search_with_vector answers, or raises after its retries. *)
SearchDense(t) ==
    /\ Stage(t, "querying", "done") \/ Stage(t, "querying", "fallback")
    /\ UNCHANGED <<embedVars, cacheVars, caller, searches>>

(* _lexical_fallback for a search that raised, when it is enabled, and      *)
(* _lexical_candidates.                                                     *)
LookUpCorpus(t) ==
    /\ \E scope \in CorpusScopes : FindCorpus(t, caller[t], scope)
    /\ \/ Fallback /\ Stage(t, "fallback", IF Fetching(t)' THEN "fetching" ELSE "done")
       \/ Stage(t, "lexical", IF Fetching(t)' THEN "fetching" ELSE "done")
    /\ UNCHANGED <<embedVars, caller, searches>>

Fetch(t) ==
    /\ \/ FetchPage(t) /\ UNCHANGED stage
       \/ FetchFails(t) /\ Stage(t, "fetching", "done")
       \/ StoreCorpus(t) /\ Stage(t, "fetching", "done")
    /\ UNCHANGED <<embedVars, caller, searches>>

(* The search has its answer, or its error. *)
Leave(t) ==
    /\ stage[t] = "done" \/ (stage[t] = "fallback" /\ ~Fallback)
    /\ stage' = [stage EXCEPT ![t] = "idle"]
    /\ caller' = [caller EXCEPT ![t] = NoCaller]
    /\ UNCHANGED <<embedVars, cacheVars, searches>>

Environment == (Tick \/ Ingest) /\ UNCHANGED <<embedVars, searchVars>>

Ended == searches = MaxSearches /\ (\A t \in Threads : stage[t] = "idle") /\ UNCHANGED vars

Next ==
    \/ \E t \in Threads :
          Begin(t) \/ Embed(t) \/ SearchDense(t) \/ LookUpCorpus(t) \/ Fetch(t) \/ Leave(t)
    \/ Environment \/ Ended

Spec == Init /\ [][Next]_vars
=============================================================================
