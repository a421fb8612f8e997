----------------------------- MODULE CorpusCache -----------------------------
(***************************************************************************)
(* The process-wide cache of the authorized corpora of the lexical channel *)
(* (retrieval.py), filled page by page from the Chroma collection of a     *)
(* project by worker threads.  Ingestion changes the collection while they *)
(* read it.                                                                *)
(*                                                                         *)
(* Time is counted in ticks.  The lock is held over no read, so between    *)
(* the lookup of a thread and its store others look up, fetch and store.   *)
(***************************************************************************)
EXTENDS CorpusScan, SequencesExt

CONSTANTS
    Readers,         \* the threads that read a corpus
    Callers,         \* [policies, schema]: who a retriever reads for
    CorpusScopes,    \* the source scopes that are asked for
    Indexes,         \* the collection, ingestion after ingestion: records of
                     \* [id, type, policy, schema], in the order Chroma has them
    PageSize,        \* page_size, 500 in the code
    MaxRecords,      \* lexical_fallback_max_records
    CorpusTtl,
    MaxEntries,      \* lexical_fallback_cache_max_entries
    MaxClock         \* bound on the ticks

DocumentPolicies == {"project", "department"}
SourceTypes == {"PAGE", "ATTACHMENT", "ISSUE", "CODE"}

ASSUME CallersAssumption == \A c \in Callers : "project" \in c.policies
ASSUME ScopesAssumption == CorpusScopes \subseteq SUBSET SourceTypes

(* Every record there ever is. The ids of a collection are unique. *)
Documents == UNION {ToSet(Indexes[v]) : v \in DOMAIN Indexes}

ASSUME IndexesAssumption ==
    /\ Indexes \in Seq(Seq(Documents)) /\ Indexes # <<>>
    /\ \A r \in Documents : r.policy \in DocumentPolicies
    /\ \A v \in DOMAIN Indexes : \A i, j \in DOMAIN Indexes[v] :
          Indexes[v][i].id = Indexes[v][j].id => i = j

ASSUME BoundsAssumption ==
    /\ PageSize \in Nat \ {0} /\ MaxRecords \in Nat \ {0} /\ MaxEntries \in Nat \ {0}
    /\ CorpusTtl \in Nat

VARIABLES
    clock,           \* time.monotonic()
    version,         \* the state of the collection
    corpora,         \* _FALLBACK_CORPUS_CACHE, least recently used first
    reading,         \* by reader: the fetch under way, or NoFetch
    age              \* of the cached corpus that was given last, in ticks

cacheVars == <<clock, version, corpora, reading, age>>

NoFetch == [began |-> 0, scan |-> [left |-> <<>>]]

-----------------------------------------------------------------------------
(* document_visible_policies *)
Visible(caller) == caller.policies \cap DocumentPolicies

Key_ProjectOnly(caller, scope) == [policies |-> {"project"}, scope |-> scope, schema |-> caller.schema]

(* The key of _cached_authorized_corpus, without the parts that one process *)
(* has one value of.                                                        *)
Key(caller, scope) == [policies |-> Visible(caller), scope |-> scope, schema |-> caller.schema]

(* What the filter of the fetch selects; a record of another schema or      *)
(* embedding model is read and dropped.                                     *)
IndexFor(caller) ==
    LET index == Selected(Indexes[version], LAMBDA r : r.policy \in caller.policies)
    IN  [i \in DOMAIN index |->
            [id |-> index[i].id, type |-> index[i].type, policy |-> index[i].policy,
             schema |-> index[i].schema, compatible |-> index[i].schema = caller.schema]]

Entry(entries, key) ==
    LET i == SelectInSeq(entries, LAMBDA e : e.key = key)
    IN  IF i = 0 THEN <<>> ELSE <<entries[i]>>

Without(entries, key) == Selected(entries, LAMBDA e : e.key # key)

(* move_to_end, and popitem of the oldest beyond the bound.                 *)
Put(entries, entry) ==
    LET all == Append(Without(entries, entry.key), entry)
    IN  IF Len(all) > MaxEntries THEN Tail(all) ELSE all

CacheInit ==
    /\ clock = 0 /\ version = 1
    /\ corpora = <<>>
    /\ reading = [t \in Readers |-> NoFetch] /\ age = 0

-----------------------------------------------------------------------------
(* Corpora *)

(* _cached_authorized_corpus finds the entry, or begins to fetch. An entry  *)
(* that has expired is moved to the end all the same.                       *)
FindCorpus(t, caller, scope) ==
    LET key == Key(caller, scope)
        found == IF CorpusTtl = 0 THEN <<>> ELSE Entry(corpora, key)
        fresh == found # <<>> /\ found[1].expires > clock
    IN  /\ corpora' = IF found = <<>> THEN corpora ELSE Append(Without(corpora, key), found[1])
        /\ \/ /\ fresh
              /\ age' = clock - found[1].began
              /\ UNCHANGED reading
           \/ /\ ~fresh
              /\ reading' = [reading EXCEPT ![t] =
                     [caller |-> caller, scope |-> scope, began |-> clock, version |-> version,
                      torn |-> FALSE,
                      scan |-> [left |-> Partitions(scope), offset |-> 0, records |-> <<>>]]]
              /\ UNCHANGED age
        /\ UNCHANGED <<clock, version>>

Fetching(t) == reading[t] # NoFetch
PagesLeft(t) == Fetching(t) /\ reading[t].scan.left # <<>>

(* One page of _fetch_fallback_corpus, of the collection as it is now. *)
FetchPage(t) ==
    /\ PagesLeft(t)
    /\ reading' = [reading EXCEPT ![t].scan =
           ReadPage(IndexFor(reading[t].caller), @, PageSize, MaxRecords)]
    /\ UNCHANGED <<clock, version, corpora, age>>

(* _read_cache_page gave up: nothing is cached, and the caller gets nothing.*)
FetchFails(t) ==
    /\ PagesLeft(t)
    /\ reading' = [reading EXCEPT ![t] = NoFetch]
    /\ UNCHANGED <<clock, version, corpora, age>>

Expires_AfterFetch(fetch) == clock + CorpusTtl

(* A corpus is as old as its fetch, however long that took. *)
Expires(fetch) == fetch.began + CorpusTtl

(* The fetched corpus replaces what another thread stored meanwhile, newer  *)
(* or older.                                                                *)
StoreCorpus(t) ==
    /\ Fetching(t) /\ reading[t].scan.left = <<>>
    /\ LET fetch == reading[t]
           entry == [key |-> Key(fetch.caller, fetch.scope), expires |-> Expires(fetch),
                     records |-> fetch.scan.records,
                     complete |-> ~Ceiling(fetch.scan.records, MaxRecords),
                     torn |-> fetch.torn, version |-> fetch.version, began |-> fetch.began]
       IN  corpora' = IF CorpusTtl = 0 THEN corpora ELSE Put(corpora, entry)
    /\ reading' = [reading EXCEPT ![t] = NoFetch]
    /\ UNCHANGED <<clock, version, age>>

-----------------------------------------------------------------------------
Tick ==
    /\ clock < MaxClock /\ clock' = clock + 1
    /\ UNCHANGED <<version, corpora, reading, age>>

(* A fetch under way when the collection changes is torn. *)
Ingest ==
    /\ version < Len(Indexes) /\ version' = version + 1
    /\ reading' = [t \in Readers |->
           IF Fetching(t) THEN [reading[t] EXCEPT !.torn = TRUE] ELSE reading[t]]
    /\ UNCHANGED <<clock, corpora, age>>

-----------------------------------------------------------------------------
(* Properties *)

(* Whoever fetched it, a corpus holds nothing that a reader it is kept for  *)
(* may not see or cannot use; and one that says it is complete, of a        *)
(* collection that did not change while it was fetched and holds no record  *)
(* the reader drops, is all that the reader may see, each record once.      *)
OwnCorpus ==
    \A i \in DOMAIN corpora : \A c \in Callers :
        LET e == corpora[i]
            seen == {r \in ToSet(Indexes[e.version]) :
                        r.policy \in c.policies /\ r.type \in e.key.scope}
            held == {r.id : r \in ToSet(e.records)}
        IN  e.key = Key(c, e.key.scope) =>
              /\ \A r \in ToSet(e.records) :
                    r.policy \in c.policies /\ r.schema = c.schema /\ r.type \in e.key.scope
              /\ e.complete /\ ~e.torn /\ (\A r \in seen : r.schema = c.schema) =>
                    held = {r.id : r \in seen} /\ Len(e.records) = Cardinality(held)

(* No request is given a cached corpus older than the time to live, also    *)
(* when a slow fetch stored it over a newer one that was given before.      *)
FreshWithinTtl == age = 0 \/ age < CorpusTtl
=============================================================================
