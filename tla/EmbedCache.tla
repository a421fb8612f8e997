----------------------------- MODULE EmbedCache -----------------------------
(***************************************************************************)
(* The query-vector cache of LocalMultilingualEmbedder (embedding.py):     *)
(* embed_queries, _encode and _evict_locked, called from several retrieval *)
(* threads.  Every access to the OrderedDict holds _cache_lock, so one     *)
(* critical section is one action; the model runs between two of them.     *)
(* A vector is identified with the text it embeds.                         *)
(***************************************************************************)
EXTENDS Selection, SequencesExt

CONSTANTS
    Threads,
    Texts,           \* the normalized query texts
    CacheEntries,    \* _CACHE_ENTRIES, 64 in the code
    MaxTexts         \* the most distinct texts of one call

ASSUME CacheAssumption == CacheEntries \in Nat \ {0} /\ MaxTexts \in 1..CacheEntries

VARIABLES
    pc,
    cache,           \* the OrderedDict's keys, least recently used first
    texts,           \* by thread: the texts of its call
    todo,            \* by thread: the texts its next _encode embeds
    failed           \* by thread: its last call raised KeyError

embedVars == <<pc, cache, texts, todo, failed>>

-----------------------------------------------------------------------------
Lookups == {s \in UNION {[1..n -> Texts] : n \in 1..MaxTexts} : IsInjective(s)}
NotIn(c, s) == Selected(s, LAMBDA v : ~Contains(c, v))

(* Assigning to a key that is present keeps its place in the order. *)
Inserted(c, s) == c \o NotIn(c, s)

(* move_to_end of those that are present, one after the other. *)
Touched(c, s) == NotIn(s, c) \o Selected(s, LAMBDA v : Contains(c, v))

Evicted_TooEarly(c) ==
    IF Len(c) >= CacheEntries THEN SubSeq(c, Len(c) - CacheEntries + 2, Len(c)) ELSE c

(* _evict_locked *)
Evicted(c) ==
    IF Len(c) > CacheEntries THEN SubSeq(c, Len(c) - CacheEntries + 1, Len(c)) ELSE c

EmbedInit ==
    /\ pc = [t \in Threads |-> "idle"]
    /\ cache = <<>>
    /\ texts = [t \in Threads |-> <<>>] /\ todo = [t \in Threads |-> <<>>]
    /\ failed = [t \in Threads |-> FALSE]

At(t, here, there) == pc[t] = here /\ pc' = [pc EXCEPT ![t] = there]

-----------------------------------------------------------------------------
(* First critical section of embed_queries. *)
FindMissing(t) ==
    /\ \E s \in Lookups :
          /\ texts' = [texts EXCEPT ![t] = s]
          /\ todo' = [todo EXCEPT ![t] = NotIn(cache, s)]
          /\ At(t, "idle", IF todo'[t] = <<>> THEN "recheck" ELSE "encode")
    /\ failed' = [failed EXCEPT ![t] = FALSE]
    /\ UNCHANGED cache

(* _encode: the vectors are stored, and the oldest entries evicted, in one  *)
(* critical section after the model ran.                                    *)
Encode(t) ==
    /\ \/ At(t, "encode", "recheck")
       \/ At(t, "encode_absent", "read")
    /\ cache' = Evicted(Inserted(cache, todo[t]))
    /\ todo' = [todo EXCEPT ![t] = <<>>]
    /\ UNCHANGED <<texts, failed>>

(* _encode raises before it stores anything, and embed_queries with it. *)
EncodeFails(t) ==
    /\ At(t, "encode", "idle") \/ At(t, "encode_absent", "idle")
    /\ texts' = [texts EXCEPT ![t] = <<>>] /\ todo' = [todo EXCEPT ![t] = <<>>]
    /\ UNCHANGED <<cache, failed>>

(* Second critical section: what was evicted since is encoded again. *)
FindAbsent(t) ==
    /\ todo' = [todo EXCEPT ![t] = NotIn(cache, texts[t])]
    /\ At(t, "recheck", IF todo'[t] = <<>> THEN "read" ELSE "encode_absent")
    /\ UNCHANGED <<cache, texts, failed>>

(* Third critical section: the entries found become the most recent, and a  *)
(* missing one is a KeyError.                                               *)
ReadVectors(t) ==
    /\ At(t, "read", "idle")
    /\ cache' = Evicted(Touched(cache, texts[t]))
    /\ failed' = [failed EXCEPT ![t] = NotIn(cache, texts[t]) # <<>>]
    /\ texts' = [texts EXCEPT ![t] = <<>>]
    /\ UNCHANGED todo

-----------------------------------------------------------------------------
(* Properties *)

(* A call raises KeyError only by the eviction of its text, in a cache that *)
(* is full, while another thread's call is under way or has just been: the  *)
(* lock keeps the cache a set of keys within its bound throughout.          *)
FailsOnlyWhenFull ==
    [][/\ \A t \in Threads : failed'[t] /\ ~failed[t] =>
              Len(cache) = CacheEntries /\ Len(texts[t]) + Len(cache) > CacheEntries
       /\ Len(cache') <= CacheEntries /\ IsInjective(cache')]_embedVars
=============================================================================
