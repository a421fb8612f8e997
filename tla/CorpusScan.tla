----------------------------- MODULE CorpusScan -----------------------------
(***************************************************************************)
(* _fetch_fallback_corpus (retrieval.py): the paged, bounded scan that     *)
(* fills a cached corpus, one source type after the other. The index is    *)
(* the sequence of its records in the order Chroma returns them.           *)
(***************************************************************************)
EXTENDS Selection

Lesser(a, b) == IF a < b THEN a ELSE b

(* source_partitions: user-facing evidence first.                          *)
Partitions(scope) ==
    Selected(<<"PAGE", "ATTACHMENT", "ISSUE", "CODE">>, LAMBDA t : t \in scope)

(* _document_from_fields builds no document of a record with another       *)
(* schema, another embedding model, no text, or outside the project.       *)
Admitted(records) == Selected(records, LAMBDA r : r.compatible)

(* lexical_fallback_max_records reached: the scan stops and says so.       *)
Ceiling_Passed(records, max) == Len(records) > max
Ceiling(records, max) == Len(records) >= max

(* One index.get: a page short of the page size ends the partition, be it  *)
(* short because the partition ends or because the ceiling is near.        *)
ReadPage(index, scan, pageSize, max) ==
    LET type == Head(scan.left)
        stored == Selected(index, LAMBDA r : r.type = type)
        limit == Lesser(pageSize, max - Len(scan.records))
        page == SubSeq(stored, scan.offset + 1,
                       Lesser(scan.offset + limit, Len(stored)))
        records == scan.records \o Admitted(page)
    IN  CASE Ceiling(records, max) ->
                [left |-> << >>, offset |-> 0, records |-> records]
          [] ~Ceiling(records, max) /\ Len(page) < pageSize ->
                [left |-> Tail(scan.left), offset |-> 0, records |-> records]
          [] OTHER ->
                [left |-> scan.left, offset |-> scan.offset + Len(page),
                 records |-> records]

(* Every page takes at least one record or ends a partition.               *)
Scan(index, scope, pageSize, max) ==
    LET after[n \in 0 .. Len(index) + 4] ==
            IF n = 0
            THEN [left |-> Partitions(scope), offset |-> 0, records |-> << >>]
            ELSE LET before == after[n - 1]
                 IN  IF before.left = << >> THEN before
                     ELSE ReadPage(index, before, pageSize, max)
        records == after[Len(index) + 4].records
    IN  [records |-> {records[i] : i \in DOMAIN records},
         complete |-> ~Ceiling(records, max)]
=============================================================================
