---------------------------- MODULE MCCorpusReads ----------------------------
(* TLC instances of CorpusReads. *)
EXTENDS CorpusReads, TLC

(* Two callers of one project that see different documents.                *)
MCCallers == {[policies |-> {"project"}, schema |-> "s1"],
              [policies |-> {"project", "department", "role"}, schema |-> "s1"]}

MCRecord(id, type, policy, schema) == [id |-> id, type |-> type, policy |-> policy, schema |-> schema]

(* Ingestion removes the first record and adds two, one of another schema. *)
MCIndexes ==
    <<<<MCRecord(1, "CODE", "project", "s1"), MCRecord(2, "CODE", "department", "s1")>>,
      <<MCRecord(2, "CODE", "department", "s1"), MCRecord(3, "CODE", "project", "s1"),
        MCRecord(4, "CODE", "project", "s2")>>>>
MCReaders == Threads
MCSymmetry == Permutations(Threads) \cup Permutations(Texts)
=============================================================================
