---------------------------- MODULE EvidenceWindow ----------------------------
(***************************************************************************)
(* The operations on ranked lists of chunks by which app/workflow_nodes/   *)
(* retrieval.py and app/workflow_support/ make up the window of documents  *)
(* an answer is written from.  A list is best first; a chunk is a record   *)
(*                                                                         *)
(*   type      PAGE, CODE, ISSUE or ATTACHMENT                             *)
(*   source    the page, file or ticket it was cut from                    *)
(*   parent    the record it is a piece of (NoParent: none)                *)
(*   ordinal   its place in that record                                    *)
(*   locator   the part of the record it is cut from (NoLocator: unknown)  *)
(*   entity    the product it declares (NoEntity: none)                    *)
(*   anchored  it holds an identifier of the question verbatim             *)
(*   current   it is not a piece of a ticket's past                        *)
(*   terms     the requirements its text satisfies                         *)
(*                                                                         *)
(* and stands for its chunk_id: two chunks of one list are never equal.    *)
(***************************************************************************)
EXTENDS Integers, Selection, SequencesExt

CONSTANTS
    Docs,           \* the chunks the request is authorized for
    NoParent, NoLocator, NoEntity,
    PerSource,      \* max_chunks_per_source
    MaxNeighbors,   \* max_neighbors_per_anchor
    CodeTopN        \* code_assisted_code_top_n

ASSUME WindowAssumption ==
    /\ IsFiniteSet(Docs) /\ \A d \in Docs : d.ordinal \in Nat
    /\ PerSource \in Nat \ {0} /\ MaxNeighbors \in 0..2 /\ CodeTopN \in Nat

Least(a, b) == IF a < b THEN a ELSE b
Most(a, b) == IF a < b THEN b ELSE a

(* The list cut to its first n.                                            *)
Window(s, n) == SubSeq(s, 1, Least(n, Len(s)))

Without(s, t) == Selected(s, LAMBDA d : d \notin ToSet(t))

OfType(s, types) == Selected(s, LAMBDA d : d.type \in types)

(* What is new in the second list follows the first.                       *)
MergeRanked(ranked, prior, n) == Window(ranked \o Without(prior, ranked), n)

(* At most three candidates with an exact identifier go before everything. *)
ProtectAnchors(ranked, candidates, n) ==
    LET anchors == Window(Selected(candidates, LAMBDA d : d.anchored), Least(3, n))
    IN  MergeRanked(anchors, ranked, n)

(* The best chunk of each value of a field.                                *)
FirstOfEach(s, field) ==
    Picked(s, {i \in DOMAIN s : \A j \in DOMAIN s : j < i => s[j][field] # s[i][field]})

(* The best chunk of each source first, the others after.                  *)
DiverseOrder(s) ==
    LET primary == FirstOfEach(s, "source")
    IN  primary \o Without(s, primary)

-----------------------------------------------------------------------------
(* Chunks beside the ranked ones, each source within its limit.            *)
Family(d) == IF d.parent = NoParent THEN d.source ELSE d.parent

Beside(d, e) == /\ Family(d) = Family(e)
                /\ d.ordinal - e.ordinal \in {-1, 1}

AddWithinSource(s, d) ==
    IF \/ d \in ToSet(s)
       \/ Len(Selected(s, LAMBDA e : e.source = d.source)) >= PerSource
    THEN s ELSE Append(s, d)

AddNeighbor(s, t, d) ==
    IF Len(t) >= Len(s) + MaxNeighbors THEN t ELSE AddWithinSource(t, d)

AddNeighbors(s, neighbors) ==
    LET add[i \in 0..Len(neighbors)] ==
            IF i = 0 THEN s ELSE AddNeighbor(s, add[i - 1], neighbors[i])
    IN  add[Len(neighbors)]

AddAnchor(s, anchor, candidates) ==
    AddNeighbors(AddWithinSource(s, anchor),
                 Selected(candidates, LAMBDA d : Beside(d, anchor)))

Expanded(ranked, candidates) ==
    LET expand[i \in 0..Len(ranked)] ==
            IF i = 0 THEN <<>> ELSE AddAnchor(expand[i - 1], ranked[i], candidates)
    IN  expand[Len(ranked)]

ExpandNeighbors(ranked, candidates, n) ==
    Window(IF MaxNeighbors = 0 THEN ranked ELSE Expanded(ranked, candidates), n)

(* Pages first, and a few others kept a place.                             *)
ReserveForPages(s, n) ==
    LET pages == OfType(s, {"PAGE"})
        others == Window(Without(s, pages), CodeTopN)
    IN  IF pages = <<>> THEN s ELSE Window(pages, Most(1, n - Len(others))) \o others

-----------------------------------------------------------------------------
(* A requirement is a term some chunk must hold, or a source type ("source:*)
(* CODE") of which there must be a chunk.  Only a term can be looked for in*)
(* a text.                                                                 *)
Term(t) == [kind |-> "term", of |-> t]
SourceType(t) == [kind |-> "source", of |-> t]

Satisfies(d, requirement) == requirement.kind = "term" /\ requirement.of \in d.terms

(* Each requirement is given its first candidate that is not in the window *)
(* yet, at the window's end.                                               *)
Pin(s, candidates, requirement) ==
    LET hits == Selected(candidates, LAMBDA d : /\ d \notin ToSet(s)
                                                /\ Satisfies(d, requirement))
    IN  IF hits = <<>> THEN s ELSE Append(s, Head(hits))

Pinned(ranked, candidates, requirements) ==
    LET pin[i \in 0..Len(requirements)] ==
            IF i = 0 THEN ranked ELSE Pin(pin[i - 1], candidates, requirements[i])
    IN  pin[Len(requirements)]

PinRequirements(ranked, candidates, requirements, n) ==
    IF requirements = <<>> THEN ranked
                           ELSE Window(Pinned(ranked, candidates, requirements), n)

MissingTerms(requirements, documents) ==
    Selected(requirements, LAMBDA r : ~\E d \in ToSet(documents) : Satisfies(d, r))

MissingTypes(types, documents) ==
    Selected(types, LAMBDA t : ~\E d \in ToSet(documents) : d.type = t)

-----------------------------------------------------------------------------
(* All chunks of the record, or of the known part of it, that a chunk was  *)
(* cut from, in their own order.                                           *)
SameRecord(d, e) == /\ e.parent = d.parent
                    /\ d.locator = NoLocator \/ e.locator = d.locator

InOrder(S) ==
    CHOOSE s \in SetToSeqs(S) :
        \A i, j \in DOMAIN s : i < j => s[i].ordinal <= s[j].ordinal

Record(anchor, chunks) == InOrder({d \in chunks : SameRecord(anchor, d)})

(* A bounded record is a window of its chunks around the one that matched. *)
Around(family, anchor, n) ==
    LET at == CHOOSE i \in DOMAIN family : family[i] = anchor
        start == Least(Most(0, (at - 1) - (n \div 2)), Len(family) - n)
    IN  IF Len(family) <= n THEN family ELSE SubSeq(family, start + 1, start + n)

(* What takes a chunk's place.                                             *)
Whole(d, chunks, bounded) ==
    CASE d.parent = NoParent -> <<d>>
      [] d.parent # NoParent /\ bounded -> Around(Record(d, chunks), d, PerSource)
      [] OTHER -> Record(d, chunks)

Joined(s, chunks, bounded) ==
    LET join[i \in 0..Len(s)] ==
            IF i = 0 THEN <<>> ELSE join[i - 1] \o Whole(s[i], chunks, bounded)
    IN  join[Len(s)]

(* A deliberately wrong variant: a record takes each of its chunks' place. *)
Reconstruct_Repeated(documents, siblings, bounded) ==
    IF \A d \in ToSet(documents) : d.parent = NoParent THEN documents
    ELSE Joined(documents, ToSet(documents) \cup siblings, bounded)

(* The whole record of every chunk takes its place, at its first chunk's   *)
(* rank; of the chunks that are part of no record only the first is kept.  *)
Reconstruct(documents, siblings, bounded) ==
    IF \A d \in ToSet(documents) : d.parent = NoParent THEN documents
    ELSE Joined(FirstOfEach(documents, "parent"),
                ToSet(documents) \cup siblings, bounded)

-----------------------------------------------------------------------------
(* What a cross encoder may make of a set of chunks: its order is whatever *)
(* the scores say, and any of them may be below its threshold.             *)
Arrangements(S, n) == {Window(s, n) : s \in SetToSeqs(S)}
Rankings(S, n) ==
    UNION {SetToSeqs(T) : T \in {T \in SUBSET S : Cardinality(T) <= n}}

(* Two rankings, alternately.                                              *)
Alternate(s, t) ==
    LET both == Least(Len(s), Len(t))
    IN  [i \in 1..(2 * both) |-> IF i % 2 = 1 THEN s[(i + 1) \div 2] ELSE t[i \div 2]]
        \o SubSeq(s, both + 1, Len(s)) \o SubSeq(t, both + 1, Len(t))
=============================================================================
