---------------------------- MODULE MCOutputGate ----------------------------
(* TLC instances of OutputGate. *)
EXTENDS OutputGate, TLC

ClaimSymmetry == Permutations(Claims)

(* Nothing is asked of an empty document list, nor of a list of identifiers *)
(* or fields the question does not ask for; a stale list of items is not    *)
(* read when fields are asked; and the gate reads nothing of an answer that *)
(* is not releasable: one value each stands for all of them.                *)
MCInit ==
    /\ grounded \in BOOLEAN /\ checked \in BOOLEAN
    /\ docs \in {d \in Documents :
          d.found \/ (d.permitted /\ d.inScope /\ ~d.conflict /\ d.fresh)}
    /\ request \in {r \in Requests :
          \A ask \in Asks \ r.asks : r.expected[ask] = {}}
    /\ answer \in {NoAnswer} \cup {a \in Answers : a.notes = {}}
    /\ kind \in IF Releasable THEN [Claims -> Kinds] ELSE [Claims -> {"direct"}]
    /\ cited \in IF Releasable THEN SUBSET Claims ELSE {Claims}
    /\ missing \in
          IF checked THEN {[ask \in Asks |-> request.expected[ask] \ answer.claims]}
          ELSE IF Releasable THEN [Asks -> SUBSET Claims] ELSE [Asks -> {{}}]
    /\ checked \/ "fields" \notin request.asks \/ missing["items"] = {}
    /\ Init

MCSpec == MCInit /\ [][Next]_vars
=============================================================================
