---------------------------- MODULE MCGeneration ----------------------------
(* TLC instances of Generation.                                            *)
EXTENDS Generation

(* One request streams and the other, on the answer endpoint, does not; the *)
(* evidence supports the whole sentence but not its unfinished form.        *)
MCInit ==
    /\ Init
    /\ live = [r \in Requests |-> r = CHOOSE s \in Requests : TRUE]
    /\ supported = {c \in Claims : c.whole}

MCFairSpec == MCInit /\ [][Next]_vars /\ Fairness
=============================================================================
