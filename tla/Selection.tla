------------------------------ MODULE Selection ------------------------------
(***************************************************************************)
(* What passes a filter, in its order: a SelectSeq that is not recursive,  *)
(* so that proofs can use it.                                              *)
(***************************************************************************)
EXTENDS Naturals, Sequences, FiniteSets

Nth(places, k) == CHOOSE i \in places : Cardinality({j \in places : j <= i}) = k

Picked(s, places) == [k \in 1..Cardinality(places) |-> s[Nth(places, k)]]

Selected(s, Test(_)) == Picked(s, {i \in DOMAIN s : Test(s[i])})
=============================================================================
