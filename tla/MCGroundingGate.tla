-------------------------- MODULE MCGroundingGate --------------------------
(* TLC instances of GroundingGate. *)
EXTENDS GroundingGate
=============================================================================
