---------------------------- MODULE MCAdmission ----------------------------
(* TLC instances of Admission. *)
EXTENDS Admission
=============================================================================
