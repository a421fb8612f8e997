--------------------------- MODULE MCRagWorkflow ---------------------------
(* TLC instances of RagWorkflow.                                           *)
EXTENDS RagWorkflow
=============================================================================
