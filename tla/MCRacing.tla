------------------------------ MODULE MCRacing ------------------------------
(* A model-checking instance of Racing. *)
EXTENDS Racing
=============================================================================
