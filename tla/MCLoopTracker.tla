--------------------------- MODULE MCLoopTracker ---------------------------
(* Model-checking instances of LoopTracker. *)
EXTENDS LoopTracker
=============================================================================
