---------------------------- MODULE MCTurnLogger ----------------------------
(* A model-checking instance of TurnLogger. *)
EXTENDS TurnLogger
=============================================================================
