----------------------------- MODULE MCKeyWindow -----------------------------
(* Model-checking instance of KeyWindow: one key, a ceiling of a few slots. *)
EXTENDS KeyWindow
=============================================================================
