------------------------------ MODULE MCKeyPool ------------------------------
(* Model-checking instances of KeyPool. *)
EXTENDS KeyPool, TLC

\* The request tasks are interchangeable.
RequestSymmetry == Permutations(Requests)
=============================================================================
