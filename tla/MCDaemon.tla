------------------------------ MODULE MCDaemon ------------------------------
(* A model-checking instance of Daemon. *)
EXTENDS Daemon, TLC

Symmetry == Permutations(Callers) \cup Permutations(Pids)
=============================================================================
