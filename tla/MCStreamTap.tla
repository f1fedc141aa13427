----------------------------- MODULE MCStreamTap -----------------------------
(* A model-checking instance of StreamTap. *)
EXTENDS StreamTap
=============================================================================
