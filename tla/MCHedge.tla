------------------------------- MODULE MCHedge -------------------------------
(* A model-checking instance of Hedge: one request, small rails. *)
EXTENDS Hedge

\* A model nothing is known of, a quick one, one that was slow as often as not,
\* and one that was slow once in 21 calls.
SlowOnce == [i \in 1 .. 21 |-> IF i = 4 THEN 2 ELSE 1]

SomeRings == {<<>>, <<1, 1>>, <<2, 1>>, SlowOnce}
=============================================================================
