---------------------------- MODULE MCModelStats ----------------------------
(* A model-checking instance of ModelStats. *)
EXTENDS ModelStats

CONSTANTS m1, m2

TwoModels   == <<m1, m2>>
FastOnly    == {m2}
=============================================================================
