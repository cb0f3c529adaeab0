------------------------------ MODULE MCRecords ------------------------------
(* Tasks that use the models, for TLC: nothing tells one from another.      *)
EXTENDS Records, TLC

Tasks == Permutations(Callers)
=============================================================================
