-------------------------- MODULE MCMigrationRunner --------------------------
(* Instances of MigrationRunner for TLC. *)
EXTENDS MigrationRunner, TLC

\* Version 2 begins with an INSERT; every other statement is a CREATE TABLE.
MCRepeatable == {<<2, 1>>}

MCNoDepends == [v \in Versions |-> {}]

\* Each version depends on the one before it.
MCChain == [v \in Versions |-> {w \in Versions : w = v - 1}]

\* Runners are interchangeable; used with invariants only.
MCSymmetry == Permutations(Runners)
=============================================================================
