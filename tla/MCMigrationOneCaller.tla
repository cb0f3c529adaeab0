------------------------ MODULE MCMigrationOneCaller ------------------------
(***************************************************************************)
(* One caller of MigrationRunner in two scenarios: nothing fails and the   *)
(* caller has four calls; or statements are refused, the process may die   *)
(* and each version depends on the one before, with three calls.  The      *)
(* instances are of the module with the proofs, whose lemmas               *)
(* MCMigrationOneCallerProofs cites.                                       *)
(***************************************************************************)
EXTENDS MigrationRunner

VARIABLE scenario
mcvars == <<vars, scenario>>

\* Version 2 begins with an INSERT; every other statement is a CREATE TABLE.
MCRepeatable == {<<2, 1>>}

\* Each version depends on the one before it.
MCChain == [v \in Versions |-> {w \in Versions : w = v - 1}]

Alone == INSTANCE MigrationRunnerProofs WITH
    Depends <- [v \in Versions |-> {}], ReadFaults <- FALSE,
    LedgerFaults <- FALSE, StatementFaults <- FALSE, MaxCrashes <- 0
Faulty == INSTANCE MigrationRunnerProofs WITH MaxCalls <- 3

ASSUME OneCaller == \A p, r \in Runners : p = r

MCInit ==
    \/ scenario = "alone"  /\ Alone!Init
    \/ scenario = "faulty" /\ Faulty!Init

MCNext ==
    /\ \/ scenario = "alone"  /\ Alone!Next
       \/ scenario = "faulty" /\ Faulty!Next
    /\ UNCHANGED scenario

MCStep(r) ==
    /\ \/ scenario = "alone"  /\ Alone!Step(r)
       \/ scenario = "faulty" /\ Faulty!Step(r)
    /\ UNCHANGED scenario

MCSpec == MCInit /\ [][MCNext]_mcvars /\ \A r \in Runners : WF_mcvars(MCStep(r))

(* Nothing failing, no up statement is ever in effect twice (run_migrations *)
(* takes pending versions only, rollback_migrations completed ones).        *)
AloneAppliedAtMostOnce == scenario = "alone" => AppliedAtMostOnce

(* Nothing failing, a rollback leaves nothing above its target.             *)
AloneRollbackClears == [][scenario = "alone" => RollbackClears]_mcvars

(* Nothing failing, runner.py implements the stack of MigrationLedger.      *)
Ledger == INSTANCE MigrationLedger WITH
    version <- IF scenario = "alone" THEN LedgerVersion ELSE 0,
    schema  <- IF scenario = "alone" THEN LedgerSchema
                                     ELSE [v \in Versions |-> "none"]
AloneImplementsLedger == Ledger!LedgerSpec
=============================================================================
