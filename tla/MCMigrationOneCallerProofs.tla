--------------------- MODULE MCMigrationOneCallerProofs ---------------------
(* The first scenario of MCMigrationOneCaller, where nothing goes wrong, for *)
(* any number of versions, statements and calls of the one caller: what      *)
(* MigrationRunnerProofs proves of it holds of the specification that is run.*)
EXTENDS MCMigrationOneCaller, TLAPS

LEMMA AloneAssumed == Alone!RunnerAssumption /\ Alone!NothingGoesWrong
<1>1. Alone!RunnerAssumption
  BY RunnerAssumption DEF RunnerAssumption, Alone!RunnerAssumption,
     Versions, Alone!Versions, Statements, Alone!Statements
<1>2. Alone!NothingGoesWrong
  BY OneCaller DEF Alone!NothingGoesWrong, Alone!OneAtATime
<1> QED BY <1>1, <1>2

AloneInv == scenario = "alone" => Alone!TypeOK /\ Alone!StackInv

LEMMA AloneStarts == MCInit => AloneInv
<1> SUFFICES ASSUME MCInit, scenario = "alone" PROVE Alone!TypeOK /\ Alone!StackInv
  BY DEF AloneInv
<1>1. Alone!Init
  BY DEF MCInit
<1> QED BY <1>1, AloneAssumed, Alone!InitStack, Alone!InitTypes
        DEF Alone!RunnerAssumption

LEMMA AloneGoesOn == ASSUME AloneInv, [MCNext]_mcvars PROVE AloneInv'
<1> SUFFICES ASSUME scenario = "alone" PROVE Alone!TypeOK' /\ Alone!StackInv'
  BY DEF MCNext, mcvars, AloneInv
<1>1. [Alone!Next]_Alone!vars
  BY DEF MCNext, mcvars, vars, Alone!vars
<1>2. Alone!TypeOK /\ Alone!StackInv
  BY DEF AloneInv
<1> QED BY <1>1, <1>2, AloneAssumed, Alone!NextStack, Alone!NextTypes
        DEF Alone!RunnerAssumption

(* Nothing failing, no up statement is in effect twice, even one that the    *)
(* database would repeat: run_migrations() takes pending versions only, and  *)
(* rollback_migrations() completed ones.                                     *)
THEOREM AloneAppliedOnce == MCSpec => []AloneAppliedAtMostOnce
<1>1. AloneInv => AloneAppliedAtMostOnce
  <2> SUFFICES ASSUME AloneInv, scenario = "alone" PROVE AppliedAtMostOnce
    BY DEF AloneAppliedAtMostOnce
  <2>1. Alone!AppliedAtMostOnce
    BY AloneAssumed, Alone!StackOnce DEF AloneInv, Alone!RunnerAssumption
  <2> QED BY <2>1 DEF Alone!AppliedAtMostOnce, AppliedAtMostOnce,
          Statements, Alone!Statements, Versions, Alone!Versions
<1>2. AloneInv /\ [MCNext]_mcvars => AloneInv'
  BY AloneGoesOn
<1> QED BY <1>1, <1>2, AloneStarts, PTL DEF MCSpec

(* Nothing failing, a rollback that returns success has emptied the schema   *)
(* above its target.                                                         *)
THEOREM AloneRollbacksClear == MCSpec => AloneRollbackClears
<1> DEFINE Clears == scenario = "alone" => RollbackClears
<1>1. AloneInv /\ [MCNext]_mcvars => [Clears]_mcvars
  <2> SUFFICES ASSUME AloneInv, [MCNext]_mcvars, scenario = "alone"
               PROVE  RollbackClears
    OBVIOUS
  <2>1. [Alone!Next]_Alone!vars
    BY DEF MCNext, mcvars, vars, Alone!vars
  <2>2. Alone!RollbackClears
    BY <2>1, AloneAssumed, Alone!StackRollbackClears
       DEF AloneInv, Alone!RunnerAssumption
  <2> QED BY <2>2 DEF Alone!RollbackClears, RollbackClears,
          Statements, Alone!Statements, Versions, Alone!Versions
<1>2. AloneInv /\ [MCNext]_mcvars => AloneInv'
  BY AloneGoesOn
<1>3. AloneRollbackClears <=> [][Clears]_mcvars
  BY DEF AloneRollbackClears
<1> QED BY <1>1, <1>2, <1>3, AloneStarts, PTL DEF MCSpec

-----------------------------------------------------------------------------
(* The stack of MigrationLedger                                              *)

height == IF scenario = "alone" THEN LedgerVersion ELSE 0
shape  == IF scenario = "alone" THEN LedgerSchema ELSE [v \in Versions |-> "none"]

LEMMA SameLedger ==
    /\ Alone!LedgerVersion = LedgerVersion /\ Alone!LedgerSchema = LedgerSchema
    /\ Alone!LedgerVersion' = LedgerVersion' /\ Alone!LedgerSchema' = LedgerSchema'
<1>1. Alone!Versions = Versions
  BY DEF Alone!Versions, Versions
<1>2. Alone!Completed = Completed /\ Alone!Completed' = Completed'
  BY <1>1 DEF Alone!Completed, Completed
<1>3. \A v \in Versions : Alone!Extent(v) = Extent(v) /\ Alone!Extent(v)' = Extent(v)'
  BY DEF Alone!Extent, Extent
<1>4. Alone!LedgerVersion = LedgerVersion /\ Alone!LedgerVersion' = LedgerVersion'
  BY <1>2 DEF Alone!LedgerVersion, LedgerVersion,
         Alone!Cardinality, Cardinality
<1>5. Alone!LedgerSchema = LedgerSchema /\ Alone!LedgerSchema' = LedgerSchema'
  BY <1>1, <1>3 DEF Alone!LedgerSchema, LedgerSchema
<1> QED BY <1>4, <1>5

LEMMA AloneLedgerStarts == MCInit => Ledger!LedgerInit
<1> SUFFICES ASSUME MCInit PROVE Ledger!LedgerInit
  OBVIOUS
<1>1. CASE scenario = "alone"
  <2>1. Alone!Ledger!LedgerInit
    BY <1>1, AloneAssumed, Alone!InitLedger DEF MCInit, Alone!RunnerAssumption
  <2> QED BY <1>1, <2>1, SameLedger DEF Alone!Ledger!LedgerInit, Ledger!LedgerInit
<1>2. CASE scenario # "alone"
  BY <1>2 DEF Ledger!LedgerInit, Versions
<1> QED BY <1>1, <1>2

LEMMA AloneLedgerGoesOn ==
    ASSUME AloneInv, [MCNext]_mcvars
    PROVE  [Ledger!LedgerNext]_<<height, shape>>
<1>1. CASE scenario = "alone"
  <2>1. [Alone!Next]_Alone!vars
    BY <1>1 DEF MCNext, mcvars, vars, Alone!vars
  <2>2. [Alone!Ledger!LedgerNext]_<<Alone!LedgerVersion, Alone!LedgerSchema>>
    BY <1>1, <2>1, AloneAssumed, Alone!NextLedger DEF AloneInv, Alone!RunnerAssumption
  <2>3. scenario' = scenario
    BY DEF MCNext, mcvars
  <2> QED BY <1>1, <2>2, <2>3, SameLedger
          DEF height, shape, Ledger!LedgerNext, Alone!Ledger!LedgerNext,
              Ledger!Work, Alone!Ledger!Work, Ledger!Push, Alone!Ledger!Push,
              Ledger!Pop, Alone!Ledger!Pop
<1>2. CASE scenario # "alone"
  BY <1>2 DEF height, shape, MCNext, mcvars
<1> QED BY <1>1, <1>2

(* Nothing failing, runner.py is the stack that oxen/migrations promises: a  *)
(* run pushes the next version once it is in the schema in full, a rollback  *)
(* pops the last one with nothing of another above it.                       *)
THEOREM AloneIsLedger == MCSpec => AloneImplementsLedger
<1>1. AloneInv /\ [MCNext]_mcvars => AloneInv'
  BY AloneGoesOn
<1>2. AloneInv /\ [MCNext]_mcvars => [Ledger!LedgerNext]_<<height, shape>>
  BY AloneLedgerGoesOn
<1> QED BY <1>1, <1>2, AloneStarts, AloneLedgerStarts, PTL
        DEF MCSpec, AloneImplementsLedger, Ledger!LedgerSpec, height, shape
=============================================================================
