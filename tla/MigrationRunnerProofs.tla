------------------------ MODULE MigrationRunnerProofs ------------------------
(* Theorems about MigrationRunner, for every number of runners, versions and *)
(* statements.                                                               *)
EXTENDS MigrationRunner, FiniteSetTheorems, TLAPS

(* What the two writes to the tracking table can do to it.                   *)
LEMMA UpdateStatusRow ==
    ASSUME NEW v \in Versions, NEW status \in MigrationStatus,
           row \in [Versions -> MigrationStatus \cup {"absent"}],
           UpdateStatus(v, status)
    PROVE  /\ row' \in [Versions -> MigrationStatus \cup {"absent"}]
           /\ \A w \in Versions : w # v => row'[w] = row[w]
           /\ row'[v] \in {row[v], status}
           /\ row'[v] = "absent" <=> row[v] = "absent"
           /\ ~LedgerFaults /\ row[v] # "absent" => row'[v] = status
  BY DEF UpdateStatus, MigrationStatus

LEMMA InsertRowRow ==
    ASSUME NEW v \in Versions,
           row \in [Versions -> MigrationStatus \cup {"absent"}],
           InsertRow(v)
    PROVE  /\ row' \in [Versions -> MigrationStatus \cup {"absent"}]
           /\ \A w \in Versions : w # v => row'[w] = row[w]
           /\ row[v] # "absent" => row'[v] = row[v]
           /\ row'[v] \in {row[v], "pending"}
           /\ ~LedgerFaults => row'[v] # "absent"
  BY DEF InsertRow, MigrationStatus

-----------------------------------------------------------------------------
(* A count of effects stays one when a statement is applied or reverted.     *)
LEMMA EffectsType ==
    ASSUME NEW s \in Statements, effects \in [Statements -> Nat]
    PROVE  /\ [effects EXCEPT ![s] = @ + 1] \in [Statements -> Nat]
           /\ [effects EXCEPT ![s] = 0] \in [Statements -> Nat]
  OBVIOUS

(* The statement at hand is a statement.                                     *)
LEMMA StatementAtHand ==
    ASSUME NEW r \in Runners, TypeOK, stmt[r] <= NumStatements
    PROVE  /\ <<current[r], stmt[r]>> \in Statements
           /\ <<current[r], NumStatements + 1 - stmt[r]>> \in Statements
<1> USE RunnerAssumption
<1>1. current[r] \in Versions /\ stmt[r] \in 1 .. NumStatements
  BY DEF TypeOK
<1>2. NumStatements + 1 - stmt[r] \in 1 .. NumStatements
  BY <1>1
<1>3. QED
  BY <1>1, <1>2 DEF Statements

LEMMA InitTypes == Init => TypeOK
  BY RunnerAssumption
     DEF Init, TypeOK, Calls, NoCall, NoTarget, Versions, Statements

LEMMA NextTypes == TypeOK /\ [Next]_vars => TypeOK'
<1> USE RunnerAssumption DEF TypeOK, Calls, NoCall, NoTarget, Versions
<1> SUFFICES ASSUME TypeOK, [Next]_vars PROVE TypeOK'
  OBVIOUS
<1> USE DEF database, plan, bounds
<1>1. ASSUME NEW r \in Runners, NEW kind \in {"run", "rollback"},
             NEW target \in 0 .. NoTarget, Invoke(r, kind, target)
      PROVE  TypeOK'
  BY <1>1 DEF Invoke
<1>2. ASSUME NEW r \in Runners, ReadApplied(r) PROVE TypeOK'
  BY <1>2 DEF ReadApplied, AppliedMigrations, Completed
<1>3. ASSUME NEW r \in Runners, CreatePlan(r) PROVE TypeOK'
  BY <1>3 DEF CreatePlan, AppliedMigrations, Completed,
              MigrationsToRun, MigrationsToRollback
<1>4. ASSUME NEW r \in Runners, RejectPlan(r) PROVE TypeOK'
  BY <1>4 DEF RejectPlan, Leave
<1>5. ASSUME NEW r \in Runners, NextToRun(r) PROVE TypeOK'
  BY <1>5 DEF NextToRun
<1>6. ASSUME NEW r \in Runners, NextToRollback(r) PROVE TypeOK'
  BY <1>6 DEF NextToRollback
<1>7. ASSUME NEW r \in Runners, RecordMigration(r) PROVE TypeOK'
  BY <1>7, InsertRowRow DEF RecordMigration
<1>8. ASSUME NEW r \in Runners, MarkRunning(r) PROVE TypeOK'
  BY <1>8, UpdateStatusRow DEF MarkRunning, MigrationStatus
<1>9. ASSUME NEW r \in Runners, ApplyStatement(r) PROVE TypeOK'
  <2>1. effects' \in [Statements -> Nat]
    BY <1>9, StatementAtHand, EffectsType DEF ApplyStatement
  <2>2. stmt' \in [Runners -> 1 .. (NumStatements + 1)]
    BY <1>9 DEF ApplyStatement
  <2> QED
    BY <1>9, <2>1, <2>2 DEF ApplyStatement
<1>10. ASSUME NEW r \in Runners, RefuseStatement(r) PROVE TypeOK'
  BY <1>10 DEF RefuseStatement
<1>11. ASSUME NEW r \in Runners, RevertStatement(r) PROVE TypeOK'
  <2>1. effects' \in [Statements -> Nat]
    BY <1>11, StatementAtHand, EffectsType DEF RevertStatement
  <2>2. stmt' \in [Runners -> 1 .. (NumStatements + 1)]
    BY <1>11 DEF RevertStatement
  <2> QED
    BY <1>11, <2>1, <2>2 DEF RevertStatement
<1>12. ASSUME NEW r \in Runners, MarkDone(r) PROVE TypeOK'
  BY <1>12, UpdateStatusRow DEF MarkDone, AllExecuted, MigrationStatus
<1>13. ASSUME NEW r \in Runners, MarkFailed(r) PROVE TypeOK'
  BY <1>13, UpdateStatusRow DEF MarkFailed, MigrationStatus
<1>14. ASSUME NEW r \in Runners, Return(r) PROVE TypeOK'
  BY <1>14 DEF Return, Leave
<1>15. ASSUME NEW r \in Runners, Crash(r) PROVE TypeOK'
  BY <1>15 DEF Crash, Leave
<1>16. CASE UNCHANGED vars
  BY <1>16 DEF vars
<1> HIDE DEF TypeOK, Calls, NoTarget
<1>17. QED
  BY <1>1, <1>2, <1>3, <1>4, <1>5, <1>6, <1>7, <1>8, <1>9, <1>10, <1>11,
     <1>12, <1>13, <1>14, <1>15, <1>16 DEF Next, Act, Step

(* Every variable keeps its type.                                            *)
THEOREM TypeCorrect == Spec => []TypeOK
  BY InitTypes, NextTypes, PTL DEF Spec

-----------------------------------------------------------------------------
(* The schema never gets ahead of the tracking table.                        *)

Recorded == {v \in Versions : row[v] # "absent"}
Started  == {v \in Versions : row[v] \notin {"absent", "pending"}}

(* What a runner has read or written makes sure of the row it will update.   *)
RowAtHand(r) ==
    /\ pc[r] = "idle" => todo[r] = {}
    /\ applied[r] \subseteq Recorded
    /\ call[r].kind = "rollback" => todo[r] \subseteq Recorded
    /\ pc[r] = "markRunning" => current[r] \in Recorded
    /\ pc[r] \in {"execute", "fail"} => current[r] \in Started

(* A runner's step leaves the locals of the others alone.                    *)
LEMMA OthersKeepLocals ==
    ASSUME TypeOK, NEW p \in Runners, Act(p), NEW r \in Runners, r # p
    PROVE  /\ pc'[r] = pc[r] /\ call'[r] = call[r] /\ applied'[r] = applied[r]
           /\ todo'[r] = todo[r] /\ current'[r] = current[r]
           /\ stmt'[r] = stmt[r] /\ ok'[r] = ok[r]
<1> USE DEF TypeOK, plan
<1>1. CASE Step(p)
  <2> USE DEF Leave
  <2>1. CASE ReadApplied(p) \/ CreatePlan(p) \/ RejectPlan(p)
    BY <2>1 DEF ReadApplied, CreatePlan, RejectPlan
  <2>2. CASE NextToRun(p) \/ NextToRollback(p) \/ RecordMigration(p)
             \/ MarkRunning(p)
    BY <2>2 DEF NextToRun, NextToRollback, RecordMigration, MarkRunning
  <2>3. CASE ApplyStatement(p) \/ RefuseStatement(p) \/ RevertStatement(p)
    BY <2>3 DEF ApplyStatement, RefuseStatement, RevertStatement
  <2>4. CASE MarkDone(p) \/ MarkFailed(p) \/ Return(p)
    BY <2>4 DEF MarkDone, MarkFailed, Return
  <2>5. QED
    BY <1>1, <2>1, <2>2, <2>3, <2>4 DEF Step
<1>2. CASE Crash(p) \/ \E kind \in {"run", "rollback"}, target \in 0 .. NoTarget :
                         Invoke(p, kind, target)
  BY <1>2 DEF Crash, Leave, Invoke
<1>3. QED
  BY <1>1, <1>2 DEF Act

(* No step deletes a row or makes a version that was started pending again.  *)
LEMMA RowsStay ==
    ASSUME TypeOK, [Next]_vars
    PROVE  Recorded \subseteq Recorded' /\ Started \subseteq Started'
<1> USE DEF Recorded, Started
<1>1. row \in [Versions -> MigrationStatus \cup {"absent"}]
      /\ \A r \in Runners : current[r] \in Versions
  BY DEF TypeOK
<1>2. ASSUME row' = row
      PROVE  Recorded \subseteq Recorded' /\ Started \subseteq Started'
  BY <1>2
<1>3. ASSUME NEW r \in Runners, RecordMigration(r)
      PROVE  Recorded \subseteq Recorded' /\ Started \subseteq Started'
  BY <1>1, <1>3, InsertRowRow DEF RecordMigration
<1>4. ASSUME NEW v \in Versions, NEW status \in MigrationStatus \ {"pending"},
             UpdateStatus(v, status)
      PROVE  Recorded \subseteq Recorded' /\ Started \subseteq Started'
  BY <1>1, <1>4, UpdateStatusRow DEF MigrationStatus
<1>5. ASSUME NEW r \in Runners, MarkRunning(r) \/ MarkDone(r) \/ MarkFailed(r)
      PROVE  \E status \in MigrationStatus \ {"pending"} :
                UpdateStatus(current[r], status)
  BY <1>5 DEF MarkRunning, MarkDone, MarkFailed, MigrationStatus
<1>6. row' = row \/ \E r \in Runners : \/ RecordMigration(r)
                                      \/ MarkRunning(r) \/ MarkDone(r)
                                      \/ MarkFailed(r)
  BY DEF Next, Act, Step, vars, database, Invoke, ReadApplied, CreatePlan,
         RejectPlan, NextToRun, NextToRollback, ApplyStatement, RefuseStatement,
         RevertStatement, Return, Crash
<1>7. QED
  BY <1>1, <1>2, <1>3, <1>4, <1>5, <1>6

(* Whoever is about to execute a statement has started its version: with a   *)
(* table that takes every write, at any number of runners, with crashes,     *)
(* refused statements and failing reads.                                     *)
THEOREM EffectsRecorded ==
    ASSUME LedgerFaults = FALSE
    PROVE  Spec => []EffectsAreRecorded
<1> DEFINE Inv == EffectsAreRecorded /\ \A r \in Runners : RowAtHand(r)
<1>1. Init => Inv
  BY DEF Init, RowAtHand, EffectsAreRecorded, NoCall
<1>2. TypeOK /\ Inv /\ [Next]_vars => Inv'
  <2> SUFFICES ASSUME TypeOK, Inv, [Next]_vars PROVE Inv'
    OBVIOUS
  <2>1. Recorded \subseteq Recorded' /\ Started \subseteq Started'
    BY RowsStay
  <2>2. CASE UNCHANGED vars
    BY <2>2 DEF vars, RowAtHand, Recorded, Started, EffectsAreRecorded
  <2>3. ASSUME NEW p \in Runners, Act(p)
        PROVE  Inv'
    <3>1. ASSUME NEW r \in Runners, r # p
          PROVE  RowAtHand(r)'
      BY <2>1, <2>3, <3>1, OthersKeepLocals DEF RowAtHand
    <3>2. RowAtHand(p)'
      <4> USE <2>1 DEF TypeOK, RowAtHand, plan
      <4>1. CASE \E kind \in {"run", "rollback"}, target \in 0 .. NoTarget :
                    Invoke(p, kind, target)
        BY <4>1 DEF Invoke
      <4>11. CASE RefuseStatement(p) \/ ApplyStatement(p) \/ RevertStatement(p)
        BY <4>11 DEF RefuseStatement, ApplyStatement, RevertStatement
      <4>2. CASE RejectPlan(p) \/ Return(p) \/ Crash(p)
        BY <4>2 DEF RejectPlan, Return, Crash, Leave, NoCall
      <4>3. CASE ReadApplied(p)
        BY <4>3 DEF ReadApplied, AppliedMigrations, Completed, Recorded
      <4>4. CASE CreatePlan(p)
        BY <4>4 DEF CreatePlan, MigrationsToRollback
      <4>5. CASE NextToRun(p)
        BY <4>5 DEF NextToRun, AppliedMigrations, Completed, Recorded
      <4>6. CASE NextToRollback(p)
        BY <4>6 DEF NextToRollback
      <4>7. CASE RecordMigration(p)
        <5>1. current[p] \in Recorded'
          BY <4>7, InsertRowRow DEF RecordMigration, Recorded
        <5>2. QED
          BY <4>7, <5>1 DEF RecordMigration
      <4>8. CASE MarkRunning(p)
        <5>1. current[p] \in Started'
          BY <4>8, UpdateStatusRow DEF MarkRunning, MigrationStatus, Recorded,
                                       Started
        <5>2. QED
          BY <4>8, <5>1 DEF MarkRunning
      <4>9. CASE MarkDone(p) \/ MarkFailed(p)
        BY <4>9 DEF MarkDone, MarkFailed
      <4>10. QED
        BY <2>3, <4>1, <4>2, <4>3, <4>4, <4>5, <4>6, <4>7, <4>8, <4>9,
           <4>11 DEF Act, Step
    <3>3. EffectsAreRecorded'
      <4>1. ASSUME NEW s \in Statements, effects[s] > 0
            PROVE  s[1] \in Started'
        <5>1. s[1] \in Versions
          BY DEF Statements
        <5>2. QED
          BY <2>1, <4>1, <5>1 DEF EffectsAreRecorded, Started
      <4>2. ASSUME NEW s \in Statements, effects'[s] > 0, ~(effects[s] > 0)
            PROVE  s[1] \in Started'
        <5>1. ApplyStatement(p) /\ s = <<current[p], stmt[p]>>
          <6>1. CASE effects' = effects
            BY <4>2, <6>1
          <6>2. CASE RevertStatement(p)
            BY <4>2, <6>2 DEF RevertStatement, TypeOK
          <6>3. CASE ApplyStatement(p)
            BY <4>2, <6>3 DEF ApplyStatement, TypeOK
          <6>4. QED
            BY <2>3, <6>1, <6>2, <6>3
               DEF Act, Step, database, Invoke, ReadApplied, CreatePlan,
                   RejectPlan, NextToRun, NextToRollback, RecordMigration,
                   MarkRunning, RefuseStatement, MarkDone, MarkFailed, Return,
                   Crash
        <5>2. current[p] \in Started
          BY <5>1 DEF ApplyStatement, RowAtHand
        <5>3. QED
          BY <2>1, <5>1, <5>2
      <4>3. QED
        BY <4>1, <4>2 DEF EffectsAreRecorded, Started
    <3>4. QED
      BY <3>1, <3>2, <3>3
  <2>4. QED
    BY <2>2, <2>3 DEF Next
<1>3. QED
  BY <1>1, <1>2, TypeCorrect, PTL DEF Spec

-----------------------------------------------------------------------------
(* The table never claims a version that is not in the schema.               *)

(* How far a call in progress has come with the migration at hand.           *)
Progress(r) ==
    pc[r] = "execute" =>
        IF call[r].kind = "run"
          THEN \A i \in 1 .. (stmt[r] - 1) : effects[<<current[r], i>>] > 0
          ELSE row[current[r]] # "completed"

OneAtATime == \A p, r \in Runners : p = r

(* The steps that write neither the schema nor the table.                    *)
Quiet(p) ==
    \/ \E kind \in {"run", "rollback"}, target \in 0 .. NoTarget :
          Invoke(p, kind, target)
    \/ ReadApplied(p) \/ CreatePlan(p) \/ RejectPlan(p) \/ NextToRun(p)
    \/ NextToRollback(p) \/ RefuseStatement(p) \/ Return(p) \/ Crash(p)

LEMMA QuietStep ==
    ASSUME TypeOK, NEW p \in Runners, Quiet(p)
    PROVE  row' = row /\ effects' = effects /\ pc'[p] # "execute"
<1> USE DEF TypeOK, database
<1>1. CASE \E kind \in {"run", "rollback"}, target \in 0 .. NoTarget :
              Invoke(p, kind, target)
  BY <1>1 DEF Invoke
<1>2. CASE ReadApplied(p) \/ CreatePlan(p) \/ RejectPlan(p)
  BY <1>2 DEF ReadApplied, CreatePlan, RejectPlan, Leave
<1>3. CASE NextToRun(p) \/ NextToRollback(p)
  <2>1. PICK v \in todo[p], next \in {"markRunning", "record"} :
               pc' = [pc EXCEPT ![p] = next] /\ row' = row /\ effects' = effects
    BY <1>3 DEF NextToRun, NextToRollback
  <2>2. QED
    BY <2>1
<1>4. CASE RefuseStatement(p) \/ Return(p) \/ Crash(p)
  BY <1>4 DEF RefuseStatement, Return, Crash, Leave
<1>5. QED
  BY <1>1, <1>2, <1>3, <1>4 DEF Quiet

(* A call is a rollback only where callers roll back.                        *)
LEMMA KindOfCalls ==
    ASSUME Rollbacks = FALSE
    PROVE  Spec => [](\A r \in Runners : call[r].kind = "run")
<1> DEFINE AllRun == \A r \in Runners : call[r].kind = "run"
<1>1. Init => AllRun
  BY DEF Init, NoCall
<1>2. TypeOK /\ AllRun /\ [Next]_vars => AllRun'
  <2> SUFFICES ASSUME TypeOK, AllRun, [Next]_vars PROVE AllRun'
    OBVIOUS
  <2> USE DEF TypeOK
  <2>1. CASE call' = call
    BY <2>1
  <2>2. ASSUME NEW p \in Runners,
               RejectPlan(p) \/ Return(p) \/ Crash(p)
                 \/ \E kind \in {"run", "rollback"}, target \in 0 .. NoTarget :
                       Invoke(p, kind, target)
        PROVE  AllRun'
    <3>1. call'[p].kind = "run"
      BY <2>2 DEF RejectPlan, Return, Crash, Leave, NoCall, Invoke
    <3>2. QED
      BY <2>2, <3>1, OthersKeepLocals DEF Act, Step
  <2>3. QED
    BY <2>1, <2>2 DEF Next, Act, Step, vars, plan, ReadApplied, CreatePlan,
       NextToRun, NextToRollback, RecordMigration, MarkRunning, ApplyStatement,
       RefuseStatement, RevertStatement, MarkDone, MarkFailed
<1>3. QED
  BY <1>1, <1>2, TypeCorrect, PTL DEF Spec

(* For any number of callers that only upgrade, whatever fails; and for one  *)
(* caller that also rolls back, as long as the table takes every write.      *)
THEOREM CompletedApplied ==
    ASSUME Rollbacks = FALSE \/ (OneAtATime /\ LedgerFaults = FALSE)
    PROVE  Spec => []CompletedIsApplied
<1> DEFINE Kinds == Rollbacks = FALSE => \A r \in Runners : call[r].kind = "run"
           Inv == CompletedIsApplied /\ \A r \in Runners : Progress(r)
<1>1. Init => Inv
  BY DEF Init, CompletedIsApplied, Progress
<1>2. TypeOK /\ Kinds /\ Inv /\ [Next]_vars => Inv'
  <2> SUFFICES ASSUME TypeOK, Kinds, CompletedIsApplied,
                      \A r \in Runners : Progress(r), [Next]_vars
               PROVE  Inv'
    OBVIOUS
  <2> USE RunnerAssumption DEF TypeOK
  <2>1. CASE UNCHANGED vars
    BY <2>1 DEF vars, CompletedIsApplied, Progress
  <2>2. ASSUME NEW p \in Runners, Quiet(p) PROVE Inv'
    BY <2>2, QuietStep, OthersKeepLocals
       DEF Quiet, Act, Step, CompletedIsApplied, Progress
  <2>3. ASSUME NEW p \in Runners, Act(p), NEW r \in Runners, r # p,
               \A s \in Statements : effects[s] > 0 => effects'[s] > 0
        PROVE  Progress(r)'
    <3>1. call[r].kind = "run"
      BY <2>3 DEF OneAtATime
    <3>2. \A i \in 1 .. (stmt[r] - 1) : <<current[r], i>> \in Statements
      BY DEF Statements
    <3>3. QED
      BY <2>3, <3>1, <3>2, OthersKeepLocals DEF Progress
  <2>4. ASSUME NEW p \in Runners, RecordMigration(p) PROVE Inv'
    <3>1. effects' = effects /\ pc'[p] = "markRunning"
      BY <2>4 DEF RecordMigration
    <3>2. \A v \in Versions : row'[v] = "completed" => row[v] = "completed"
      BY <2>4, InsertRowRow DEF RecordMigration
    <3>3. QED
      BY <2>3, <2>4, <3>1, <3>2 DEF Act, Step, CompletedIsApplied, Progress
  <2>5. ASSUME NEW p \in Runners, MarkRunning(p) PROVE Inv'
    <3>1. effects' = effects /\ call' = call /\ current' = current /\ stmt'[p] = 1
      BY <2>5 DEF MarkRunning, plan
    <3>2. \A v \in Versions : row'[v] = "completed" => row[v] = "completed"
      BY <2>5, UpdateStatusRow DEF MarkRunning, MigrationStatus
    <3>3. CASE call[p].kind = "run"
      BY <2>3, <2>5, <3>1, <3>2, <3>3 DEF Act, Step, CompletedIsApplied, Progress
    <3>4. CASE call[p].kind # "run"
      <4>1. LedgerFaults = FALSE
        BY <3>4
      <4>2. row'[current[p]] # "completed"
        BY <2>5, <4>1, UpdateStatusRow DEF MarkRunning, MigrationStatus
      <4>3. QED
        BY <2>3, <2>5, <3>1, <3>2, <4>2 DEF Act, Step, CompletedIsApplied, Progress
    <3>5. QED
      BY <3>3, <3>4
  <2>6. ASSUME NEW p \in Runners, ApplyStatement(p) PROVE Inv'
    <3>1. /\ row' = row /\ pc' = pc /\ call' = call /\ current' = current
          /\ stmt'[p] = stmt[p] + 1 /\ call[p].kind = "run" /\ pc[p] = "execute"
          /\ <<current[p], stmt[p]>> \in Statements
          /\ effects' = [effects EXCEPT ![<<current[p], stmt[p]>>] = @ + 1]
      BY <2>6, StatementAtHand DEF ApplyStatement, plan
    <3>2. \A s \in Statements : effects[s] > 0 => effects'[s] > 0
      BY <3>1
    <3>3. Progress(p)'
      <4>1. \A i \in 1 .. (stmt[p] - 1) : /\ <<current[p], i>> \in Statements
                                          /\ effects[<<current[p], i>>] > 0
        BY <3>1 DEF Statements, Progress
      <4>2. effects'[<<current[p], stmt[p]>>] > 0
        BY <3>1
      <4>3. QED
        BY <3>1, <3>2, <4>1, <4>2 DEF Progress
    <3>4. \A v \in Versions, i \in 1 .. NumStatements : <<v, i>> \in Statements
      BY DEF Statements
    <3>5. QED
      BY <2>3, <2>6, <3>1, <3>2, <3>3, <3>4 DEF Act, Step, CompletedIsApplied
  <2>7. ASSUME NEW p \in Runners, RevertStatement(p) PROVE Inv'
    <3>1. OneAtATime
      BY <2>7 DEF RevertStatement
    <3>2. /\ row' = row /\ pc' = pc /\ call' = call /\ current' = current
          /\ call[p].kind = "rollback" /\ pc[p] = "execute"
          /\ row[current[p]] # "completed"
      BY <2>7 DEF RevertStatement, Progress, plan
    <3>3. \A v \in Versions \ {current[p]}, i \in 1 .. NumStatements :
             effects'[<<v, i>>] = effects[<<v, i>>]
      BY <2>7 DEF RevertStatement, Statements
    <3>4. CompletedIsApplied'
      BY <3>2, <3>3 DEF CompletedIsApplied
    <3>5. \A r \in Runners : Progress(r)'
      BY <3>1, <3>2 DEF OneAtATime, Progress
    <3>6. QED
      BY <3>4, <3>5
  <2>8. ASSUME NEW p \in Runners, MarkDone(p) \/ MarkFailed(p) PROVE Inv'
    <3>1. effects' = effects /\ pc'[p] = "next"
      BY <2>8 DEF MarkDone, MarkFailed
    <3>2. \A r \in Runners : Progress(r)'
      BY <2>3, <2>8, <3>1 DEF Act, Step, Progress
    <3>3. ASSUME NEW v \in Versions, row'[v] = "completed", row[v] # "completed",
                 NEW i \in 1 .. NumStatements
          PROVE  effects[<<v, i>>] > 0
      <4>1. /\ v = current[p] /\ call[p].kind = "run" /\ pc[p] = "execute"
            /\ stmt[p] = NumStatements + 1
        BY <2>8, <3>3, UpdateStatusRow DEF MarkDone, MarkFailed, AllExecuted,
                                     MigrationStatus
      <4>2. QED
        BY <4>1 DEF Progress
    <3>4. QED
      BY <3>1, <3>2, <3>3 DEF CompletedIsApplied
  <2>9. QED
    BY <2>1, <2>2, <2>4, <2>5, <2>6, <2>7, <2>8 DEF Next, Act, Step, Quiet
<1>3. Spec => []Kinds
  <2>1. CASE Rollbacks = FALSE
    <3>1. Spec => [](\A r \in Runners : call[r].kind = "run")
      BY <2>1, KindOfCalls
    <3>2. (\A r \in Runners : call[r].kind = "run") => Kinds
      OBVIOUS
    <3>3. QED
      BY <3>1, <3>2, PTL
  <2>2. CASE Rollbacks # FALSE
    <3>1. Kinds
      BY <2>2
    <3>2. QED
      BY <3>1, PTL
  <2>3. QED
    BY <2>1, <2>2
<1>4. QED
  BY <1>1, <1>2, <1>3, TypeCorrect, PTL DEF Spec

-----------------------------------------------------------------------------
(* One caller, and a table that answers and takes every write.               *)

(* What the caller has planned to run is not completed, and stays so until   *)
(* it is done: the table is only ever taken out of "completed" by the first  *)
(* write of a rollback.                                                      *)
PlannedIsNotCompleted(r) ==
    /\ pc[r] \in {"record", "markRunning"} => current[r] \in todo[r]
    /\ pc[r] = "record" => call[r].kind = "run"
    /\ pc[r] = "fail" => call[r].kind = "run"
    /\ pc[r] \in {"execute", "fail"} => row[current[r]] # "completed"
    /\ pc[r] \in {"next", "record", "markRunning"} /\ call[r].kind = "run"
          => todo[r] \cap Completed = {}
    /\ pc[r] \in {"execute", "fail"} /\ call[r].kind = "run"
          => (todo[r] \ {current[r]}) \cap Completed = {}

Working == {"next", "record", "markRunning", "execute"}

LEMMA PlannedStays ==
    ASSUME ~ReadFaults, ~LedgerFaults, TypeOK, NEW p \in Runners, Act(p),
           PlannedIsNotCompleted(p)
    PROVE  PlannedIsNotCompleted(p)'
<1> USE RunnerAssumption DEF TypeOK, PlannedIsNotCompleted, database, plan
<1>c. current[p] \in Versions /\ todo[p] \subseteq Versions
  OBVIOUS
<1>1. CASE \/ RejectPlan(p) \/ Return(p) \/ Crash(p)
           \/ \E kind \in {"run", "rollback"}, target \in 0 .. NoTarget :
                 Invoke(p, kind, target)
  <2>1. pc'[p] \in {"idle", "readApplied"}
    BY <1>1 DEF RejectPlan, Return, Crash, Leave, Invoke
  <2> QED BY <2>1
<1>2. CASE ReadApplied(p)
  <2>1. pc'[p] = "plan"
    BY <1>2 DEF ReadApplied
  <2> QED BY <2>1
<1>3. CASE CreatePlan(p)
  <2>1. pc'[p] = "next" /\ call' = call /\ row' = row
    BY <1>3 DEF CreatePlan
  <2>2. ASSUME call[p].kind = "run" PROVE todo'[p] \cap Completed = {}
    BY <1>3, <2>2 DEF CreatePlan, AppliedMigrations, MigrationsToRun
  <2> QED BY <2>1, <2>2 DEF Completed
<1>4. CASE NextToRun(p)
  BY <1>4 DEF NextToRun, Completed, Lowest
<1>5. CASE NextToRollback(p)
  BY <1>5 DEF NextToRollback, Completed, Highest
<1>6. CASE RecordMigration(p)
  <2>1. \A v \in Versions : row'[v] = "completed" => row[v] = "completed"
    BY <1>6, <1>c, InsertRowRow DEF RecordMigration
  <2>2. /\ pc'[p] = "markRunning" /\ pc[p] = "record"
        /\ UNCHANGED <<call, todo, current>>
    BY <1>6 DEF RecordMigration
  <2> QED BY <2>1, <2>2 DEF Completed
<1>7. CASE MarkRunning(p)
  <2>1. /\ \A v \in Versions : row'[v] = "completed" => row[v] = "completed"
        /\ row'[current[p]] # "completed"
    BY <1>7, <1>c, UpdateStatusRow DEF MarkRunning, MigrationStatus
  <2>2. /\ pc'[p] = "execute" /\ pc[p] = "markRunning"
        /\ UNCHANGED <<call, todo, current>>
    BY <1>7 DEF MarkRunning
  <2> QED BY <2>1, <2>2 DEF Completed
<1>8. CASE ApplyStatement(p) \/ RevertStatement(p) \/ RefuseStatement(p)
  <2>1. /\ pc[p] = "execute" /\ UNCHANGED <<row, call, todo, current>>
        /\ pc'[p] = "execute" \/ (pc'[p] = "fail" /\ call[p].kind = "run")
    BY <1>8 DEF ApplyStatement, RevertStatement, RefuseStatement
  <2> QED BY <2>1 DEF Completed
<1>9. CASE MarkDone(p) \/ MarkFailed(p)
  <2>1. \A v \in Versions \ {current[p]} : row'[v] = row[v]
    BY <1>9, <1>c, UpdateStatusRow DEF MarkDone, MarkFailed, MigrationStatus
  <2>2. /\ pc[p] \in {"execute", "fail"} /\ pc'[p] = "next" /\ call' = call
        /\ todo'[p] = todo[p] \ {current[p]}
    BY <1>9 DEF MarkDone, MarkFailed
  <2> QED BY <1>c, <2>1, <2>2 DEF Completed
<1> QED BY <1>1, <1>2, <1>3, <1>4, <1>5, <1>6, <1>7, <1>8, <1>9 DEF Act, Step

(* A completed version is put aside by the first write of its rollback, and  *)
(* by nothing else: for one caller, whatever statements fail and wherever    *)
(* the process dies, as long as the table answers.                           *)
THEOREM CompletedIsKept ==
    ASSUME OneAtATime, ~ReadFaults, ~LedgerFaults
    PROVE  Spec => CompletedLeftOnlyByRollback
<1> DEFINE Inv == \A r \in Runners : PlannedIsNotCompleted(r)
           OnlyByRollback ==
             \A v \in Versions : row[v] = "completed" /\ row'[v] # "completed" =>
                \E r \in Runners : /\ call[r].kind = "rollback"
                                  /\ current[r] = v
                                  /\ row'[v] = "running"
<1>1. Init => Inv
  BY DEF Init, PlannedIsNotCompleted
<1>2. TypeOK /\ Inv /\ [Next]_vars => Inv'
  <2> SUFFICES ASSUME TypeOK, Inv, [Next]_vars, NEW r \in Runners
               PROVE  PlannedIsNotCompleted(r)'
    OBVIOUS
  <2>1. CASE UNCHANGED vars
    BY <2>1 DEF vars, PlannedIsNotCompleted, Completed
  <2>2. CASE Next
    BY <2>2, PlannedStays DEF Next, OneAtATime
  <2> QED BY <2>1, <2>2
<1>3. TypeOK /\ Inv /\ [Next]_vars => [OnlyByRollback]_vars
  <2> SUFFICES ASSUME TypeOK, Inv, [Next]_vars, NEW v \in Versions,
                      row[v] = "completed", row'[v] # "completed"
               PROVE  \E r \in Runners : /\ call[r].kind = "rollback"
                                         /\ current[r] = v
                                         /\ row'[v] = "running"
    OBVIOUS
  <2>1. PICK p \in Runners : Act(p)
    BY DEF Next, vars
  <2>c. current[p] \in Versions /\ row \in [Versions -> MigrationStatus \cup {"absent"}]
        /\ call[p].kind \in {"run", "rollback"}
    BY DEF TypeOK, Calls
  <2>2. CASE row' = row
    BY <2>2
  <2>3. CASE RecordMigration(p)
    BY <2>3, <2>c, InsertRowRow DEF RecordMigration
  <2>4. CASE MarkRunning(p)
    <3>1. v = current[p] /\ row'[v] = "running"
      BY <2>4, <2>c, UpdateStatusRow DEF MarkRunning, MigrationStatus
    <3>2. call[p].kind # "run"
      BY <2>4, <3>1 DEF MarkRunning, PlannedIsNotCompleted, Completed
    <3> QED BY <2>c, <3>1, <3>2
  <2>5. CASE MarkDone(p) \/ MarkFailed(p)
    <3>1. v = current[p]
      BY <2>5, <2>c, UpdateStatusRow DEF MarkDone, MarkFailed, MigrationStatus
    <3> QED BY <2>5, <3>1 DEF MarkDone, MarkFailed, PlannedIsNotCompleted
  <2> QED
    BY <2>1, <2>2, <2>3, <2>4, <2>5
       DEF Act, Step, database, Invoke, ReadApplied, CreatePlan, RejectPlan,
           NextToRun, NextToRollback, ApplyStatement, RefuseStatement,
           RevertStatement, Return, Crash
<1>4. CompletedLeftOnlyByRollback <=> [][OnlyByRollback]_vars
  BY DEF CompletedLeftOnlyByRollback
<1> QED BY <1>1, <1>2, <1>3, <1>4, TypeCorrect, PTL DEF Spec

(* What is not completed is still to be run, as long as no migration failed. *)
TodoCoversTheRest(r) ==
    /\ pc[r] \in {"record", "markRunning", "execute"} => current[r] \in todo[r]
    /\ pc[r] \in {"markRunning", "execute"} /\ call[r].kind = "run"
          => row[current[r]] # "absent"
    /\ pc[r] \in Working /\ ok[r] /\ call[r] = [kind |-> "run", target |-> NoTarget]
          => Versions \ Completed \subseteq todo[r]

LEMMA TodoCovers ==
    ASSUME ~LedgerFaults, TypeOK, NEW p \in Runners, Act(p), TodoCoversTheRest(p)
    PROVE  TodoCoversTheRest(p)'
<1> USE RunnerAssumption DEF TypeOK, TodoCoversTheRest, database, plan
<1>c. /\ current[p] \in Versions /\ todo[p] \subseteq Versions
      /\ row \in [Versions -> MigrationStatus \cup {"absent"}]
  OBVIOUS
<1>1. CASE \/ RejectPlan(p) \/ Return(p) \/ Crash(p)
           \/ \E kind \in {"run", "rollback"}, target \in 0 .. NoTarget :
                 Invoke(p, kind, target)
  <2>1. pc'[p] \in {"idle", "readApplied"}
    BY <1>1 DEF RejectPlan, Return, Crash, Leave, Invoke
  <2> QED BY <2>1 DEF Working
<1>2. CASE ReadApplied(p)
  <2>1. pc'[p] = "plan"
    BY <1>2 DEF ReadApplied
  <2> QED BY <2>1 DEF Working
<1>3. CASE CreatePlan(p)
  <2>1. pc'[p] = "next" /\ call' = call /\ row' = row
    BY <1>3 DEF CreatePlan
  <2>2. ASSUME call[p] = [kind |-> "run", target |-> NoTarget]
        PROVE  Versions \ Completed \subseteq todo'[p]
    <3>1. PICK done \in AppliedMigrations :
             todo'[p] = MigrationsToRun(Versions \ done, NoTarget)
      <4>1. call[p].kind = "run" /\ call[p].target = NoTarget
        BY <2>2
      <4> HIDE DEF NoTarget
      <4> QED BY <1>3, <4>1 DEF CreatePlan
    <3> QED BY <3>1 DEF AppliedMigrations, MigrationsToRun
  <2> QED BY <2>1, <2>2 DEF Completed
<1>4. CASE NextToRun(p)
  <2>1. /\ pc[p] = "next" /\ UNCHANGED <<row, call, todo, ok>>
        /\ current'[p] \in todo[p] /\ pc'[p] \in {"record", "markRunning"}
        /\ pc'[p] = "markRunning" => row[current'[p]] = "completed"
    BY <1>4 DEF NextToRun, AppliedMigrations, Completed
  <2> QED BY <2>1 DEF Completed, Working
<1>5. CASE NextToRollback(p)
  BY <1>5 DEF NextToRollback, Completed
<1>6. CASE RecordMigration(p)
  <2>1. /\ \A v \in Versions : row[v] = "completed" => row'[v] = "completed"
        /\ row'[current[p]] # "absent"
    BY <1>6, <1>c, InsertRowRow DEF RecordMigration
  <2>2. /\ pc'[p] = "markRunning" /\ pc[p] = "record"
        /\ UNCHANGED <<call, todo, current, ok>>
    BY <1>6 DEF RecordMigration
  <2> QED BY <2>1, <2>2 DEF Completed, Working
<1>7. CASE MarkRunning(p)
  <2>1. /\ \A v \in Versions \ {current[p]} : row'[v] = row[v]
        /\ row'[current[p]] = "absent" <=> row[current[p]] = "absent"
    BY <1>7, <1>c, UpdateStatusRow DEF MarkRunning, MigrationStatus
  <2>2. /\ pc'[p] = "execute" /\ pc[p] = "markRunning"
        /\ UNCHANGED <<call, todo, current, ok>>
    BY <1>7 DEF MarkRunning
  <2> QED BY <2>1, <2>2 DEF Completed, Working
<1>8. CASE ApplyStatement(p) \/ RevertStatement(p) \/ RefuseStatement(p)
  <2>1. /\ pc[p] = "execute" /\ UNCHANGED <<row, call, todo, current, ok>>
        /\ pc'[p] \in {"execute", "fail"}
    BY <1>8 DEF ApplyStatement, RevertStatement, RefuseStatement
  <2> QED BY <2>1 DEF Completed, Working
<1>9. CASE MarkDone(p)
  <2>1. /\ \A v \in Versions \ {current[p]} : row'[v] = row[v]
        /\ call[p].kind = "run" /\ row[current[p]] # "absent"
              => row'[current[p]] = "completed"
    BY <1>9, <1>c, UpdateStatusRow DEF MarkDone, MigrationStatus
  <2>2. /\ pc[p] = "execute" /\ pc'[p] = "next" /\ call' = call /\ ok' = ok
        /\ todo'[p] = todo[p] \ {current[p]}
    BY <1>9 DEF MarkDone
  <2> QED BY <1>c, <2>1, <2>2 DEF Completed, Working
<1>10. CASE MarkFailed(p)
  <2>1. pc'[p] = "next" /\ ~ok'[p]
    BY <1>10 DEF MarkFailed
  <2> QED BY <2>1
<1> QED BY <1>1, <1>2, <1>3, <1>4, <1>5, <1>6, <1>7, <1>8, <1>9, <1>10 DEF Act, Step

(* The call that gives up its locals with a good result has come to the end  *)
(* of its plan.                                                              *)
LEMMA GoodEnd ==
    ASSUME TypeOK, NEW r \in Runners, Act(r),
           pc[r] # "idle", pc'[r] = "idle", ok'[r]
    PROVE  Return(r) /\ pc[r] = "next" /\ todo[r] = {} /\ ok[r]
<1> USE DEF TypeOK
<1>1. CASE Crash(r) \/ RejectPlan(r)
  BY <1>1 DEF Crash, RejectPlan, Leave
<1>2. CASE ReadApplied(r) \/ CreatePlan(r) \/ NextToRun(r) \/ NextToRollback(r)
  BY <1>2 DEF ReadApplied, CreatePlan, NextToRun, NextToRollback
<1>3. CASE \/ RecordMigration(r) \/ MarkRunning(r) \/ ApplyStatement(r)
           \/ RefuseStatement(r) \/ RevertStatement(r)
  BY <1>3 DEF RecordMigration, MarkRunning, ApplyStatement, RefuseStatement,
              RevertStatement
<1>4. CASE \/ MarkDone(r) \/ MarkFailed(r)
           \/ \E kind \in {"run", "rollback"}, target \in 0 .. NoTarget :
                 Invoke(r, kind, target)
  BY <1>4 DEF MarkDone, MarkFailed, Invoke
<1>5. CASE Return(r)
  BY <1>5 DEF Return, Leave
<1> QED BY <1>1, <1>2, <1>3, <1>4, <1>5 DEF Act, Step

(* Success of run_migrations() means that every version is completed: for    *)
(* one caller, whatever statements and reads failed before and wherever the  *)
(* process died.                                                             *)
THEOREM SuccessIsTrue ==
    ASSUME OneAtATime, ~LedgerFaults
    PROVE  Spec => SuccessMeansCompleted
<1> DEFINE Inv == \A r \in Runners : TodoCoversTheRest(r)
           AllCompleted ==
             \A r \in Runners :
                pc[r] # "idle" /\ pc'[r] = "idle" /\ ok'[r]
                   /\ call[r] = [kind |-> "run", target |-> NoTarget]
                => Completed = Versions
<1>1. Init => Inv
  BY DEF Init, TodoCoversTheRest, Working
<1>2. TypeOK /\ Inv /\ [Next]_vars => Inv'
  <2> SUFFICES ASSUME TypeOK, Inv, [Next]_vars, NEW r \in Runners
               PROVE  TodoCoversTheRest(r)'
    OBVIOUS
  <2>1. CASE UNCHANGED vars
    BY <2>1 DEF vars, TodoCoversTheRest, Completed
  <2>2. CASE Next
    BY <2>2, TodoCovers DEF Next, OneAtATime
  <2> QED BY <2>1, <2>2
<1>3. TypeOK /\ Inv /\ [Next]_vars => [AllCompleted]_vars
  <2> SUFFICES ASSUME TypeOK, Inv, [Next]_vars, NEW r \in Runners,
                      pc[r] # "idle", pc'[r] = "idle", ok'[r],
                      call[r] = [kind |-> "run", target |-> NoTarget]
               PROVE  Completed = Versions
    OBVIOUS
  <2>1. Act(r)
    BY DEF Next, vars, OneAtATime
  <2>2. pc[r] = "next" /\ todo[r] = {} /\ ok[r]
    BY <2>1, GoodEnd
  <2> QED BY <2>2 DEF TodoCoversTheRest, Working, Completed
<1>4. SuccessMeansCompleted <=> [][AllCompleted]_vars
  BY DEF SuccessMeansCompleted
<1> QED BY <1>1, <1>2, <1>3, <1>4, TypeCorrect, PTL DEF Spec

(* Nothing failing at all: no statement refused, no crash.                   *)
Clear(v) == \A i \in 1 .. NumStatements : effects[<<v, i>>] = 0
Full(v)  == \A i \in 1 .. NumStatements : effects[<<v, i>>] = 1

(* The plan is the next stretch of the versions, or the top of those that    *)
(* are completed ...                                                         *)
PlanFits(r) ==
    /\ pc[r] = "plan" => applied[r] = Completed
    /\ pc[r] \in Working /\ call[r].kind = "run" =>
          \E m \in 0 .. NoTarget : todo[r] = {v \in Versions \ Completed : v <= m}
    /\ pc[r] \in {"next", "markRunning"} /\ call[r].kind = "rollback" =>
          todo[r] = {v \in Completed : v > call[r].target}
    /\ pc[r] = "execute" /\ call[r].kind = "rollback" =>
          todo[r] = {v \in Completed \cup {current[r]} : v > call[r].target}

(* ... and the migration at hand is the one next to them.                    *)
AtHand(r) ==
    /\ pc[r] # "fail"
    /\ pc[r] = "record" => call[r].kind = "run"
    /\ pc[r] \in {"record", "markRunning", "execute"} => current[r] \in todo[r]
    /\ pc[r] \in {"markRunning", "execute"} => row[current[r]] # "absent"
    /\ pc[r] = "execute" => row[current[r]] # "completed"
    /\ pc[r] = "execute"
          => Completed = 1 .. (current[r] - 1)
    /\ pc[r] \in {"record", "markRunning"} /\ call[r].kind = "run"
          => Completed = 1 .. (current[r] - 1)
    /\ pc[r] = "markRunning" /\ call[r].kind = "rollback"
          => Completed = 1 .. current[r]

(* How far the migration at hand has come.                                   *)
HowFar(r) ==
    pc[r] = "execute" => \A i \in 1 .. NumStatements :
        effects[<<current[r], i>>] =
            IF call[r].kind = "run"
              THEN IF i < stmt[r] THEN 1 ELSE 0
              ELSE IF i > NumStatements + 1 - stmt[r] THEN 0 ELSE 1

StackInv ==
    /\ \E n \in 0 .. NumVersions : Completed = 1 .. n
    /\ \A v \in Completed : Full(v)
    /\ \A v \in Versions \ Completed :
          Clear(v) \/ \E r \in Runners : pc[r] = "execute" /\ current[r] = v
    /\ \A r \in Runners : PlanFits(r) /\ AtHand(r) /\ HowFar(r)

(* One caller, and nothing that goes wrong.                                  *)
NothingGoesWrong ==
    /\ OneAtATime
    /\ ~ReadFaults /\ ~LedgerFaults /\ ~StatementFaults
    /\ MaxCrashes = 0

LEMMA InitStack == Init => StackInv
<1> SUFFICES ASSUME Init PROVE StackInv
  OBVIOUS
<1> USE RunnerAssumption DEF Init
<1>1. Completed = 1 .. 0 /\ 0 \in 0 .. NumVersions
  BY DEF Completed
<1>2. \A v \in Versions : Clear(v)
  BY DEF Clear, Statements
<1>3. \A v \in Completed : Full(v)
  BY DEF Completed
<1>4. \A r \in Runners : PlanFits(r) /\ AtHand(r) /\ HowFar(r)
  BY DEF PlanFits, AtHand, HowFar, Working
<1> QED BY <1>1, <1>2, <1>3, <1>4 DEF StackInv

(* Steps outside the execution of a migration write at most a new row.       *)
LEMMA QuietStackStep ==
    ASSUME OneAtATime, StackInv, NEW p \in Runners,
           Completed' = Completed, effects' = effects,
           pc[p] # "execute", pc'[p] # "execute", PlanFits(p)', AtHand(p)'
    PROVE  StackInv'
<1>1. \A r \in Runners : r = p
  BY DEF OneAtATime
<1>2. /\ \E n \in 0 .. NumVersions : Completed' = 1 .. n
      /\ \A v \in Completed' : Full(v)'
      /\ \A v \in Versions \ Completed' : Clear(v)'
  BY <1>1 DEF StackInv, Full, Clear
<1> QED BY <1>1, <1>2 DEF StackInv, HowFar

LEMMA PlanningKeepsStack ==
    ASSUME NothingGoesWrong, TypeOK, StackInv, NEW p \in Runners,
           Quiet(p) \/ RecordMigration(p) \/ MarkFailed(p)
    PROVE  StackInv'
<1> USE RunnerAssumption
        DEF TypeOK, NothingGoesWrong, database, plan
<1>n. PICK n \in 0 .. NumVersions : Completed = 1 .. n
  BY DEF StackInv
<1>c. /\ current[p] \in Versions /\ todo[p] \subseteq Versions
      /\ row \in [Versions -> MigrationStatus \cup {"absent"}]
      /\ AppliedMigrations = {Completed} /\ Completed \subseteq Versions
  BY DEF AppliedMigrations, Completed
<1>s. PlanFits(p) /\ AtHand(p) /\ HowFar(p)
  BY DEF StackInv
<1>q. ASSUME UNCHANGED <<row, effects>>, pc[p] # "execute", pc'[p] # "execute",
             PlanFits(p)', AtHand(p)'
      PROVE  StackInv'
  BY <1>q, QuietStackStep DEF Completed
<1>1. CASE \/ RejectPlan(p) \/ Return(p)
           \/ \E kind \in {"run", "rollback"}, target \in 0 .. NoTarget :
                 Invoke(p, kind, target)
  <2>1. /\ UNCHANGED <<row, effects>> /\ pc[p] # "execute"
        /\ pc'[p] \in {"idle", "readApplied"}
    BY <1>1 DEF RejectPlan, Return, Leave, Invoke
  <2> QED BY <2>1, <1>q DEF PlanFits, AtHand, Working
<1>2. CASE ReadApplied(p)
  <2>1. /\ UNCHANGED <<row, effects>> /\ pc[p] # "execute" /\ pc'[p] = "plan"
        /\ applied'[p] = Completed
    BY <1>2, <1>c DEF ReadApplied
  <2> QED BY <2>1, <1>q DEF PlanFits, AtHand, Working, Completed
<1>3. CASE CreatePlan(p)
  <2> DEFINE pending == Versions \ Completed
  <2>1. /\ UNCHANGED <<row, effects, call>> /\ pc[p] = "plan" /\ pc'[p] = "next"
        /\ applied[p] = Completed
    BY <1>3, <1>s DEF CreatePlan, PlanFits
  <2>2. ASSUME call[p].kind = "run"
        PROVE  \E m \in 0 .. NoTarget : todo'[p] = {v \in pending : v <= m}
    <3>1. todo'[p] = MigrationsToRun(pending, call[p].target)
      BY <1>3, <1>c, <2>2 DEF CreatePlan
    <3>2. CASE call[p].target = NoTarget
      <4>1. todo'[p] = {v \in pending : v <= NoTarget}
        BY <3>1, <3>2 DEF MigrationsToRun, NoTarget, Versions
      <4> QED BY <4>1 DEF NoTarget
    <3>3. CASE call[p].target # NoTarget /\ call[p].target \in pending
      <4>1. todo'[p] = {v \in pending : v <= call[p].target}
        BY <3>1, <3>3 DEF MigrationsToRun
      <4>2. call[p].target \in 0 .. NoTarget
        BY DEF Calls
      <4> QED BY <4>1, <4>2
    <3>4. CASE call[p].target # NoTarget /\ call[p].target \notin pending
      <4>1. todo'[p] = {v \in pending : v <= 0}
        BY <3>1, <3>4 DEF MigrationsToRun, Versions
      <4> QED BY <4>1 DEF NoTarget
    <3> QED BY <3>2, <3>3, <3>4
  <2>3. ASSUME call[p].kind = "rollback"
        PROVE  todo'[p] = {v \in Completed : v > call[p].target}
    <3>1. todo'[p] = MigrationsToRollback(Completed, pending, call[p].target)
      BY <1>3, <1>c, <2>1, <2>3 DEF CreatePlan
    <3>2. call[p].target \in 0 .. NoTarget
      BY DEF Calls
    <3> QED BY <1>n, <3>1, <3>2 DEF MigrationsToRollback, NoTarget, Versions
  <2>4. PlanFits(p)' /\ AtHand(p)'
    BY <2>1, <2>2, <2>3 DEF PlanFits, AtHand, Completed
  <2> QED BY <2>1, <2>4, <1>q
<1>4. CASE NextToRun(p)
  <2>1. /\ UNCHANGED <<row, effects, call, todo>> /\ pc[p] = "next"
        /\ call[p].kind = "run"
        /\ Lowest(todo[p], current'[p])
        /\ pc'[p] = IF current'[p] \in Completed THEN "markRunning" ELSE "record"
    BY <1>4, <1>c DEF NextToRun
  <2>2. PICK m \in 0 .. NoTarget : todo[p] = {v \in Versions \ Completed : v <= m}
    BY <2>1, <1>s DEF PlanFits, Working
  <2>3. current'[p] = n + 1
    BY <1>n, <2>1, <2>2 DEF Lowest, Versions, NoTarget
  <2>4. pc'[p] = "record" /\ Completed = 1 .. (current'[p] - 1)
    BY <1>n, <2>1, <2>3
  <2>5. PlanFits(p)' /\ AtHand(p)'
    BY <1>s, <2>1, <2>2, <2>4 DEF PlanFits, AtHand, Completed, Working, Lowest
  <2> QED BY <2>1, <2>4, <2>5, <1>q
<1>5. CASE NextToRollback(p)
  <2>1. /\ UNCHANGED <<row, effects, call, todo>> /\ pc[p] = "next"
        /\ call[p].kind = "rollback" /\ pc'[p] = "markRunning"
        /\ Highest(todo[p], current'[p])
    BY <1>5 DEF NextToRollback
  <2>2. todo[p] = {v \in Completed : v > call[p].target}
    BY <2>1, <1>s DEF PlanFits
  <2>3. call[p].target \in 0 .. NoTarget
    BY DEF Calls
  <2>4. current'[p] = n
    <3>1. current'[p] \in 1 .. n /\ current'[p] > call[p].target
      BY <1>n, <2>1, <2>2 DEF Highest
    <3>2. n \in todo[p]
      BY <1>n, <2>2, <2>3, <3>1
    <3> QED BY <2>1, <3>1, <3>2 DEF Highest
  <2>5. Completed = 1 .. current'[p] /\ row[current'[p]] = "completed"
    BY <1>n, <2>1, <2>2, <2>4 DEF Completed, Highest
  <2>6. PlanFits(p)' /\ AtHand(p)'
    BY <2>1, <2>2, <2>5 DEF PlanFits, AtHand, Completed, Working, Highest
  <2> QED BY <2>1, <2>6, <1>q
<1>6. CASE RecordMigration(p)
  <2>1. /\ UNCHANGED <<effects, call, todo, current>> /\ pc[p] = "record"
        /\ pc'[p] = "markRunning"
    BY <1>6 DEF RecordMigration
  <2>2. Completed' = Completed /\ row'[current[p]] # "absent"
    BY <1>6, <1>c, InsertRowRow DEF RecordMigration, Completed
  <2>3. PlanFits(p)' /\ AtHand(p)'
    BY <1>s, <2>1, <2>2 DEF PlanFits, AtHand, Working
  <2> QED BY <2>1, <2>2, <2>3, QuietStackStep
<1>7. CASE RefuseStatement(p)
  <2>1. /\ pc[p] = "execute" /\ call[p].kind = "run" /\ stmt[p] \in 1 .. NumStatements
        /\ effects[<<current[p], stmt[p]>>] > 0
    BY <1>7 DEF RefuseStatement
  <2>2. effects[<<current[p], stmt[p]>>] = 0
    BY <1>s, <2>1 DEF HowFar
  <2> QED BY <2>1, <2>2
<1>8. CASE MarkFailed(p)
  BY <1>8, <1>s DEF MarkFailed, AtHand
<1>9. CASE Crash(p)
  BY <1>9 DEF Crash
<1> QED BY <1>1, <1>2, <1>3, <1>4, <1>5, <1>6, <1>7, <1>8, <1>9 DEF Quiet

LEMMA MarkRunningKeepsStack ==
    ASSUME NothingGoesWrong, TypeOK, StackInv, NEW p \in Runners, MarkRunning(p)
    PROVE  StackInv'
<1> USE RunnerAssumption DEF TypeOK, NothingGoesWrong, plan
<1>o. \A r \in Runners : r = p
  BY DEF OneAtATime
<1>n. PICK n \in 0 .. NumVersions : Completed = 1 .. n
  BY DEF StackInv
<1>s. PlanFits(p) /\ AtHand(p) /\ HowFar(p)
  BY DEF StackInv
<1>c. current[p] \in Versions /\ current[p] \in todo[p] /\ row[current[p]] # "absent"
  BY <1>s DEF AtHand, MarkRunning
<1>1. /\ pc[p] = "markRunning" /\ pc'[p] = "execute" /\ stmt'[p] = 1
      /\ UNCHANGED <<effects, call, todo, current>>
  BY DEF MarkRunning
<1>2. /\ row'[current[p]] = "running"
      /\ \A v \in Versions \ {current[p]} : row'[v] = row[v]
  BY <1>c, UpdateStatusRow DEF MarkRunning, MigrationStatus
<1>3. Completed' = Completed \ {current[p]}
  BY <1>c, <1>2 DEF Completed
<1>4. Completed' = 1 .. (current[p] - 1) /\ current[p] - 1 \in 0 .. NumVersions
  <2>1. CASE call[p].kind = "run"
    BY <1>s, <1>1, <1>3, <1>c, <2>1 DEF AtHand, Versions
  <2>2. CASE call[p].kind = "rollback"
    BY <1>s, <1>1, <1>3, <1>c, <2>2 DEF AtHand, Versions
  <2> QED BY <2>1, <2>2 DEF Calls
<1>5. \A v \in Completed' : Full(v)'
  <2>1. \A v \in Completed : Full(v)
    BY DEF StackInv
  <2> QED BY <1>1, <1>3, <2>1 DEF Full
<1>6. ASSUME NEW v \in Versions \ Completed'
      PROVE  Clear(v)' \/ \E r \in Runners : pc'[r] = "execute" /\ current'[r] = v
  <2>1. CASE v = current[p]
    BY <1>1, <2>1
  <2>2. CASE v # current[p]
    BY <1>o, <1>1, <1>3, <2>2 DEF StackInv, Clear
  <2> QED BY <2>1, <2>2
<1>7. PlanFits(p)'
  <2>1. CASE call[p].kind = "run"
    <3>1. Completed' = Completed
      BY <1>1, <1>3, <1>s, <2>1 DEF AtHand
    <3> QED BY <1>1, <1>s, <2>1, <3>1 DEF PlanFits, Working
  <2>2. CASE call[p].kind = "rollback"
    <3>1. current[p] \in Completed
      BY <1>1, <1>s, <1>c, <2>2 DEF AtHand, Versions
    <3>2. Completed = Completed' \cup {current[p]}
      BY <1>3, <3>1
    <3> QED BY <1>1, <1>s, <2>2, <3>2 DEF PlanFits, Working
  <2> QED BY <2>1, <2>2 DEF Calls
<1>8. AtHand(p)'
  BY <1>1, <1>2, <1>4, <1>c DEF AtHand
<1>9. HowFar(p)'
  <2>1. CASE call[p].kind = "run"
    <3>1. current[p] \notin Completed
      BY <1>1, <1>s, <1>c, <2>1 DEF AtHand, Versions
    <3>2. Clear(current[p])
      BY <1>o, <1>1, <1>c, <3>1 DEF StackInv
    <3> QED BY <1>1, <2>1, <3>2 DEF HowFar, Clear
  <2>2. CASE call[p].kind = "rollback"
    <3>1. current[p] \in Completed
      BY <1>1, <1>s, <1>c, <2>2 DEF AtHand, Versions
    <3>2. Full(current[p])
      BY <3>1 DEF StackInv
    <3> QED BY <1>1, <2>2, <3>2 DEF HowFar, Full
  <2> QED BY <2>1, <2>2 DEF Calls
<1> QED BY <1>o, <1>4, <1>5, <1>6, <1>7, <1>8, <1>9 DEF StackInv

LEMMA ExecutingKeepsStack ==
    ASSUME NothingGoesWrong, TypeOK, StackInv, NEW p \in Runners,
           ApplyStatement(p) \/ RevertStatement(p)
    PROVE  StackInv'
<1> USE RunnerAssumption DEF TypeOK, NothingGoesWrong, plan
<1>o. \A r \in Runners : r = p
  BY DEF OneAtATime
<1>s. PlanFits(p) /\ AtHand(p) /\ HowFar(p)
  BY DEF StackInv
<1>c. current[p] \in Versions /\ stmt[p] \in 1 .. NumStatements
  BY DEF ApplyStatement, RevertStatement
<1>1. /\ pc[p] = "execute" /\ UNCHANGED <<row, pc, call, todo, current>>
      /\ stmt'[p] = stmt[p] + 1 /\ Completed' = Completed
  BY DEF ApplyStatement, RevertStatement, Completed
<1>2. \A s \in Statements : s[1] # current[p] => effects'[s] = effects[s]
  BY DEF ApplyStatement, RevertStatement
<1>3. \A v \in Versions, i \in 1 .. NumStatements : <<v, i>> \in Statements
  BY DEF Statements
<1>4. current[p] \notin Completed
  BY <1>1, <1>s DEF AtHand, Completed
<1>5. \A v \in Completed' : Full(v)'
  <2> SUFFICES ASSUME NEW v \in Completed, NEW i \in 1 .. NumStatements
               PROVE  effects'[<<v, i>>] = 1
    BY <1>1 DEF Full
  <2>1. v \in Versions /\ v # current[p] /\ Full(v)
    BY <1>4 DEF StackInv, Completed
  <2> QED BY <1>2, <1>3, <2>1 DEF Full
<1>6. \A v \in Versions \ Completed' :
         Clear(v)' \/ \E r \in Runners : pc'[r] = "execute" /\ current'[r] = v
  BY <1>o, <1>1, <1>2, <1>3 DEF StackInv, Clear
<1>7. PlanFits(p)' /\ AtHand(p)'
  BY <1>1, <1>s DEF PlanFits, AtHand, Working
<1>8. HowFar(p)'
  <2>1. CASE ApplyStatement(p)
    <3>1. /\ call[p].kind = "run"
          /\ effects' = [effects EXCEPT ![<<current[p], stmt[p]>>] = @ + 1]
      BY <2>1 DEF ApplyStatement
    <3>2. effects[<<current[p], stmt[p]>>] = 0
      BY <1>1, <1>c, <1>s, <3>1 DEF HowFar
    <3> SUFFICES ASSUME NEW i \in 1 .. NumStatements
                 PROVE  effects'[<<current[p], i>>] = IF i < stmt[p] + 1 THEN 1 ELSE 0
      BY <1>1, <3>1 DEF HowFar
    <3>3. CASE i = stmt[p]
      BY <1>c, <1>3, <3>1, <3>2, <3>3
    <3>4. CASE i # stmt[p]
      <4>1. effects'[<<current[p], i>>] = effects[<<current[p], i>>]
        BY <1>c, <1>3, <3>1, <3>4
      <4>2. effects[<<current[p], i>>] = IF i < stmt[p] THEN 1 ELSE 0
        BY <1>1, <1>s, <3>1 DEF HowFar
      <4> QED BY <1>c, <3>4, <4>1, <4>2
    <3> QED BY <3>3, <3>4
  <2>2. CASE RevertStatement(p)
    <3> DEFINE j == NumStatements + 1 - stmt[p]
    <3>1. /\ call[p].kind = "rollback" /\ j \in 1 .. NumStatements
          /\ effects' = [effects EXCEPT ![<<current[p], j>>] = 0]
      BY <2>2, <1>c DEF RevertStatement
    <3> SUFFICES ASSUME NEW i \in 1 .. NumStatements
                 PROVE  effects'[<<current[p], i>>] = IF i > j - 1 THEN 0 ELSE 1
      BY <1>1, <3>1 DEF HowFar
    <3> HIDE DEF j
    <3>3. CASE i = j
      BY <1>c, <1>3, <3>1, <3>3
    <3>4. CASE i # j
      <4>1. effects'[<<current[p], i>>] = effects[<<current[p], i>>]
        BY <1>c, <1>3, <3>1, <3>4
      <4>2. effects[<<current[p], i>>] = IF i > j THEN 0 ELSE 1
        BY <1>1, <1>s, <3>1 DEF HowFar, j
      <4> QED BY <3>1, <3>4, <4>1, <4>2
    <3> QED BY <3>3, <3>4
  <2> QED BY <2>1, <2>2
<1>9. \E n \in 0 .. NumVersions : Completed' = 1 .. n
  BY <1>1 DEF StackInv
<1> QED BY <1>o, <1>5, <1>6, <1>7, <1>8, <1>9 DEF StackInv

LEMMA MarkDoneKeepsStack ==
    ASSUME NothingGoesWrong, TypeOK, StackInv, NEW p \in Runners, MarkDone(p)
    PROVE  StackInv'
<1> USE RunnerAssumption DEF TypeOK, NothingGoesWrong, plan
<1>o. \A r \in Runners : r = p
  BY DEF OneAtATime
<1>s. PlanFits(p) /\ AtHand(p) /\ HowFar(p)
  BY DEF StackInv
<1>1. /\ pc[p] = "execute" /\ pc'[p] = "next" /\ UNCHANGED <<effects, call, current>>
      /\ todo'[p] = todo[p] \ {current[p]} /\ stmt[p] = NumStatements + 1
  BY DEF MarkDone, AllExecuted
<1>c. /\ current[p] \in Versions /\ row[current[p]] # "absent"
      /\ Completed = 1 .. (current[p] - 1) /\ current[p] \notin Completed
  BY <1>s, <1>1 DEF AtHand, Completed
<1>2. /\ row'[current[p]] = IF call[p].kind = "run" THEN "completed" ELSE "rolled_back"
      /\ \A v \in Versions \ {current[p]} : row'[v] = row[v]
  BY <1>c, UpdateStatusRow DEF MarkDone, MigrationStatus
<1>3. /\ \A v \in Completed : Full(v)'
      /\ \A v \in Versions \ Completed : v # current[p] => Clear(v)'
  BY <1>o, <1>1 DEF StackInv, Full, Clear
<1>4. AtHand(p)' /\ HowFar(p)'
  BY <1>1 DEF AtHand, HowFar
<1>5. CASE call[p].kind = "run"
  <2>1. Completed' = Completed \cup {current[p]}
    BY <1>2, <1>c, <1>5 DEF Completed
  <2>2. Completed' = 1 .. current[p] /\ current[p] \in 0 .. NumVersions
    BY <2>1, <1>c DEF Versions
  <2>3. Full(current[p])'
    BY <1>1, <1>s, <1>5 DEF HowFar, Full
  <2>4. PlanFits(p)'
    <3>1. PICK m \in 0 .. NoTarget : todo[p] = {v \in Versions \ Completed : v <= m}
      BY <1>1, <1>s, <1>5 DEF PlanFits, Working
    <3>2. todo'[p] = {v \in Versions \ Completed' : v <= m}
      BY <1>1, <2>1, <3>1
    <3> QED BY <1>1, <1>5, <3>2 DEF PlanFits, Working
  <2>5. \A v \in Completed' : Full(v)'
    BY <1>1, <1>3, <2>1, <2>3
  <2>6. \A v \in Versions \ Completed' : Clear(v)'
    BY <1>3, <2>1
  <2> QED BY <1>o, <1>4, <2>2, <2>4, <2>5, <2>6 DEF StackInv
<1>6. CASE call[p].kind = "rollback"
  <2>1. Completed' = Completed
    BY <1>2, <1>c, <1>6 DEF Completed
  <2>2. Clear(current[p])'
    BY <1>1, <1>s, <1>6 DEF HowFar, Clear
  <2>3. PlanFits(p)'
    BY <1>1, <1>s, <1>c, <1>6, <2>1 DEF PlanFits
  <2>4. \E n \in 0 .. NumVersions : Completed' = 1 .. n
    BY <2>1 DEF StackInv
  <2>5. \A v \in Completed' : Full(v)'
    BY <1>3, <2>1
  <2>6. \A v \in Versions \ Completed' : Clear(v)'
    BY <1>1, <1>3, <2>1, <2>2
  <2> QED BY <1>o, <1>4, <2>3, <2>4, <2>5, <2>6 DEF StackInv
<1> QED BY <1>5, <1>6 DEF Calls

LEMMA NextStack ==
    ASSUME NothingGoesWrong, TypeOK, StackInv, [Next]_vars PROVE StackInv'
<1>1. CASE UNCHANGED vars
  BY <1>1 DEF vars, StackInv, Full, Clear, PlanFits, AtHand, HowFar, Completed
<1>2. CASE Next
  BY <1>2, PlanningKeepsStack, MarkRunningKeepsStack, ExecutingKeepsStack,
     MarkDoneKeepsStack DEF Next, Act, Step, Quiet
<1> QED BY <1>1, <1>2

(* Nothing going wrong, no up statement is in effect twice, even one the     *)
(* database would repeat, through any number of runs and rollbacks.          *)
LEMMA StackOnce == StackInv => AppliedAtMostOnce
<1> SUFFICES ASSUME StackInv, NEW v \in Versions, NEW i \in 1 .. NumStatements
             PROVE  effects[<<v, i>>] <= 1
  BY DEF AppliedAtMostOnce, Statements
<1>1. CASE v \in Completed
  BY <1>1 DEF StackInv, Full
<1>2. CASE v \notin Completed /\ Clear(v)
  BY <1>2 DEF Clear
<1>3. CASE \E r \in Runners : pc[r] = "execute" /\ current[r] = v
  BY <1>3 DEF StackInv, HowFar
<1> QED BY <1>1, <1>2, <1>3 DEF StackInv

THEOREM AppliedOnce ==
    ASSUME NothingGoesWrong PROVE Spec => []AppliedAtMostOnce
<1>1. TypeOK /\ StackInv /\ [Next]_vars => StackInv'
  BY NextStack
<1> QED BY <1>1, InitStack, StackOnce, TypeCorrect, PTL DEF Spec

(* A rollback that has come to the end of its plan leaves nothing above its  *)
(* target, which may be a version that was never completed.                  *)
LEMMA StackRollbackClears ==
    ASSUME NothingGoesWrong, TypeOK, StackInv, [Next]_vars PROVE RollbackClears
<1> SUFFICES ASSUME NEW r \in Runners, pc[r] # "idle", pc'[r] = "idle", ok'[r],
                    call[r].kind = "rollback",
                    NEW v \in Versions, NEW i \in 1 .. NumStatements,
                    v > call[r].target
             PROVE  effects[<<v, i>>] = 0
  BY DEF RollbackClears, Statements
<1>1. \A p \in Runners : p = r
  BY DEF NothingGoesWrong, OneAtATime
<1>2. Act(r)
  BY <1>1 DEF Next, vars
<1>3. pc[r] = "next" /\ todo[r] = {}
  BY <1>2, GoodEnd
<1>4. v \notin Completed
  BY <1>3 DEF StackInv, PlanFits
<1> QED BY <1>1, <1>3, <1>4 DEF StackInv, Clear

THEOREM RollbacksClear ==
    ASSUME NothingGoesWrong PROVE Spec => [][RollbackClears]_vars
<1>1. TypeOK /\ StackInv /\ [Next]_vars => StackInv'
  BY NextStack
<1>2. TypeOK /\ StackInv /\ [Next]_vars => [RollbackClears]_vars
  BY StackRollbackClears
<1> QED BY <1>1, <1>2, InitStack, TypeCorrect, PTL DEF Spec

-----------------------------------------------------------------------------
(* The table and the schema move as the stack of MigrationLedger.            *)

Ledger == INSTANCE MigrationLedger WITH
    version <- LedgerVersion, schema <- LedgerSchema

(* The height of the stack.                                                  *)
LEMMA Height ==
    ASSUME NEW n \in 0 .. NumVersions, Completed = 1 .. n
    PROVE  LedgerVersion = n
<1>1. Cardinality(1 .. n) = n
  BY FS_Interval
<1> QED BY <1>1 DEF LedgerVersion

LEMMA Extents ==
    ASSUME NEW v \in Versions
    PROVE  /\ Extent(v) \in {"none", "some", "all"}
           /\ Clear(v) => Extent(v) = "none"
           /\ Full(v) => Extent(v) = "all"
<1> DEFINE there == {i \in 1 .. NumStatements : effects[<<v, i>>] > 0}
<1>1. Clear(v) => there = {}
  BY DEF Clear
<1>2. Full(v) => there = 1 .. NumStatements
  BY DEF Full
<1>3. 1 .. NumStatements # {}
  BY RunnerAssumption
<1> QED BY <1>1, <1>2, <1>3 DEF Extent

LEMMA InitLedger == Init => Ledger!LedgerInit
<1> SUFFICES ASSUME Init PROVE Ledger!LedgerInit
  OBVIOUS
<1>1. Completed = 1 .. 0 /\ 0 \in 0 .. NumVersions
  BY RunnerAssumption DEF Init, Completed
<1>2. \A v \in Versions : Clear(v)
  BY DEF Init, Clear, Statements
<1> QED BY <1>1, <1>2, Height, Extents DEF Ledger!LedgerInit, LedgerSchema, Versions

LEMMA NextLedger ==
    ASSUME NothingGoesWrong, TypeOK, StackInv, [Next]_vars
    PROVE  [Ledger!LedgerNext]_<<LedgerVersion, LedgerSchema>>
<1> USE RunnerAssumption
<1>i. StackInv'
  BY NextStack
<1>n. PICK n \in 0 .. NumVersions : Completed = 1 .. n
  BY DEF StackInv
<1>h. LedgerVersion = n
  BY <1>n, Height
<1>m. PICK m \in 0 .. NumVersions : Completed' = 1 .. m
  BY <1>i DEF StackInv
<1>k. LedgerVersion' = m
  <2>1. Cardinality(1 .. m) = m
    BY FS_Interval
  <2> QED BY <1>m, <2>1 DEF LedgerVersion
<1>1. ASSUME UNCHANGED <<row, effects>>
      PROVE  UNCHANGED <<LedgerVersion, LedgerSchema>>
  BY <1>1 DEF LedgerVersion, LedgerSchema, Completed, Extent
<1>2. ASSUME Completed' = Completed, effects' = effects
      PROVE  UNCHANGED <<LedgerVersion, LedgerSchema>>
  BY <1>2 DEF LedgerVersion, LedgerSchema, Extent
<1>3. ASSUME NEW p \in Runners, RecordMigration(p)
      PROVE  Completed' = Completed /\ effects' = effects
  BY <1>3, InsertRowRow DEF RecordMigration, TypeOK, Completed
<1>4. ASSUME NEW p \in Runners, MarkRunning(p) \/ MarkDone(p) \/ MarkFailed(p)
      PROVE  /\ effects' = effects /\ current[p] \in Versions
             /\ \A v \in Versions \ {current[p]} : row'[v] = row[v]
  BY <1>4, UpdateStatusRow DEF MarkRunning, MarkDone, MarkFailed, TypeOK, MigrationStatus
<1>5. ASSUME NEW p \in Runners, MarkRunning(p), Completed' # Completed
      PROVE  Ledger!Pop
  <2>1. PlanFits(p) /\ AtHand(p) /\ AtHand(p)' /\ call[p] \in Calls
    BY <1>i DEF StackInv, TypeOK
  <2>2. pc[p] = "markRunning" /\ pc'[p] = "execute" /\ call' = call /\ current' = current
    BY <1>5 DEF MarkRunning, plan, TypeOK
  <2>3. Completed' = 1 .. (current[p] - 1)
    BY <2>1, <2>2 DEF AtHand
  <2>4. Completed = 1 .. current[p]
    BY <1>5, <2>1, <2>2, <2>3 DEF AtHand, Calls
  <2>5. n = current[p] /\ m = n - 1 /\ n > 0
    BY <1>n, <1>m, <1>4, <1>5, <2>3, <2>4 DEF Versions
  <2>6. LedgerSchema' = LedgerSchema
    BY <1>4, <1>5 DEF LedgerSchema, Extent
  <2>7. ASSUME n < NumVersions PROVE LedgerSchema[n + 1] = "none"
    <3>1. n + 1 \in Versions \ Completed
      BY <1>n, <2>7 DEF Versions
    <3>2. Clear(n + 1)
      BY <1>5, <2>2, <3>1 DEF StackInv, NothingGoesWrong, OneAtATime
    <3> QED BY <3>1, <3>2, Extents DEF LedgerSchema
  <2> QED BY <1>h, <1>k, <2>5, <2>6, <2>7 DEF Ledger!Pop
<1>6. ASSUME NEW p \in Runners, MarkDone(p), Completed' # Completed
      PROVE  Ledger!Push
  <2>1. AtHand(p) /\ HowFar(p) /\ call[p] \in Calls /\ stmt[p] = NumStatements + 1
        /\ pc[p] = "execute"
    BY <1>6 DEF StackInv, TypeOK, MarkDone, AllExecuted
  <2>2. Completed = 1 .. (current[p] - 1) /\ current[p] \notin Completed
    BY <2>1 DEF AtHand, Completed
  <2>3. current[p] \in Completed'
    BY <1>4, <1>6, <2>2 DEF Completed
  <2>4. call[p].kind = "run"
    BY <1>4, <1>6, <2>1, <2>2, <2>3, UpdateStatusRow
       DEF MarkDone, TypeOK, MigrationStatus, Completed, Calls
  <2>5. Completed' = Completed \cup {current[p]}
    BY <1>4, <1>6, <2>3 DEF Completed
  <2>6. n = current[p] - 1 /\ m = n + 1
    BY <1>n, <1>m, <1>4, <1>6, <2>2, <2>5 DEF Versions
  <2>7. LedgerSchema' = LedgerSchema
    BY <1>4, <1>6 DEF LedgerSchema, Extent
  <2>8. LedgerSchema[n + 1] = "all"
    <3>1. Full(current[p])
      BY <2>1, <2>4 DEF HowFar, Full
    <3>2. current[p] \in Versions /\ n + 1 = current[p]
      BY <1>4, <1>6, <2>6 DEF Versions
    <3>3. Extent(n + 1) = "all"
      BY <3>1, <3>2, Extents
    <3> QED BY <3>2, <3>3 DEF LedgerSchema
  <2> QED BY <1>h, <1>k, <2>6, <2>7, <2>8 DEF Ledger!Push
<1>7. ASSUME NEW p \in Runners, ApplyStatement(p) \/ RevertStatement(p)
      PROVE  Ledger!Work
  <2>1. /\ pc[p] = "execute" /\ Completed' = Completed /\ current[p] \in Versions
        /\ stmt[p] \in 1 .. NumStatements
    BY <1>7 DEF ApplyStatement, RevertStatement, Completed, TypeOK
  <2>2. n = current[p] - 1 /\ m = n
    BY <1>n, <1>m, <2>1 DEF StackInv, AtHand, Versions
  <2>3. \A s \in Statements : s[1] # current[p] => effects'[s] = effects[s]
    BY <1>7, <2>1 DEF ApplyStatement, RevertStatement, TypeOK
  <2>4. n < NumVersions /\ n + 1 = current[p] /\ n + 1 \in Versions
    BY <2>1, <2>2 DEF Versions
  <2>5. \A v \in Versions \ {n + 1} : Extent(v)' = Extent(v)
    BY <2>3, <2>4 DEF Extent, Statements
  <2>6. \A v \in Versions : Extent(v)' \in {"none", "some", "all"}
    BY DEF Extent
  <2>7. LedgerSchema' = [LedgerSchema EXCEPT ![n + 1] = LedgerSchema'[n + 1]]
    BY <2>4, <2>5 DEF LedgerSchema
  <2>8. LedgerSchema'[n + 1] \in {"none", "some", "all"}
    BY <2>4, <2>6 DEF LedgerSchema
  <2> QED BY <1>h, <1>k, <2>2, <2>4, <2>7, <2>8 DEF Ledger!Work
<1>8. CASE \E p \in Runners : MarkFailed(p)
  BY <1>8 DEF MarkFailed, StackInv, AtHand
<1>9. CASE UNCHANGED vars
  BY <1>1, <1>9 DEF vars
<1>10. CASE Next
  BY <1>1, <1>2, <1>3, <1>4, <1>5, <1>6, <1>7, <1>8, <1>10, QuietStep
     DEF Next, Act, Step, Quiet, Ledger!LedgerNext
<1> QED BY <1>9, <1>10

(* With one caller and nothing that goes wrong, the table and the schema are *)
(* the stack that oxen/migrations promises, for any number of versions,      *)
(* statements and calls.                                                     *)
THEOREM ImplementsLedger ==
    ASSUME NothingGoesWrong PROVE Spec => Ledger!LedgerSpec
<1>1. TypeOK /\ StackInv /\ [Next]_vars => StackInv'
  BY NextStack
<1>2. TypeOK /\ StackInv /\ [Next]_vars
      => [Ledger!LedgerNext]_<<LedgerVersion, LedgerSchema>>
  BY NextLedger
<1> QED BY <1>1, <1>2, InitStack, InitLedger, TypeCorrect, PTL
        DEF Spec, Ledger!LedgerSpec
====
