--------------------------- MODULE MigrationRunner ---------------------------
(***************************************************************************)
(* oxen/migrations/runner.py behind oxen/migrations/engine.py: callers     *)
(* that run or roll back migrations against one database.  The database    *)
(* holds the tracking table oxen_migrations (row) and what the migrations' *)
(* own SQL did (effects).  Every `await engine.execute_query(...)` is one  *)
(* step: it sends one statement that commits by itself, and it returns an  *)
(* error result instead of raising.                                        *)
(***************************************************************************)
EXTENDS Integers, FiniteSets

CONSTANTS
    Runners,         \* concurrent callers: processes or asyncio tasks
    NumVersions,     \* migration files, numbered in version order
    NumStatements,   \* statements of each up_sql; down_sql has a DROP for each
    Repeatable,      \* <<version, index>> of the up statements that are not
                     \* refused when applied twice (INSERT, UPDATE)
    Depends,         \* Migration.dependencies
    Rollbacks,       \* do callers use rollback_migrations?
    ReadFaults,      \* may the SELECT on oxen_migrations fail?
    LedgerFaults,    \* may an INSERT or UPDATE on oxen_migrations fail?
    StatementFaults, \* may the database refuse a migration's statement?
    MaxCalls,        \* bound: calls of each runner
    MaxCrashes       \* bound: process deaths, over all runners

Versions   == 1 .. NumVersions
Statements == Versions \X (1 .. NumStatements)

ASSUME RunnerAssumption ==
    /\ NumVersions \in Nat \ {0}
    /\ NumStatements \in Nat \ {0}
    /\ Repeatable \subseteq Statements
    /\ Depends \in [Versions -> SUBSET Versions]
    /\ {Rollbacks, ReadFaults, LedgerFaults, StatementFaults} \subseteq BOOLEAN
    /\ MaxCalls \in Nat
    /\ MaxCrashes \in Nat

VARIABLES
    row,      \* status column of oxen_migrations, "absent" without a row
    effects,  \* how many times each up statement is in effect in the schema
    pc,       \* the await each runner is at
    call,     \* the call it executes: kind and target version
    applied,  \* result of the first SELECT of create_migration_plan
    todo,     \* the part of the plan it has not come to
    current,  \* the migration at hand
    stmt,     \* the statement of it to be executed next
    ok,       \* results['success']
    calls, crashes   \* what the bounds count

database == <<row, effects>>
plan     == <<call, applied>>
bounds   == <<calls, crashes>>
vars     == <<row, effects, pc, call, applied, todo, current, stmt, ok,
              calls, crashes>>

MigrationStatus == {"pending", "running", "completed", "failed", "rolled_back"}
NoTarget        == NumVersions + 1      \* target_version=None
Calls == [kind : {"run", "rollback"}, target : 0 .. NoTarget]

TypeOK ==
    /\ row \in [Versions -> MigrationStatus \cup {"absent"}]
    /\ effects \in [Statements -> Nat]
    /\ pc \in [Runners -> {"idle", "readApplied", "plan", "next", "record",
                           "markRunning", "execute", "fail"}]
    /\ call \in [Runners -> Calls]
    /\ applied \in [Runners -> SUBSET Versions]
    /\ todo \in [Runners -> SUBSET Versions]
    /\ current \in [Runners -> Versions]
    /\ stmt \in [Runners -> 1 .. (NumStatements + 1)]
    /\ ok \in [Runners -> BOOLEAN]
    /\ calls \in [Runners -> 0 .. MaxCalls]
    /\ crashes \in 0 .. MaxCrashes

NoCall == [kind |-> "run", target |-> NoTarget]

Init ==
    /\ row = [v \in Versions |-> "absent"]
    /\ effects = [s \in Statements |-> 0]
    /\ pc = [r \in Runners |-> "idle"]
    /\ call = [r \in Runners |-> NoCall]
    /\ applied = [r \in Runners |-> {}]
    /\ todo = [r \in Runners |-> {}]
    /\ current = [r \in Runners |-> 1]
    /\ stmt = [r \in Runners |-> 1]
    /\ ok = [r \in Runners |-> TRUE]
    /\ calls = [r \in Runners |-> 0]
    /\ crashes = 0

-----------------------------------------------------------------------------
(* The tracking table                                                       *)

Completed == {v \in Versions : row[v] = "completed"}

(* get_applied_migrations: the completed rows, or [] when the query fails. *)
AppliedMigrations == {Completed} \cup (IF ReadFaults THEN {{}} ELSE {})

(* UPDATE ... WHERE id: no row, no effect; nobody looks at the result.      *)
UpdateStatus(v, status) ==
    \/ row' = IF row[v] = "absent" THEN row ELSE [row EXCEPT ![v] = status]
    \/ (LedgerFaults /\ row' = row)

(* Mutants: a status MigrationStatus does not have; an INSERT never sent.   *)
InsertQueued(v)  == row' = [row EXCEPT ![v] = "queued"]
InsertNothing(v) == row' = row

(* INSERT: `version` is UNIQUE, so it fails, unnoticed, when there is a row. *)
InsertRow(v) ==
    \/ row' = IF row[v] = "absent" THEN [row EXCEPT ![v] = "pending"] ELSE row
    \/ (LedgerFaults /\ row' = row)

(* Mutants: every file of the directory; one version short of the target.   *)
EveryMigration(pending, target) ==
    {v \in Versions : target = NoTarget \/ (target \in pending /\ v <= target)}
OneShort(done, pending, target) ==
    {v \in done : target # NoTarget /\ target \notin pending /\ v > target + 1}

(* The two lists of the MigrationPlan.                                      *)
MigrationsToRun(pending, target) ==
    {v \in pending : target = NoTarget \/ (target \in pending /\ v <= target)}

MigrationsToRollback(done, pending, target) ==
    {v \in done : target # NoTarget /\ target \notin pending /\ v > target}

(* _resolve_dependencies starts from an empty set: a dependency counts only *)
(* when it comes earlier in this very plan.                                 *)
DependenciesResolved(run) ==
    \A v \in run : \A d \in Depends[v] : d \in run /\ d < v

(* Migrations run from the lowest version, and are reverted from the highest. *)
Lowest(S, v)  == v \in S /\ \A w \in S : v <= w
Highest(S, v) == v \in S /\ \A w \in S : v >= w

-----------------------------------------------------------------------------
(* The calls                                                                *)

(* The locals of a call end with it.                                        *)
Leave(r, result) ==
    /\ pc' = [pc EXCEPT ![r] = "idle"]
    /\ call' = [call EXCEPT ![r] = NoCall]
    /\ applied' = [applied EXCEPT ![r] = {}]
    /\ todo' = [todo EXCEPT ![r] = {}]
    /\ current' = [current EXCEPT ![r] = 1]
    /\ stmt' = [stmt EXCEPT ![r] = 1]
    /\ ok' = [ok EXCEPT ![r] = result]

Invoke(r, kind, target) ==
    /\ pc[r] = "idle"
    /\ calls[r] < MaxCalls
    /\ kind = "rollback" => Rollbacks /\ target # NoTarget
    /\ pc' = [pc EXCEPT ![r] = "readApplied"]
    /\ call' = [call EXCEPT ![r] = [kind |-> kind, target |-> target]]
    /\ ok' = [ok EXCEPT ![r] = TRUE]
    /\ calls' = [calls EXCEPT ![r] = @ + 1]
    /\ UNCHANGED <<database, applied, todo, current, stmt, crashes>>

ReadApplied(r) ==
    /\ pc[r] = "readApplied"
    /\ \E done \in AppliedMigrations : applied' = [applied EXCEPT ![r] = done]
    /\ pc' = [pc EXCEPT ![r] = "plan"]
    /\ UNCHANGED <<database, call, todo, current, stmt, ok, bounds>>

(* get_pending_migrations reads the table a second time.                    *)
CreatePlan(r) ==
    /\ pc[r] = "plan"
    /\ \E done \in AppliedMigrations :
         LET pending == Versions \ done
             run     == MigrationsToRun(pending, call[r].target)
             undo    == MigrationsToRollback(applied[r], pending, call[r].target)
         IN /\ call[r].kind = "run" => DependenciesResolved(run)
            /\ todo' = [todo EXCEPT ![r] = IF call[r].kind = "run" THEN run
                                                                  ELSE undo]
    /\ pc' = [pc EXCEPT ![r] = "next"]
    /\ UNCHANGED <<database, plan, current, stmt, ok, bounds>>

(* run_migrations, and only it, gives up when the plan is not valid.        *)
RejectPlan(r) ==
    /\ pc[r] = "plan" /\ call[r].kind = "run"
    /\ \E done \in AppliedMigrations :
         ~DependenciesResolved(MigrationsToRun(Versions \ done, call[r].target))
    /\ Leave(r, FALSE)
    /\ UNCHANGED <<database, bounds>>

(* run_migrations: lowest version first; look whether it is recorded, but   *)
(* run it in either case.                                                   *)
NextToRun(r) ==
    /\ pc[r] = "next" /\ call[r].kind = "run"
    /\ \E v \in todo[r], existing \in AppliedMigrations :
         /\ Lowest(todo[r], v)
         /\ current' = [current EXCEPT ![r] = v]
         /\ pc' = [pc EXCEPT ![r] = IF v \in existing THEN "markRunning"
                                                      ELSE "record"]
    /\ UNCHANGED <<database, plan, todo, stmt, ok, bounds>>

(* rollback_migrations: highest version first.                              *)
NextToRollback(r) ==
    /\ pc[r] = "next" /\ call[r].kind = "rollback"
    /\ \E v \in todo[r] :
         /\ Highest(todo[r], v)
         /\ current' = [current EXCEPT ![r] = v]
    /\ pc' = [pc EXCEPT ![r] = "markRunning"]
    /\ UNCHANGED <<database, plan, todo, stmt, ok, bounds>>

RecordMigration(r) ==
    /\ pc[r] = "record"
    /\ InsertRow(current[r])
    /\ pc' = [pc EXCEPT ![r] = "markRunning"]
    /\ UNCHANGED <<effects, plan, todo, current, stmt, ok, bounds>>

MarkRunning(r) ==
    /\ pc[r] = "markRunning"
    /\ UpdateStatus(current[r], "running")
    /\ pc' = [pc EXCEPT ![r] = "execute"]
    /\ stmt' = [stmt EXCEPT ![r] = 1]
    /\ UNCHANGED <<effects, plan, todo, current, ok, bounds>>

(* One up statement: accepted, or refused because what it creates is there  *)
(* or for a reason of the database's own.                                   *)
ApplyStatement(r) ==
    /\ pc[r] = "execute" /\ call[r].kind = "run" /\ stmt[r] <= NumStatements
    /\ LET s == <<current[r], stmt[r]>>
       IN /\ s \in Repeatable \/ effects[s] = 0
          /\ effects' = [effects EXCEPT ![s] = @ + 1]
    /\ stmt' = [stmt EXCEPT ![r] = @ + 1]
    /\ UNCHANGED <<row, pc, plan, todo, current, ok, bounds>>

RefuseStatement(r) ==
    /\ pc[r] = "execute" /\ call[r].kind = "run" /\ stmt[r] <= NumStatements
    /\ LET s == <<current[r], stmt[r]>>
       IN StatementFaults \/ (s \notin Repeatable /\ effects[s] > 0)
    /\ pc' = [pc EXCEPT ![r] = "fail"]
    /\ UNCHANGED <<database, plan, todo, current, stmt, ok, bounds>>

(* One down statement.  They undo the up statements in reverse order (DROP  *)
(* ... IF EXISTS); rollback_migration does not look at the result.          *)
RevertStatement(r) ==
    /\ pc[r] = "execute" /\ call[r].kind = "rollback"
    /\ stmt[r] <= NumStatements
    /\ LET s == <<current[r], NumStatements + 1 - stmt[r]>>
       IN \/ effects' = [effects EXCEPT ![s] = 0]
          \/ (StatementFaults /\ effects' = effects)
    /\ stmt' = [stmt EXCEPT ![r] = @ + 1]
    /\ UNCHANGED <<row, pc, plan, todo, current, ok, bounds>>

(* Mutant: the loop stops before the last statement.                        *)
AlmostAllExecuted(r) == stmt[r] >= NumStatements

AllExecuted(r) == stmt[r] = NumStatements + 1

MarkDone(r) ==
    /\ pc[r] = "execute" /\ AllExecuted(r)
    /\ UpdateStatus(current[r], IF call[r].kind = "run" THEN "completed"
                                                        ELSE "rolled_back")
    /\ todo' = [todo EXCEPT ![r] = @ \ {current[r]}]
    /\ pc' = [pc EXCEPT ![r] = "next"]
    /\ UNCHANGED <<effects, plan, current, stmt, ok, bounds>>

(* Mutants: the result keeps saying success; the failed migration is tried  *)
(* until it works.                                                          *)
FailQuietly(r) ==
    /\ pc[r] = "fail"
    /\ UpdateStatus(current[r], "failed")
    /\ todo' = [todo EXCEPT ![r] = @ \ {current[r]}]
    /\ pc' = [pc EXCEPT ![r] = "next"]
    /\ UNCHANGED <<effects, plan, current, stmt, ok, bounds>>
FailAndRetry(r) ==
    /\ pc[r] = "fail"
    /\ UpdateStatus(current[r], "failed")
    /\ ok' = [ok EXCEPT ![r] = FALSE]
    /\ pc' = [pc EXCEPT ![r] = "next"]
    /\ UNCHANGED <<effects, plan, todo, current, stmt, bounds>>

(* A failure is written down and the loop goes on to the next migration.    *)
MarkFailed(r) ==
    /\ pc[r] = "fail"
    /\ UpdateStatus(current[r], "failed")
    /\ todo' = [todo EXCEPT ![r] = @ \ {current[r]}]
    /\ ok' = [ok EXCEPT ![r] = FALSE]
    /\ pc' = [pc EXCEPT ![r] = "next"]
    /\ UNCHANGED <<effects, plan, current, stmt, bounds>>

Return(r) ==
    /\ pc[r] = "next" /\ todo[r] = {}
    /\ Leave(r, ok[r])
    /\ UNCHANGED <<database, bounds>>

(* The process dies between two statements; the database keeps what it has. *)
Crash(r) ==
    /\ pc[r] # "idle"
    /\ crashes < MaxCrashes
    /\ crashes' = crashes + 1
    /\ Leave(r, FALSE)
    /\ UNCHANGED <<database, calls>>

(* A call in progress: everything but its start and the crashes.            *)
Step(r) ==
    \/ ReadApplied(r) \/ CreatePlan(r) \/ RejectPlan(r)
    \/ NextToRun(r) \/ NextToRollback(r)
    \/ RecordMigration(r) \/ MarkRunning(r)
    \/ ApplyStatement(r) \/ RefuseStatement(r) \/ RevertStatement(r)
    \/ MarkDone(r) \/ MarkFailed(r) \/ Return(r)

Act(r) ==
    \/ \E kind \in {"run", "rollback"}, target \in 0 .. NoTarget :
          Invoke(r, kind, target)
    \/ Step(r)
    \/ Crash(r)

Next == \E r \in Runners : Act(r)

Spec == Init /\ [][Next]_vars

(* Every await returns: the event loop resumes a runner that can go on.     *)
FairSpec == Spec /\ \A r \in Runners : WF_vars(Step(r))

-----------------------------------------------------------------------------
(* Properties                                                               *)

(* A version the table calls completed is in the schema in full: the status *)
(* is written after the last statement (run_migration) and withdrawn before *)
(* the first DROP (rollback_migration).                                     *)
CompletedIsApplied ==
    \A v \in Versions : row[v] = "completed" =>
        \A i \in 1 .. NumStatements : effects[<<v, i>>] > 0

(* Nothing reaches the schema before the table names its version as one     *)
(* that was started: after a crash the table tells what to look at.         *)
EffectsAreRecorded ==
    \A s \in Statements : effects[s] > 0 => row[s[1]] \notin {"absent", "pending"}

(* No up statement is in effect twice, even one the database would repeat.  *)
AppliedAtMostOnce == \A s \in Statements : effects[s] <= 1

(* A completed migration stays completed until a caller rolls it back: no   *)
(* run_migrations ever starts it again (the plan holds pending ones only).  *)
CompletedLeftOnlyByRollback ==
    [][\A v \in Versions : row[v] = "completed" /\ row'[v] # "completed" =>
         \E r \in Runners : /\ call[r].kind = "rollback"
                           /\ current[r] = v
                           /\ row'[v] = "running"]_vars

(* A call of run_migrations() that returns success leaves every version     *)
(* completed, however many failures and crashes went before it.             *)
SuccessMeansCompleted ==
    [][\A r \in Runners :
         pc[r] # "idle" /\ pc'[r] = "idle" /\ ok'[r]
            /\ call[r] = [kind |-> "run", target |-> NoTarget]
         => Completed = Versions]_vars

(* rollback_migrations(target) returns success with nothing above target    *)
(* left in the schema.                                                      *)
RollbackClears ==
    \A r \in Runners :
        pc[r] # "idle" /\ pc'[r] = "idle" /\ ok'[r]
           /\ call[r].kind = "rollback"
        => \A s \in Statements : s[1] > call[r].target => effects[s] = 0

(* "Update status to rolled back" (runner.py:207): a version the table      *)
(* calls rolled_back has left nothing in the schema.                        *)
RolledBackIsGone ==
    \A s \in Statements : row[s[1]] = "rolled_back" => effects[s] = 0

(* The conflict "depends on ... which is not applied" (runner.py:129) is    *)
(* reported of a dependency that is neither applied nor about to be.        *)
ConflictOnlyIfNotApplied ==
    [][\A r \in Runners :
         pc[r] = "plan" /\ pc'[r] = "idle" /\ crashes' = crashes
         => \E v \in Versions \ Completed, d \in Versions \ Completed :
              d \in Depends[v] /\ d >= v]_vars

(* How much of a version is in the schema.                                  *)
Extent(v) ==
    LET there == {i \in 1 .. NumStatements : effects[<<v, i>>] > 0}
    IN IF there = {} THEN "none"
       ELSE IF there = 1 .. NumStatements THEN "all" ELSE "some"

(* With one caller and nothing failing, the table and the schema move as    *)
(* the stack of MigrationLedger.  (-1: the completed versions are no prefix.) *)
LedgerVersion == IF \E n \in 0 .. NumVersions : Completed = 1 .. n
                   THEN Cardinality(Completed) ELSE -1
LedgerSchema  == [v \in Versions |-> Extent(v)]

(* A call that started comes to an end, whatever fails on the way.          *)
CallsReturn == \A r \in Runners : pc[r] # "idle" ~> pc[r] = "idle"
=============================================================================
