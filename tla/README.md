# OxenORM: specifications, model checking and proofs

TLA+ models of the parts of OxenORM in which order, concurrency and failure
matter, TLC configurations that check them on small instances, and TLAPS proofs
of the main results for every size. The reference is the code
(`oxen/` and `src/lib.rs` of the repository); where a document or a comment says
something else, the model follows the code and a run shows the difference.

    tlc -workers 2 -config migrate_race.cfg MCMigrationRunner.tla
    tlapm MigrationRunnerProofs.tla

`PROJECT.json` holds the index: components, runs, the lines of code each
definition stands for, the mutation of the code each property catches, the
hazards and the theorems.

## 1. The system

An application's asyncio tasks call **models** and **query sets**, which turn a
call into SQL statements and await a **unified engine**. That engine reaches the
**Rust engine** through the **Rust bridge**, whose every call runs in a thread of
the event loop's default executor. The Rust engine owns a pool of database
connections. **Migrations** use the engine for their own SQL and for a tracking
table. A second, pure-Python connection pool (`backends/base.py`) is deprecated
but still shipped.

A Rust call keeps the GIL until it ends (`lib.rs` never calls `allow_threads`), so
two calls never overlap inside Rust. What interleaves is everything between two
awaits: a call is atomic, a sequence of calls is not. That one fact decides the
grain of every module: *one awaited engine call is one step*.

| Component | State | Operations | Interacts with | Hard behaviour | Modules |
|---|---|---|---|---|---|
| Migration runner (`migrations/runner.py`, `engine.py`, `models.py`) | table `oxen_migrations`; the schema; per call the plan, the version at hand, the statement index | run, rollback, plan, record, update status | unified engine, statement by statement | crash between statements, refused statements, stale reads of the table, two callers | `MigrationRunner`, `MigrationLedger`, `ShippedMigrations` |
| Unified engine (`engine.py`) | the bridge object, `is_connected` | connect, execute_query (with one reconnection), execute_many, disconnect | bridge | lazy connect by several tasks, retry after an error, pool replaced in use | `UnifiedEngine` |
| Rust engine (`lib.rs`) | `pool`, `is_connected` | connect, close, execute, batches, SQL from IR | database | pool kept after close, batches not atomic | `UnifiedEngine`, `BulkInserts`, `QuerySets` |
| Rust bridge (`rust_bridge.py`) | the Rust engine; `_in_transaction` of a TransactionContext | execute, insert_record, begin_transaction, transaction | Rust engine, executor | BEGIN, body and COMMIT may use different connections | `BridgeTransaction`, `Records` |
| Models (`models.py`) | per instance `pk`, `_saved_in_db`, the fields; listeners per class | save, delete, update, get, get_or_create, bulk_* | either engine | check-then-act, id asked for separately, half a batch | `Records`, `BulkInserts`, `Signals` |
| Query sets (`queryset.py`) | conditions in a Python list, orderings, limits | filter, exclude, order_by, slice, copies; every statement awaited on them | unified engine, IR | lost conditions, shared lists, the fallback to the whole table, zero limits | `QuerySets` |
| Python connection pool (`backends/base.py`) | idle and busy connections, a count, a lock | initialize, acquire, release, transaction, close | database drivers | waiters that hold the lock they wait on; close under holders | `ConnectionPool` |
| Caches (`engine.py` QueryCache, PreparedStatementCache) | bounded maps with access order, counts and expiry | get, set, clear | none: nothing fills or reads them | eviction at the limit, stale entry | `Caches` |
| Signals (`signals.py`) | receiver lists | connect, disconnect, clear, send | none: `save()` has its own listeners | the list changes while it is walked | `Signals` |
| Multi-database manager (`multi_database_manager.py`) | registered databases, primary, initialised flag, a lock | add, initialize, close, switch, statements | several engines | one of several failing, the dictionary grows during a walk, a statement that connects behind the flag | `DatabaseManager` |
| Monitoring (`monitoring.py`) | points, thresholds, alerts, a flag and a thread | record, start, stop, the loop, resolve | none | start and stop without a lock, a loop asleep, alert ids | `Monitoring` |
| Schema diff (`migrations/schema.py`, `generator.py`) | two schemas, statements up and down | compare, generate, execute, roll back | migration runner | refused statements, columns left out | `SchemaChanges` |
| Enhanced migrations (`migrations/enhanced_*.py`) | plan, graph, checkpoints | every call fails at `result.rows` | engine | | none |
| Fields, validators, relations | none shared | conversions and checks of one value | models | | none |
| CLI, admin and dashboards, file and image operations, configuration, benchmarks | none of their own | printing, pages, input and output | all of the above | | none |

What makes each component correct is stated by the properties at the end of its
module; section 3 says in which run they are checked.

## 2. What is modelled

### MigrationRunner

*Module* `MigrationRunner` (with `MigrationLedger`, the abstract specification).
`row[v]` is the status column of `oxen_migrations`, `effects[<<v, i>>]` how many
times statement `i` of version `v`'s `up_sql` is in effect in the schema. Each
caller has a program counter that names the `await` it is at: the first read of
the table (`ReadApplied`), the second (`CreatePlan`, which also fixes the list),
the read before each migration (`NextToRun`), the INSERT (`RecordMigration`), the
UPDATE to running, one step per statement, the final UPDATE. Errors are results,
not exceptions, so a failing INSERT or UPDATE is passed over just as the code
passes it over, and a failing SELECT counts as an empty table. A statement that
is not in `Repeatable` is a `CREATE TABLE`: the database refuses it when its
effect is there. A crash drops the caller's locals and keeps the database.

`MigrationLedger` is what a user expects: a stack of versions; `Work` changes only
the one above the top, `Push` needs it complete, `Pop` needs it empty. The
refinement maps the completed versions (if they form a prefix) to the height of the
stack and the effects to none/some/all.

### UnifiedEngine

*Module* `UnifiedEngine`. `bridge`, `isConnected` and `pool` are the three places
that each hold an idea of whether there is a connection; `times`, `acked`,
`failed` and `lost` are histories of the statements, `stored` what the current
database holds (a new pool of `sqlite://:memory:` is a new, empty database). One
action is one call of the Rust engine or the Python code between two of them.
`setup` is how the engine is used (which calls, connected before or not, in memory or
not) and what may fail; it is chosen at the start and never changes, so that one
specification has every setup and a property may speak of some of them.
`disconnect()` only clears a flag, so it awaits nothing. The test "is it
connected" before each statement always raises `AttributeError` inside a
`try ... except: pass` (the bridge has no `is_connected`), so it has no action.

### BridgeTransaction

*Module* `BridgeTransaction`: `async with await engine.begin_transaction()` and
`async with engine.transaction()` of `rust_bridge.py` on a SQLite file. Every call is
served by any connection of the pool (`used` records which have served). `Begin`
is refused where a transaction is open; `BeginContext` sends its BEGIN and then
awaits a dict, so it raises and leaves the transaction open. `orphaned` records
that a transaction was left open or lost with its connection. Not in the model:
Postgres (which only warns about a nested BEGIN), MySQL (which rejects `BEGIN
TRANSACTION`), in-memory databases. `UnifiedEngine.transaction()` raises before its
block and `UnifiedTransaction.commit` and `rollback` are `pass`; the Rust
`begin_transaction` changes nothing: none of them has a behaviour to model.

### Records

*Module* `Records`: `models.py` over one SQLite table with `AUTOINCREMENT` ids, behind
either engine. `row` is the table; every row also remembers who inserted it, who
wrote it last and whether `get_or_create` made it. Every task works on its own
instances (`<<task, n>>`). `save()` of an unsaved instance is `Insert`; behind the
bridge it is followed by `LastId`, the separate `SELECT last_insert_rowid()`. A
`get_or_create` that found nothing is between `Find` and `Insert`. `bulk_create` is
one `BulkCreate` step per row (`execute_sqlite_many_typed` sends them one by one) and
tells the instances only after the last. It looks neither at `_saved_in_db` nor at
repetitions, so it may be given instances that are saved, and a list may name one
several times (`GoOn` need not take it off the list). The instances of one call are
taken in any order: the list's order is the caller's. Four marks say what a property
has to except: `doubtful` (the call failed after its INSERT), `overtaken` (another INSERT
came before the question for the id), `raced` (another INSERT came between search
and insert), `again` (`bulk_create` inserted an instance that was saved, or one twice).
Left out: signal listeners, relations, `update_fields` (which `save()`
ignores), the methods that only read, several connections (with them
`last_insert_rowid()` may be asked of a connection that inserted nothing).

### QuerySets

*Module* `QuerySets`: `queryset.py` and the SQL `build_sql_from_ir` of `lib.rs` makes of
a query, on one SQLite table with a key and one column. A query set is a record of
its limits and orderings and a *reference* to a Python list of Q objects, so that a
clone which shared its original's list would be seen. `Derive` is any one method that
makes a query set of another, `Await` any statement awaited on one. The model keeps
what the code does with conditions: only the top `filters` of each argument reach the
IR; the second condition on a key replaces the first; `ILIKE` is no operator of
SQLite; a condition `json.dumps` refuses makes select, count and exists fall back to
the whole table and makes update and delete raise. What follows from that is worth
knowing: a query set with `OR` or `~` at the top has *no* condition, so `delete()` on it
deletes every row; `latest()` is `earliest()`; `limit(0).first()` returns a row; `count()`
and `exists()` ask without limit and offset (`limit(1).count()` may be 2). Some calls
raise before they ask anything and have no action: `values`, `values_list`, `raw`,
`bulk_update` (TypeError), `window` and `with_cte` (AttributeError), and
`Manager.get_queryset` (NameError).

What an expression means is a recursive function over `Expressions`, a set closed
under "is a part of"; what the code sends of it is `Gathered`. `Positively` keeps out of
the comparison what the code loses or turns around on top: a negation, `exclude`, an
operator it does not know, and an OR with filters of its own (`Q(join_type="OR", a=1,
b=2)`, which is sent as an AND and so may miss rows; `|` makes none, and
`docs/expressions.rst` shows none).

### ConnectionPool

*Module* `ConnectionPool`: the pool of a backend, `BaseBackend`'s calls on it and its
`asyncio.Lock` as a queue (asyncio's lock is fair). `acquire` holds the lock while it
opens a connection (`creating`) and while it waits for one (`sleeping`); `release` asks for
the lock. A transaction's block is begin, body, commit or rollback; the driver may
fail to open, commit, roll back or close, and a task may be cancelled in the body
(`except Exception` does not catch that, so the connection comes back with its
transaction open). `pool` and `inUse` count how often each connection is listed, so that
"listed once" is a property and no assumption. Cancellation elsewhere and the
statistics are left out.

### The parts without shared state

`MCComponents` composes the modules of components that share no variable with another
part; `part` says which runs. Each is a module of its own, and every bound and set of names is a constant of
`MCComponents`, so that the proofs of `MCComponentsProofs` are about any value of them:

* `Caches`: both caches with the clock, expiry, eviction and the order or count it goes
  by. Nothing in the repository calls them for a query: no answer depends on them.
* `Signals`: `send` walks the receivers' own list by position while receivers connect,
  disconnect and clear; beside it the listeners that `Model.save` awaits one by one.
  `docs/signals.rst` has the models send the signals of `SignalManager`, but `save` never
  does, and a receiver that is a coroutine function is not awaited.
* `DatabaseManager`: tasks that add, initialise, close, switch and send statements. A walk over the
  databases awaits each engine with the lock held; `add_database` needs no lock, and a
  dictionary that grew ends the walk with an error. `UnifiedEngine.connect` returns a
  refusal instead of raising, so the walk goes on past one. A statement
  (`execute_on_database`, each one of `execute_on_all_databases` and
  `execute_on_read_replicas`, or one through the engine that `get_backend`, `connection` or
  `transaction` hands out) takes no lock and connects an engine that is not: before
  `initialize()`, or behind `close()`. `woken` remembers those. Whether it does connect is
  `UnifiedEngine`'s matter; here it may or may not. `connect()` and `disconnect()` called
  directly on an engine handed out are left out; `add_read_replica` is an `add_database`.
* `Monitoring`: threads that start, stop and record, and the loop in its own thread, one
  step per read or write of the flag, the thread and a list.
* `BulkInserts`: `bulk_create` with `insert_many` and `execute_*_many` ("many", one statement per
  record), and the chunks of `execute_insert_rows_chunked` ("ir"), for each database. The
  columns of a record are those its object gives a value, in the order of the fields;
  `insert_many` sends values by that order (`Rank`), the chunks look them up by name.
* `SchemaChanges`: the statements `compare_schemas` and `generate_migration_sql` make of two
  schemas, and `generate_migration_from_models` of model classes, executed up and down
  one by one. The code as it is: `removed` and `modified` objects of a comparison are not
  used, a new table is created without columns, an index or constraint of a diff is a
  syntax error, and the test `'id' in sql` lets any field whose SQL text contains "id"
  (`width`, `paid`, a UUID) lose its column to the id's. What the module promises is what
  is left: nothing of the old schema is lost, and the tables and columns it can make
  are there.
* `ShippedMigrations`: the 76 files under `migrations/`, each as the tables it creates, under
  sequences of `run_migrations` and `rollback_migrations`. Most of them create tables that
  earlier ones have created, and fail.

## 3. What the runs check

| Run | Instance | What it shows |
|---|---|---|
| `migrate_one_caller` | 1 caller, 3 versions of 2 statements; "alone": nothing fails, 4 calls; "faulty": a dependency chain, refusals, 1 crash anywhere, 3 calls | alone: no statement in effect twice (version 2 has a repeatable INSERT), a rollback leaves nothing above its target, the runner implements `MigrationLedger`; always: completed is applied in full, only a rollback takes `completed` away, success of a full run means everything completed, each call returns |
| `migrate_race` | 2 callers, 2 versions, rollbacks, failed reads, refusals, 1 crash | nothing is in the schema whose version the table does not call started |
| `migrate_rollback_ignores_errors` | violation | a refused DROP is ignored and the version becomes `rolled_back` with its table still there (`runner.py:205`) |
| `migrate_dependency_applied` | violation | a dependency that an earlier call completed counts as "not applied", and the plan is rejected (`runner.py:123`) |
| `engine_tasks` | 2 tasks in 4 scenarios. `Everything`: every kind of call, all faults, in-memory, 2 calls each; `Lazy`: nothing fails, nobody connected, 3 calls each; `Memory`: statements on a connected in-memory database, 3 calls each; "pool": a backend's pool of one connection, all faults and cancellations, 2 calls each | at most one effect per statement; results and errors are true; no statement fails for want of a connection; what was acknowledged stays; a pooled connection is with one task at most, usable when idle, no more are open than allowed; each call returns, of the pool too |
| `transaction_one_connection` | 2 tasks, 2 connections, 2 blocks and 2 statements each, refused statements and COMMITs, connections closed by the pool | as long as one connection served everybody and no transaction was left open or lost, blocks exclude each other, hide what they wrote and are atomic |
| `transaction_two_connections` | violation | with two connections a statement of a block is outside its transaction and survives the rollback (`docs/getting_started.rst:206` says it would not) |
| `records_shared` | 2 tasks, 2 instances each, 4 calls of any of the 8 kinds, 3 ids, refusals, both engines | one row per instance, unless a call failed after its INSERT, it was told another's id, or `bulk_create` was given it when it was saved, or twice; duplicates of `get_or_create` only from races; `_saved_in_db` tells the truth; rows are written by instances that hold them |
| `query_sets` | every table of 2 rows and 2 values or NULL, 3 query sets built from 8 keyword conditions, 8 Q expressions, orderings and limits, every statement | a query set shows every row its positive arguments ask for (and no other if they are plain); writes and counts what it shows without limit and offset; a call for one row (`get`, `first`, `last`, `latest`, `earliest`) returns one of those, or none (`get`, `latest` and `earliest` raise) if the offset passes over all; it is changed by no other |
| `query_sets_exclude` | violation | `exclude()` selects the rows it names (`queryset.py:253`) |
| `components` | the seven parts above, one at a time: cache of 2 entries and 3 keys; 2 receivers and 2 saves; 2 databases and 2 tasks of 3 calls; 2 threads, 2 loops; 3 records of 2 columns in chunks of 2; 2 tables, 2 fields of 6; the 76 files with 5 targets and 3 calls | the invariant of each part |
| `bulk_create_columns` | violation | `bulk_create` of objects that leave different fields None stores a value in another column (`engine.py:641`) |

Each property has a mutation of the code that breaks it under the same
configuration (the definitions marked "Mutant:" beside the one they would
replace), so none of them holds for want of interesting states.

Runs that would differ only in what is allowed to happen are scenarios of one
model-checking module. In `MCUnifiedEngine` they are values of `setup`, and the pool beside
them is an `INSTANCE`; in `MCMigrationOneCaller` each is an `INSTANCE` of the component with
its own constants (of the module with the proofs, which defines the same and lets the
lemmas be cited). A property about one of them says so, and a scenario leaves the
others' variables alone.

**Bounds.** A hazard of the runner needs two callers at most, a version below and
one above the one at hand, and a statement before and one after the failing one:
three versions of two statements, or two versions where two callers race. Retries
and rollback after a run need two to four calls. The engine's races are between
one task that connects and one that comes before it has finished. The pool's need a
holder and a waiter, or a holder and a close; with a pool of one and no overflow the
limit is met at once, and four connections are enough for two tasks that each make
one after a close. A transaction race needs two tasks and two connections.
`records_shared` has four calls in all, enough for save, delete, save and one call of
another task, or for two calls against two; two instances each make a batch that
fails halfway; three ids are enough for a second row of an instance and another's between. A derived query set and one derived from that one are enough to see a
shared list; two rows tell "all", "one" and "none". The walk of `send` needs an entry
before and one after the one that is removed; the manager's walk two databases, so
that one can be added during it; a chunk and a half of records show a failure
between chunks. Symmetry is used over interchangeable tasks and connections, with
invariants only. Deadlock is not checked because tasks may stop calling once the
bound on calls is reached; that nobody waits for ever is `EveryCallReturns` and
`CallsReturn`.

**Fairness.** `WF(Step(r))` per caller: an executor thread that can run does run and the
event loop resumes a coroutine whose future is done; the pool's timeout passes and a
driver's call ends, well or badly. Starting a call, crashing and (for the Rust pool)
closing connections are never assumed. No strong fairness is used: the one lock that
tasks compete for, the Python pool's, is served in the order of asking.

## 4. What is proved

Every theorem holds for every value of the constants that the named `ASSUME`s of the
modules allow (TLC evaluates them in every run); a hypothesis of its own is given here.
A theorem in an `MC` module states the very property its run checks.

| Module | Theorem | What it says |
|---|---|---|
| `MigrationRunnerProofs` | `TypeCorrect` | the types |
| | `EffectsRecorded` | if the tracking table accepts its writes, the schema never gets ahead of the table, for any number of callers |
| | `CompletedApplied` | completed versions are in the schema in full, for any number of callers that only upgrade under any fault, or for one caller that also rolls back |
| | `CompletedIsKept` | one caller whose table answers and accepts its writes takes `completed` away by a rollback only, whatever statements are refused and wherever it dies |
| | `SuccessIsTrue` | one caller whose table accepts its writes: success of a full run means everything is completed |
| | `AppliedOnce`, `RollbacksClear` | one caller and nothing going wrong: no statement in effect twice; a rollback leaves nothing above its target |
| | `ImplementsLedger` | under the same hypothesis the runner implements `MigrationLedger` |
| `MCMigrationOneCallerProofs` | `AloneAppliedOnce`, `AloneRollbacksClear`, `AloneIsLedger` | the last three for the scenario "alone" of `migrate_one_caller` |
| `MCUnifiedEngineProofs` | `TypeCorrect`, `StatementsAtMostOnce`, `TrueReplies` | the retry applies nothing twice; results and errors are true |
| | `NoStatementFails` | nothing failing by itself and nobody closing: no statement fails for want of a connection |
| | `AcknowledgedIsKept` | tasks that only send statements to a connected engine never replace its pool |
| | `PoolIsExclusive`, `PoolIsUsable`, `PoolIsWithinCapacity` | the three below, for the pool of `engine_tasks` |
| `ConnectionPoolProofs` | `ConnectionsAreExclusive` | a connection is with one task at most and listed once at most, never as idle while it is held; what is listed as busy is held |
| | `IdleConnectionsAreUsable` | an idle connection is open and in no transaction, and the count is right, unless a close or rollback failed or a block was cancelled |
| | `CapacityIsKept` | never more open than allowed, unless an `initialize()` found some there |
| `BridgeTransactionProofs` | `TypeCorrect`, `TasksExcludeEachOther`, `OpenBlockIsHidden`, `CommittedBlocksAreStored`, `RolledBackBlocksAreGone` | what `transaction_one_connection` checks: blocks exclude each other, hide what they have not committed, and are permanent in full or not at all |
| `RecordsProofs` | `TypeCorrect` | the types |
| | `InstancesHaveOneRow` | an instance has one row at most, unless a call failed after its INSERT, the bridge told it another's id, or `bulk_create` was given it when it was saved, or twice |
| | `WritersHold` | as long as nobody is overtaken, rows are written only by instances that inserted or loaded them |
| | `DuplicatesAreRaces` | as long as nobody is overtaken, two rows that `get_or_create` made of one key are the work of a race |
| | `SavedIsTrue` | as long as nobody is overtaken, `_saved_in_db` of an instance whose rows are its own says, between calls, whether it is stored |
| `QuerySetsProofs` | `TypeCorrect` | the types |
| | `OthersAreUnchanged` | building or awaiting a query set never changes what another one selects |
| | `NoRowIsLost` | a query set shows every row its positive arguments ask for, and only those if they are plain keyword arguments |
| | `WritesAreShown` | update and delete change rows the query set shows, count them, and touch none that plain arguments did not ask for; or they raise and change none |
| | `AnswersAgreeWithRows` | `count` and `exists` agree with the rows shown without limit and offset; every call for one row returns one of those, or none if the offset passes over them all (`get`, `latest` and `earliest`, and only they, then raise); `first` returns one that may be shown first, unless the limit is 0 or SQLite refuses; in the fallback too |
| `MCComponentsProofs` | `ManagerIsSound`, `SignalsAreSound`, `CachesAreSound`, `MonitoringIsSound`, `BulkIsSound`, `SchemaIsSound`, `ShippedIsSound` | the invariant of each part of `components`, for any number of tasks, receivers, databases, threads, keys, records, columns, tables, calls |
| | `ManagerIsSound` | with no walk under way or broken: flag up, what was there at `initialize()` is connected but for refusals; flag down, only what a statement connected is; there is a primary as soon as there is a database |
| | `BulkIsSound` | stored is what is counted, or the whole statements before the error; no value in another column where rows are looked up by name, or by position with the same fields None as the first (other rows: see `bulk_create_columns`) |
| | `SchemaIsSound` | the old schema survives any failure, and the rollback gives it back; completed, a diff has added its columns to the tables that were there (a new table gets none), a model's table has an id and its fields but for one at most, whose text has "id" in it |

The arguments:

* **EffectsRecorded.** `EffectsAreRecorded` is not inductive: a caller about to
  execute must have started its version. `RowAtHand` says for each program counter
  what the table must contain, from the plan (`applied` are recorded rows: rows are
  never deleted) through the INSERT to the UPDATE. With a table that refuses writes
  it is false, because nobody looks at the result of the INSERT.
* **CompletedApplied.** `Progress` says that a caller that has executed `stmt - 1`
  statements sees all of them in effect, or, rolling back, that its version is not
  called completed. This needs that nobody else reverts: hence the assumption.
* **CompletedIsKept, SuccessIsTrue.** `PlannedIsNotCompleted` says that what a run has
  planned and not yet done is not completed, which needs that the plan was read from a
  table that answered; `TodoCoversTheRest` that, as long as no migration failed,
  what is not completed is still to come.
* **AppliedOnce, RollbacksClear, ImplementsLedger.** `StackInv`: the completed versions are
  a prefix, the versions above it have no effect; the plan is the next stretch of the
  versions or the top of those completed (`PlanFits`), the migration at hand is next to
  them (`AtHand`), and its statements are in effect up to the one at hand (`HowFar`).
  The refinement then is one lemma for each action that writes the table or the schema;
  every other step is a stutter.
* **QuerySets.** `OwnLists`: the list of the `n`-th query set is the `n`-th list and holds what
  the query set was asked, argument by argument; `_clone` keeps that, whatever a query set is
  derived from, so no list changes once it is there. `Shown`: without limit and offset a query
  set shows just the rows `count()` counts, in whatever order SQLite gives them (an order of
  a finite set lists each of its members once, lemma `Listing`). `LastOne` and `EveryKey` say
  which conditions are sent, from which the rows asked for and the rows matched are compared.
  For `first()` an order of all rows is exhibited whose page begins with the row returned
  (`MayReturn`, `Pages`). The table may have any finite number of rows, the values be any
  integers, and the expressions any set that has the parts of its members.
* **UnifiedEngine.** A statement is *open* until it is answered; `OpenIsFresh` says
  an open statement has had no effect and no answer. It holds because only
  'Not connected', raised before anything is sent, is tried again. `NobodyFails` says that
  a pool, once there, stays, and that who comes before it reconnects; `SamePool` that
  nothing but a statement is ever asked of a connected engine.
* **BridgeTransaction.** `UnsentIsFresh` (a new statement is really new), `Apart` (a
  statement is pending on one connection or permanent), and, under
  `OneConnection`, `Alone`: one task inside, its transaction on that connection,
  its body pending there, finished blocks separate. `OneConnection` only ever
  turns from true to false, so it need not be re-established.
* **ConnectionPool.** `ExclusiveUse` is not inductive: `release` takes a connection off the
  busy list and, an await later, puts it on the idle list, with the lock held between.
  `LockHeld` says that who is there has the lock, `CheckedIsUnlisted` that the connection is
  on no list then, `HeldInBlock` that a task has a connection just while it is in its
  block or in `release`. Every action is one of four kinds (lemmas `MoveStep`, `TakeStep`,
  `LetGoStep`, and the three of their own), which keeps the proof short. For the other two
  theorems `DInv` adds what the driver has open: just what is listed or being examined
  (`Accounted`), as many as the pool counts (`TotalIsOpen`), in a transaction only in a block
  (`DirtyInBlock`), and that who opens one more found room with the lock still held (`FoundRoom`).
* **Records.** `Tidy(o)` says of an instance that was neither doubtful nor overtaken
  what its `pk`, its `_saved_in_db` and the call that holds it allow about the rows
  it inserted; `Belongs` that calls hold instances of their own task only, so that a
  step can be examined for the acting task alone (lemma `Frame`); `UnbornIsNew` that
  instances still to come have no trace; `Holds`, as long as nobody was overtaken,
  that a `pk` and the answer to a pending question for an id are the instance's own.
  Of instances in `again` it says nothing, and `again` never loses one.
* **DuplicatesAreRaces.** `StillMissing` says that what the search of `get_or_create` found
  holds until its INSERT, unless somebody else inserted the key in between. `Numbered`
  (ids are given out once, and all known ones are below the next) makes the inserted row
  the later one. `Keyed` (all who hold or held a row agree on its key) keeps `update` and
  `save` from giving a row the key that somebody is looking for.
* **SavedIsTrue.** `Truth(o)` lists what `pk`, `_saved_in_db` and the call at hand say of the
  stored rows of an instance: in the middle of `bulk_create` the instances inserted
  already have one, and while the id is asked for the only one is the row last inserted.
  A row that is private now has been private all along (lemma `Before`), so that no other
  instance's step ever changed it.
* **The parts.** Each has an invariant of its own, and a step of another part leaves its
  variables alone. *Manager:* a task is in the queue once, only its head walks
  (`WalksAlone`), and a walk has connected, or closed, what it has passed, but for what
  statements connected behind it (`woken`). *Signals:*
  `NobodyIsLost` says of a walk that whoever was there at its beginning and never went is
  among those called or still ahead; the listeners called are the beginning of the list
  (`OnlyTheBeginning`). *Caches:* the order lists each key once, by its last use; counts are
  positive just for the keys held, so the least used one is held. *Monitoring:* without an
  overlap the calls come in turn (`CallsInTurn`): at most one caller starts, the flag belongs
  to the thread that runs; a metric still to be looked at in a walk has no alert younger than
  a sleep (`AlertsApart`). *Bulk inserts:* the rows of the call, stored or in the
  transaction, are the first records sent, each in place if its columns are the first
  one's. *Schema changes:* at any time the schema is the old one with some of the tables and
  columns the diff adds (`DiffAt`), and what is missing is among the statements left; for
  model classes, a table is absent or the one its model makes. *Shipped migrations:* of the
  files that share tables only the first is ever completed.

Each inductive invariant was checked with TLC before it was proved.

Only model-checked: liveness (the prover has no ENABLED and no fairness), that is
`CallsReturn` and `EveryCallReturns`; that the five violations happen, which an example
shows and no theorem could; and what the recursive functions of `QuerySets` compute
(`TrueOf`, `IsPositive`) for a given tree: the theorems hold whatever the parts of an
expression mean, since they follow from what stands on top of it.

## 5. Hazards no property covers, or only in part

* An in-memory database whose pool closes an idle connection (`lib.rs`
  `idle_timeout`) loses its tables: time is not modelled.
* `save()` of an instance whose row another task deleted succeeds and stores
  nothing: a lost update by design of the statement, not a state that can be told
  from the intended one.
* A version whose run died before its last UPDATE is applied again, and so is one that
  another caller completed after the plan was made: repeatable statements are then in
  effect twice. A rollback by one caller may undo what another has just completed. The
  properties compare table and schema, and forbid neither.
* `connect()` after 'Not connected' may replace the pool another task has opened meanwhile;
  with an in-memory database what it stored is gone. `AcknowledgedStays` says where this
  cannot happen.
* A refused COMMIT and `TransactionContext` leave a transaction open on a pooled connection;
  what is promised of blocks ends there (`orphaned`).
* A `save()` whose question for the id fails, and a `bulk_create` that fails halfway, leave
  rows no instance knows of; a `save()` overtaken by another task's INSERT takes the wrong
  id. The properties of `Records` except these instances (`doubtful`, `overtaken`).
* `bulk_create` of an instance that is saved, or named twice in its list, stores a second
  row of it, for it looks at neither; no line of the repository forbids the call.
  `OneRowPerInstance` excepts these instances and no others (`again`).

## 6. Plan

What could follow, largest gaps first:

1. `Records` over several connections, where `last_insert_rowid()` may be asked of one that
   inserted nothing; relations and their cascades; listeners inside `save()`.
2. Joins, annotations and F expressions in `QuerySets`.

## 7. Not modelled

* **Enhanced migrations.** Each run, rollback and status call reads `result.rows` of a dict
  and ends in AttributeError after the table is ensured; no behaviour is left.
* **Fields, validators, relations.** Functions of one value, without state. The
  descriptors of relations cache one object each.
* **MultiDbEngine.** One more connected flag around a bridge, without a retry of its own;
  its attribute `is_connected` hides its method of that name.
* **The query optimizer's scores, the summaries of monitoring.** They only read.
  (The default threshold of the cache's hit rate alerts when the rate is *high*.)
* **Command line, web pages and dashboards, file and image operations,
  configuration and exceptions, benchmarks, scripts and examples.** Input and output
  only; they hold no state that several steps share.

SQL text is abstracted throughout to the effect the statement has.
