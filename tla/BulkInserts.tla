----------------------------- MODULE BulkInserts -----------------------------
(***************************************************************************)
(* Several rows in one call.  "many": Model.bulk_create, insert_many of    *)
(* oxen/engine.py and execute_*_many of src/lib.rs, one statement for each *)
(* record.  "ir": execute_ir_json of src/lib.rs, one statement for a chunk *)
(* of records.  Either is one transaction on PostgreSQL and statement by   *)
(* statement elsewhere.  A caller that gets an error may call again.       *)
(***************************************************************************)
EXTENDS Integers, Sequences, FiniteSets

CONSTANTS
    Width,        \* how many fields the model has
    Values, Null, \* Null is None, and NULL
    ChunkSize,    \* 500
    MaxRecords,   \* bound: records of a call
    MaxCalls      \* bound: calls

BulkAssumption ==
    /\ Null \notin Values /\ Width \in Nat
    /\ ChunkSize \in Nat \ {0}
    /\ {MaxRecords, MaxCalls} \subseteq Nat

(* The fields by their place in the model.                                   *)
Columns == 1 .. Width

(* An object's values; bulk_create leaves the fields that are None out of   *)
(* its record, and so does whoever builds the rows of an "ir".              *)
Records == [Columns -> Values \cup {Null}]

VARIABLES
    dialect, path,    \* of the calls
    records,          \* what is to be inserted
    done,             \* the statements executed
    table, open,      \* rows stored; rows of the open transaction
    affected,         \* total_rows_affected
    outcome,          \* of the last call
    calls,
    kept              \* history: rows stored when the call began

vars == <<dialect, path, records, done, table, open, affected, outcome, calls,
          kept>>

BulkTypeOK ==
    /\ dialect \in {"postgres", "mysql", "sqlite"} /\ path \in {"many", "ir"}
    /\ records \in Seq(Records)
    /\ done \in 0 .. Len(records) /\ affected \in Nat
    /\ table \in Seq(Records) /\ open \in Seq(Records)
    /\ outcome \in {"none", "running", "inserted", "raised"}
    /\ calls \in 0 .. MaxCalls /\ kept \in Nat

Init ==
    /\ dialect \in {"postgres", "mysql", "sqlite"} /\ path \in {"many", "ir"}
    /\ records \in UNION {[1 .. n -> Records] : n \in 1 .. MaxRecords}
    /\ done = 0 /\ affected = 0
    /\ table = <<>> /\ open = <<>>
    /\ outcome = "none"
    /\ calls = 0 /\ kept = 0

-----------------------------------------------------------------------------
(* The rows a statement inserts                                             *)

Given(r) == {c \in Columns : r[c] # Null}
Rank(r, c) == Cardinality({d \in Given(r) : d <= c})

(* insert_many: the first record's columns, and a record's values in their  *)
(* own order; a parameter that is not there is NULL to SQLite, and one too  *)
(* many is not looked at, where the others refuse both.                     *)
ByPosition(first, r) ==
    LET inPlaceOf(c) == {d \in Given(r) : Rank(r, d) = Rank(first, c)}
    IN  [c \in Columns |->
           IF c \in Given(first) /\ inPlaceOf(c) # {}
             THEN r[CHOOSE d \in inPlaceOf(c) : TRUE] ELSE Null]

(* build_sql_from_ir: the first row's columns, looked up in each row.       *)
ByName(first, r) == [c \in Columns |-> IF first[c] # Null THEN r[c] ELSE Null]

SameShape(first, r) == Cardinality(Given(first)) = Cardinality(Given(r))

Least(a, b) == IF a < b THEN a ELSE b

(* The records of the next statement.                                       *)
Batch ==
    IF path = "many" THEN <<records[done + 1]>>
    ELSE SubSeq(records, done * ChunkSize + 1,
                Least((done + 1) * ChunkSize, Len(records)))

Leader(batch) == IF path = "many" THEN records[1] ELSE batch[1]

Stored(batch) ==
    [i \in 1 .. Len(batch) |-> IF path = "many" THEN ByPosition(Leader(batch), batch[i])
                                                ELSE ByName(Leader(batch), batch[i])]

(* Are there records that no statement has sent?                            *)
Unsent == IF path = "many" THEN done < Len(records) ELSE done * ChunkSize < Len(records)

(* Without any column the statement's text is one that only MySQL takes.    *)
Refused(batch) ==
    \/ Given(Leader(batch)) = {} /\ dialect # "mysql"
    \/ /\ path = "many" /\ dialect # "sqlite"
       /\ ~SameShape(records[1], batch[1])

-----------------------------------------------------------------------------
Call ==
    /\ outcome \in {"none", "raised"} /\ calls < MaxCalls
    /\ calls' = calls + 1
    /\ outcome' = "running"
    /\ done' = 0 /\ affected' = 0
    /\ kept' = Len(table)
    /\ UNCHANGED <<dialect, path, records, table, open>>

(* Mutant: every statement commits by itself.                               *)
AtOnce == FALSE

InTransaction == dialect = "postgres"

Execute ==
    /\ outcome = "running" /\ Unsent
    /\ ~Refused(Batch)
    /\ IF InTransaction
         THEN open' = open \o Stored(Batch) /\ UNCHANGED table
         ELSE table' = table \o Stored(Batch) /\ UNCHANGED open
    /\ affected' = affected + Len(Batch)
    /\ done' = done + 1
    /\ UNCHANGED <<dialect, path, records, outcome, calls, kept>>

(* A statement that is refused, or cannot reach the database: the first     *)
(* error ends the call, and drops the transaction.                          *)
Fail ==
    /\ outcome = "running" /\ Unsent
    /\ open' = <<>>
    /\ outcome' = "raised"
    /\ UNCHANGED <<dialect, path, records, done, table, affected, calls, kept>>

Commit ==
    /\ outcome = "running" /\ ~Unsent
    /\ \/ /\ table' = table \o open
          /\ outcome' = "inserted"
       \/ /\ InTransaction
          /\ outcome' = "raised" /\ UNCHANGED table
    /\ open' = <<>>
    /\ UNCHANGED <<dialect, path, records, done, affected, calls, kept>>

Next == Call \/ Execute \/ Fail \/ Commit

Spec == Init /\ [][Next]_vars

-----------------------------------------------------------------------------
(* Properties                                                               *)

New == Len(table) - kept

(* A call that succeeds has stored one row for each record and counts them. *)
(* One that fails, and may be repeated, has stored nothing on PostgreSQL,   *)
(* and elsewhere the statements before the error and no part of another.    *)
WholeStatements ==
    /\ outcome = "inserted" => New = Len(records) /\ affected = New
    /\ outcome = "raised" =>
          IF dialect = "postgres" THEN New = 0
          ELSE New = IF path = "many" THEN done
                                      ELSE Least(done * ChunkSize, Len(records))

(* No value is stored in a column that is not its own: rows are looked up   *)
(* by name, or have all their values, or the first record's fields.         *)
NothingElsewhere ==
    outcome # "running" =>
        \A i \in 1 .. New :
            LET row == table[kept + i]
            IN  (path = "ir" \/ Given(records[i]) = Given(records[1]))
                    => \A c \in Columns : row[c] \in {records[i][c], Null}

BulkSound == WholeStatements /\ NothingElsewhere

(* "Bulk create model instances": what a successful call has stored are the *)
(* instances, every value in its own column.                                *)
InstancesAreCreated ==
    path = "many" /\ outcome = "inserted" =>
        SubSeq(table, kept + 1, Len(table)) = records
=============================================================================
