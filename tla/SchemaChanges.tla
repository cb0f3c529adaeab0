---------------------------- MODULE SchemaChanges ----------------------------
(***************************************************************************)
(* oxen/migrations/schema.py and generator.py: the migration made from two *)
(* schemas of a PostgreSQL database (compare_schemas and                   *)
(* generate_migration_sql), or from model classes                          *)
(* (generate_migration_from_models, whose id column is SQLite's), and what *)
(* its statements do when the runner executes them and rolls them back.  A *)
(* table is the types of its columns and the names of its indexes and      *)
(* constraints.                                                            *)
(***************************************************************************)
EXTENDS Integers, Sequences, FiniteSets

CONSTANTS
    Tables,
    Columns, Types, Absent,   \* columns that an inspected table may have
    Extras,       \* names of indexes and constraints
    Varchar,      \* the type "up" gives every column it adds
    Fields,       \* fields of model classes: their name, whether they have a
                  \* column, and which of Reserved their SQL text contains
    MaxFields     \* bound: fields of a model

Reserved == {"id", "created_at", "updated_at"}

SchemaAssumption ==
    /\ Varchar \in Types /\ Absent \notin Types
    /\ Fields \subseteq [name : STRING, column : BOOLEAN, mentions : SUBSET Reserved]
    /\ \A f \in Fields : f.name \in Reserved => f.name \in f.mentions
    /\ MaxFields \in Nat

AllColumns == Columns \cup Reserved \cup {f.name : f \in Fields}
NoTable == [there |-> FALSE, column |-> [c \in AllColumns |-> Absent], extras |-> {}]
Inspected(types, extras) ==
    [there  |-> TRUE,
     column |-> [c \in AllColumns |-> IF c \in Columns THEN types[c] ELSE Absent],
     extras |-> extras]
Schemas == [Tables -> {NoTable} \cup
    {Inspected(types, e) : types \in [Columns -> Types \cup {Absent}], e \in SUBSET Extras}]

VARIABLES
    models,       \* table and fields of each class, <<>> for a diff
    old, new,     \* the schemas compared
    db,           \* the database's schema
    left,         \* statements to be executed
    phase         \* of the migration

vars == <<models, old, new, db, left, phase>>

SchemaTypeOK ==
    /\ models \in Seq([table : Tables, fields : Seq(Fields)])
    /\ \A s \in {old, new, db} :
          /\ DOMAIN s = Tables
          /\ \A t \in Tables : s[t].column \in [AllColumns -> Types \cup {Absent}]
    /\ IsFiniteSet(left)
    /\ phase \in {"none", "up", "completed", "failed", "down", "rolled_back"}

(* A model has a name for each field, and what is compared has the models'  *)
(* tables in neither schema.                                                *)
FieldLists ==
    {fs \in UNION {[1 .. n -> Fields] : n \in 0 .. MaxFields} :
        \A i, j \in DOMAIN fs : i # j => fs[i].name # fs[j].name}

ModelsOf(seq) ==
    {[i \in DOMAIN seq |-> [table |-> seq[i], fields |-> fs[i]]] :
        fs \in [DOMAIN seq -> FieldLists]}

Init ==
    /\ left = {} /\ phase = "none"
    /\ \/ /\ models = <<>>
          /\ old \in Schemas /\ new \in Schemas
       \/ /\ \E seq \in [1 .. 1 -> Tables] \cup [1 .. 2 -> Tables] : models \in ModelsOf(seq)
          /\ old = [t \in Tables |-> NoTable] /\ new = old
    /\ db = old

-----------------------------------------------------------------------------
(* compare_schemas: what is removed or modified is found as well, and then  *)
(* used nowhere.                                                            *)

TablesAdded   == {t \in Tables : new[t].there /\ ~old[t].there}
TablesKept    == {t \in Tables : new[t].there /\ old[t].there}
ColumnsAdded  == {p \in TablesKept \X AllColumns :
                     /\ new[p[1]].column[p[2]] # Absent
                     /\ old[p[1]].column[p[2]] = Absent}
ExtrasAdded   == {p \in TablesKept \X Extras : p[2] \in new[p[1]].extras \ old[p[1]].extras}

Statement(rank, op, t, name) == [rank |-> rank, op |-> op, table |-> t, name |-> name]

(* generate_migration_sql; of the statements of one kind any may come first.*)
UpFromDiff ==
    {Statement(1, "create", t, "") : t \in TablesAdded}
    \cup {Statement(2, "addColumn", p[1], p[2]) : p \in ColumnsAdded}
    \cup {Statement(3, "addExtra", p[1], p[2]) : p \in ExtrasAdded}

(* Mutant: "down" forgets the columns.                                      *)
DownWithoutColumns ==
    {Statement(3, "drop", t, "") : t \in TablesAdded}

DownFromDiff ==
    {Statement(1, "dropExtra", p[1], p[2]) : p \in ExtrasAdded}
    \cup {Statement(2, "dropColumn", p[1], p[2]) : p \in ColumnsAdded}
    \cup {Statement(3, "drop", t, "") : t \in TablesAdded}

-----------------------------------------------------------------------------
(* _generate_create_tables_sql                                              *)

WithColumn(fields) == {i \in DOMAIN fields : fields[i].column /\ fields[i].name # "id"}

(* The first field with "id" anywhere in its text gives way to the id.      *)
Replaced(fields) ==
    {i \in WithColumn(fields) :
        /\ "id" \in fields[i].mentions
        /\ \A j \in WithColumn(fields) : j < i => "id" \notin fields[j].mentions}

Created(model) ==
    LET fields == model.fields
        kept   == {fields[i] : i \in WithColumn(fields) \ Replaced(fields)}
        stamps == {s \in {"created_at", "updated_at"} : \A f \in kept : s \notin f.mentions}
    IN  {f.name : f \in kept} \cup {"id"} \cup stamps

UpFromModels == {Statement(i, "createAs", models[i].table, i) : i \in DOMAIN models}
DownFromModels == {Statement(-i, "dropIfExists", models[i].table, "") : i \in DOMAIN models}

-----------------------------------------------------------------------------
(* The runner.  An index without columns and a constraint without a kind    *)
(* are syntax errors.                                                       *)

Accepted(s) ==
    CASE s.op \in {"create", "createAs"} -> ~db[s.table].there
      [] s.op \in {"addExtra", "dropExtra"} -> FALSE
      [] s.op = "addColumn" -> db[s.table].there /\ db[s.table].column[s.name] = Absent
      [] s.op = "dropColumn" -> db[s.table].there /\ db[s.table].column[s.name] # Absent
      [] s.op = "drop" -> db[s.table].there
      [] s.op = "dropIfExists" -> TRUE

EmptyTable == [NoTable EXCEPT !.there = TRUE]

After(s) ==
    CASE s.op = "create" -> EmptyTable
      [] s.op = "createAs" ->
           [EmptyTable EXCEPT !.column =
              [c \in AllColumns |-> IF c \in Created(models[s.name]) THEN Varchar ELSE Absent]]
      [] s.op = "addColumn" -> [db[s.table] EXCEPT !.column[s.name] = Varchar]
      [] s.op = "dropColumn" -> [db[s.table] EXCEPT !.column[s.name] = Absent]
      [] s.op \in {"drop", "dropIfExists"} -> NoTable

NextOnes == {s \in left : \A u \in left : s.rank <= u.rank}

Generate ==
    /\ phase = "none"
    /\ phase' = "up"
    /\ left' = IF models = <<>> THEN UpFromDiff ELSE UpFromModels
    /\ UNCHANGED <<models, old, new, db>>

Execute ==
    /\ phase = "up"
    /\ \E s \in NextOnes :
          \/ /\ Accepted(s)
             /\ db' = [db EXCEPT ![s.table] = After(s)]
             /\ left' = left \ {s} /\ UNCHANGED phase
          \/ /\ ~Accepted(s)
             /\ phase' = "failed"
             /\ left' = {} /\ UNCHANGED db
    /\ UNCHANGED <<models, old, new>>

Complete ==
    /\ phase = "up" /\ left = {}
    /\ phase' = "completed"
    /\ UNCHANGED <<models, old, new, db, left>>

(* Only a completed migration is rolled back.                               *)
Rollback ==
    /\ phase = "completed"
    /\ phase' = "down"
    /\ left' = IF models = <<>> THEN DownFromDiff ELSE DownFromModels
    /\ UNCHANGED <<models, old, new, db>>

(* A refused statement is passed over.                                      *)
Revert ==
    /\ phase = "down"
    /\ \E s \in NextOnes :
          /\ db' = IF Accepted(s) THEN [db EXCEPT ![s.table] = After(s)] ELSE db
          /\ left' = left \ {s}
    /\ UNCHANGED <<models, old, new, phase>>

Reverted ==
    /\ phase = "down" /\ left = {}
    /\ phase' = "rolled_back"
    /\ UNCHANGED <<models, old, new, db, left>>

Next == Generate \/ Execute \/ Complete \/ Rollback \/ Revert \/ Reverted

Spec == Init /\ [][Next]_vars

-----------------------------------------------------------------------------
(* Properties                                                               *)

Has(schema, t, c) == schema[t].there /\ schema[t].column[c] # Absent

(* A generated migration only ever adds: whatever else it does, and         *)
(* wherever it fails, what the old schema had is there unchanged, through   *)
(* the rollback too; rolled back, the schema is the old one again.          *)
OldSchemaSurvives ==
    /\ \A t \in Tables : old[t].there =>
          /\ db[t].there /\ old[t].extras \subseteq db[t].extras
          /\ \A c \in AllColumns : Has(old, t, c) => db[t].column[c] = old[t].column[c]
    /\ phase = "rolled_back" => db = old

(* The table of a model has an id, both time stamps or columns that mention *)
(* them, and the columns of its fields but for one at most, whose text has  *)
(* an "id" in it; a diff has, when it completes, every table and column of  *)
(* the new schema among the tables that there were.                         *)
NewSchemaIsThere ==
    phase = "completed" =>
        /\ \A m \in {models[i] : i \in DOMAIN models} :
              /\ Has(db, m.table, "id")
              /\ LET lost == {f \in {m.fields[i] : i \in DOMAIN m.fields} :
                                f.column /\ ~Has(db, m.table, f.name)}
                 IN Cardinality(lost) <= 1 /\ \A f \in lost : "id" \in f.mentions
        /\ models = <<>> => \A t \in TablesKept, c \in AllColumns :
              Has(new, t, c) => Has(db, t, c)

SchemaSound == OldSchemaSurvives /\ NewSchemaIsThere
=============================================================================
