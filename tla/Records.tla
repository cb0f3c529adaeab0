------------------------------- MODULE Records -------------------------------
(***************************************************************************)
(* oxen/models.py over one table: asyncio tasks that create, get, save,    *)
(* delete and bulk-change model instances, each task its own.  A statement *)
(* is one step; the Python code around it touches only the task's own      *)
(* instances and runs with it.  SQLite with AUTOINCREMENT ids behind one   *)
(* connection, the methods' default arguments, no signal listeners; what a *)
(* batch does with records of different columns is in BulkInserts.         *)
(***************************************************************************)
EXTENDS Integers, Functions

CONSTANTS
    Callers,       \* the tasks
    Keys,          \* the values instances are looked up by
    Kinds,         \* the calls tasks make, a subset of AllKinds
    Engines,       \* what the models are bound to, a subset of AllEngines
    Faults,        \* may the database refuse a statement?
    MaxObjects,    \* bound: instances of each task
    MaxCalls,      \* bound: calls of all tasks together
    MaxRows        \* bound: ids the table may give out

ListKinds == {"bulk_create", "bulk_update", "bulk_delete"}
AllKinds  == {"save", "update", "delete", "get", "get_or_create"} \cup ListKinds

(* UnifiedEngine of engine.py, or OxenEngine of rust_bridge.py.             *)
AllEngines == {"unified", "bridge"}

ASSUME RecordsAssumption ==
    /\ Keys # {}
    /\ Kinds \subseteq AllKinds
    /\ Engines \subseteq AllEngines
    /\ Faults \in BOOLEAN
    /\ {MaxObjects, MaxCalls, MaxRows} \subseteq Nat

Ids  == 1 .. MaxRows
Objs == Callers \X (1 .. MaxObjects)

VARIABLES
    engine,     \* the member of Engines the models are bound to
    row,        \* the table, a function of the ids in it: key, inserter, last
                \* writer, and whether get_or_create inserted it
    nextId,     \* the id the next row gets
    last,       \* last_insert_rowid() of the connection, 0 before any insert
    born,       \* how many instances each task has made
    pk, saved, key,  \* instances: pk (0 for None), _saved_in_db, their key
    own,        \* own[o]: the ids of the rows o inserted or was loaded from
    pc, todo, done, calls, \* the call of each task, the instances of its list it
                \* has still to treat and those bulk_create has inserted; the
                \* calls so far
    doubtful,   \* instances with a row nobody told them of: the call failed after it
    overtaken,  \* instances that asked for their id after somebody else's INSERT
    raced,      \* instances get_or_create made while somebody made another
    again       \* instances bulk_create inserted although they were saved, or
                \* more than once in one call

table   == <<row, nextId, last>>
present == DOMAIN row
objects == <<pk, saved, key, own>>
control == <<pc, todo, done>>
marks   == <<doubtful, overtaken, raced, again>>
vars    == <<engine, row, nextId, last, born, pk, saved, key, own,
             pc, todo, done, calls, doubtful, overtaken, raced, again>>

Phases == {"idle", "lastid", "create", "bulk_create", "bulk_update", "bulk_delete"}

AnyRow == [key : Keys, by : Objs, wrote : Objs, sought : BOOLEAN]

(* Every variable has its type.                                             *)
TypeOK ==
    /\ engine \in Engines
    /\ present \subseteq Ids /\ row \in [present -> AnyRow]
    /\ nextId \in 1 .. MaxRows + 1
    /\ last \in 0 .. MaxRows
    /\ born \in [Callers -> 0 .. MaxObjects]
    /\ pk \in [Objs -> 0 .. MaxRows]
    /\ saved \in [Objs -> BOOLEAN]
    /\ key \in [Objs -> Keys]
    /\ own \in [Objs -> SUBSET Ids]
    /\ pc \in [Callers -> Phases]
    /\ todo \in [Callers -> SUBSET Objs] /\ done \in [Callers -> SUBSET Objs]
    /\ calls \in 0 .. MaxCalls
    /\ doubtful \subseteq Objs /\ overtaken \subseteq Objs
    /\ raced \subseteq Objs /\ again \subseteq Objs

Init ==
    /\ engine \in Engines
    /\ row = <<>> /\ nextId = 1 /\ last = 0
    /\ born = [c \in Callers |-> 0]
    /\ pk = [o \in Objs |-> 0]
    /\ saved = [o \in Objs |-> FALSE]
    /\ key = [o \in Objs |-> CHOOSE k \in Keys : TRUE]
    /\ own = [o \in Objs |-> {}]
    /\ pc = [c \in Callers |-> "idle"]
    /\ todo = [c \in Callers |-> {}] /\ done = [c \in Callers |-> {}]
    /\ calls = 0
    /\ doubtful = {} /\ overtaken = {} /\ raced = {} /\ again = {}

-----------------------------------------------------------------------------
(* Tasks and their instances                                                *)

Mine(c)  == {o \in Objs : o[1] = c /\ o[2] <= born[c]}
NewOf(c) == <<c, born[c] + 1>>
Matching(k) == {i \in present : row[i].key = k}

Call(c, kind) ==
    /\ pc[c] = "idle" /\ calls < MaxCalls /\ kind \in Kinds
    /\ calls' = calls + 1

Enter(c, phase, S) ==
    /\ pc' = [pc EXCEPT ![c] = phase]
    /\ todo' = [todo EXCEPT ![c] = S]
    /\ done' = [done EXCEPT ![c] = {}]

Leave(c) == Enter(c, "idle", {})

(* On to the next of the list, which may name the same instance again.      *)
GoOn(c, o) ==
    /\ \E S \in {todo[c], todo[c] \ {o}} \ {{}} : todo' = [todo EXCEPT ![c] = S]
    /\ UNCHANGED pc

Proceed(c, o) == (GoOn(c, o) /\ UNCHANGED done) \/ (todo[c] = {o} /\ Leave(c))

(* Model(...): nothing in the table yet.                                    *)
Construct(c, k) ==
    /\ pc[c] = "idle" /\ born[c] < MaxObjects
    /\ born' = [born EXCEPT ![c] = @ + 1]
    /\ key' = [key EXCEPT ![NewOf(c)] = k]
    /\ UNCHANGED <<engine, table, pk, saved, own, control, calls, marks>>

(* Model._init_from_db                                                      *)
LoadFrom(c, i) ==
    /\ born' = [born EXCEPT ![c] = @ + 1]
    /\ pk' = [pk EXCEPT ![NewOf(c)] = i]
    /\ saved' = [saved EXCEPT ![NewOf(c)] = TRUE]
    /\ key' = [key EXCEPT ![NewOf(c)] = row[i].key]
    /\ own' = [own EXCEPT ![NewOf(c)] = {i}]

(* Model.get: a SELECT with LIMIT 1, so any of the matching rows.           *)
Get(c, k) ==
    /\ Call(c, "get") /\ born[c] < MaxObjects
    /\ \E i \in Matching(k) : LoadFrom(c, i)
    /\ UNCHANGED <<engine, table, control, marks>>

(* DoesNotExist: a new instance, still to insert.                           *)
Prepare(c, k) ==
    /\ born' = [born EXCEPT ![c] = @ + 1]
    /\ key' = [key EXCEPT ![NewOf(c)] = k]
    /\ Enter(c, "create", {NewOf(c)})
    /\ UNCHANGED <<pk, saved, own>>

(* Mutant: the search always comes back empty.                              *)
FindNothing(c, k) == Prepare(c, k)

Find(c, k) ==
    \/ \E i \in Matching(k) : LoadFrom(c, i) /\ UNCHANGED control
    \/ Matching(k) = {} /\ Prepare(c, k)

GetOrCreate(c, k) ==
    /\ Call(c, "get_or_create") /\ born[c] < MaxObjects
    /\ Find(c, k)
    /\ UNCHANGED <<engine, table, marks>>

-----------------------------------------------------------------------------
(* INSERT: save() of an instance that is not in the database, bulk_create   *)

(* Those between their own INSERT and the question for its id,              *)
AskingIds(c) == UNION {todo[d] : d \in {d \in Callers \ {c} : pc[d] = "lastid"}}
(* and those between a search that found nothing and its INSERT.            *)
Seekers(c, k) ==
    {o \in UNION {todo[d] : d \in {d \in Callers \ {c} : pc[d] = "create"}} : key[o] = k}

(* The pk, once set, is among the values; otherwise the database gives one. *)
IdFor(o) == IF pk[o] = 0 THEN nextId ELSE pk[o]

InsertRow(c, o) ==
    LET i == IdFor(o) IN
    /\ i \notin present
    /\ row' = [j \in present \cup {i} |->
                  IF j = i THEN [key |-> key[o], by |-> o, wrote |-> o,
                                 sought |-> pc[c] = "create"]
                           ELSE row[j]]
    /\ nextId' = IF i = nextId THEN i + 1 ELSE nextId
    /\ last' = i
    /\ own' = [own EXCEPT ![o] = @ \cup {i}]
    /\ overtaken' = overtaken \cup AskingIds(c)
    /\ raced' = raced \cup Seekers(c, key[o])

(* Mutant: save() does not note that the row is there.                      *)
ForgetSaved(c, o) == Leave(c) /\ UNCHANGED saved

(* The answer to the INSERT: UnifiedEngine's has no id in it; the bridge    *)
(* first asks for it in a statement of its own.                             *)
Inserted(c, o) ==
    IF engine = "bridge"
      THEN Enter(c, "lastid", {o}) /\ UNCHANGED saved
      ELSE Leave(c) /\ saved' = [saved EXCEPT ![o] = TRUE]

Insert(c, o) ==
    /\ \/ Call(c, "save") /\ o \in Mine(c) /\ ~saved[o]
       \/ pc[c] = "create" /\ o \in todo[c] /\ UNCHANGED calls
    /\ IdFor(o) \in Ids
    /\ \/ InsertRow(c, o) /\ Inserted(c, o)
       \/ /\ IdFor(o) \in present \/ Faults
          /\ Leave(c) /\ UNCHANGED <<table, saved, own, overtaken, raced>>
    /\ UNCHANGED <<engine, born, pk, key, doubtful, again>>

(* Mutant: the first row of the table instead of the last.                  *)
AskFirst(o) == pk' = [pk EXCEPT ![o] = 1]

(* Mutant: the id after the last.                                           *)
AskNext(o) == pk' = [pk EXCEPT ![o] = last + 1]

(* SELECT last_insert_rowid(): the id of the connection's latest INSERT,    *)
(* whoever's it was.                                                        *)
AskLast(o) == pk' = [pk EXCEPT ![o] = last]

LastId(c) ==
    /\ pc[c] = "lastid"
    /\ \E o \in todo[c] :
         \/ AskLast(o) /\ saved' = [saved EXCEPT ![o] = TRUE] /\ UNCHANGED doubtful
         \/ Faults /\ doubtful' = doubtful \cup {o} /\ UNCHANGED <<pk, saved>>
    /\ Leave(c)
    /\ UNCHANGED <<engine, table, born, key, own, calls, overtaken, raced, again>>

(* bulk_create looks neither at _saved_in_db nor whether the list names an  *)
(* instance twice.                                                          *)
Relisted(c, o) == again' = IF saved[o] \/ o \in done[c] THEN again \cup {o} ELSE again

(* bulk_create: one INSERT per row, the instances told after the last one;  *)
(* no last_id is in the result, so they stay without a pk.                  *)
BulkCreate(c, o) ==
    /\ pc[c] = "bulk_create" /\ o \in todo[c] /\ IdFor(o) \in Ids
    /\ \/ /\ InsertRow(c, o) /\ Relisted(c, o)
          /\ \/ /\ GoOn(c, o) /\ UNCHANGED saved
                /\ done' = [done EXCEPT ![c] = @ \cup {o}]
             \/ /\ todo[c] = {o} /\ Leave(c)
                /\ saved' = [p \in Objs |-> saved[p] \/ p \in done[c] \cup {o}]
          /\ UNCHANGED doubtful
       \/ /\ Faults \/ IdFor(o) \in present
          /\ doubtful' = doubtful \cup done[c]
          /\ Leave(c) /\ UNCHANGED <<table, saved, own, overtaken, raced, again>>
    /\ UNCHANGED <<engine, born, pk, key, calls>>

-----------------------------------------------------------------------------
(* UPDATE and DELETE                                                        *)

(* WHERE pk = ...: a row that is gone is not missed.                        *)
UpdateRow(o) ==
    row' = IF pk[o] \in present
             THEN [row EXCEPT ![pk[o]].wrote = o, ![pk[o]].key = key[o]] ELSE row

Update(c, o) ==
    /\ \/ Call(c, "save") /\ saved[o]
       \/ Call(c, "update")
    /\ o \in Mine(c) /\ pk[o] # 0
    /\ UpdateRow(o) \/ (Faults /\ UNCHANGED row)
    /\ UNCHANGED <<engine, nextId, last, born, objects, control, marks>>

(* Mutant: the instance still counts as saved.                              *)
StaySaved(o) == saved' = saved

Unsaved(o) == saved' = [saved EXCEPT ![o] = FALSE]

Deleted(o) == row' = Restrict(row, present \ {pk[o]}) /\ Unsaved(o)
Refused == Faults /\ UNCHANGED <<row, saved>>

Delete(c, o) ==
    /\ Call(c, "delete") /\ o \in Mine(c) /\ pk[o] # 0
    /\ Deleted(o) \/ Refused
    /\ UNCHANGED <<engine, nextId, last, born, pk, key, own, control, marks>>

-----------------------------------------------------------------------------
(* Calls on a list of instances                                             *)

BeginBulk(c, kind, S) ==
    /\ Call(c, kind) /\ S # {}
    /\ Enter(c, kind, S)
    /\ UNCHANGED <<engine, table, born, objects, marks>>

(* An instance without a pk ends the call.                                  *)
NoPk(c, o) == pk[o] = 0 /\ Leave(c)

(* An error result of UnifiedEngine is passed over; the bridge raises.      *)
AfterRefusal(c, o) == IF engine = "bridge" THEN Leave(c) ELSE Proceed(c, o)

BulkUpdate(c, o) ==
    /\ pc[c] = "bulk_update" /\ o \in todo[c]
    /\ \/ NoPk(c, o) /\ UNCHANGED row
       \/ pk[o] # 0 /\ UpdateRow(o) /\ Proceed(c, o)
       \/ pk[o] # 0 /\ Faults /\ UNCHANGED row /\ AfterRefusal(c, o)
    /\ UNCHANGED <<engine, nextId, last, born, objects, calls, marks>>

BulkDelete(c, o) ==
    /\ pc[c] = "bulk_delete" /\ o \in todo[c]
    /\ \/ NoPk(c, o) /\ UNCHANGED <<row, saved>>
       \/ pk[o] # 0 /\ Deleted(o) /\ Proceed(c, o)
       \/ pk[o] # 0 /\ Refused /\ AfterRefusal(c, o)
    /\ UNCHANGED <<engine, nextId, last, born, pk, key, own, calls, marks>>

-----------------------------------------------------------------------------
OfInstance(c, o) ==
    \/ Insert(c, o) \/ Update(c, o) \/ Delete(c, o)
    \/ BulkCreate(c, o) \/ BulkUpdate(c, o) \/ BulkDelete(c, o)

Act(c) ==
    \/ \E k \in Keys : Construct(c, k) \/ Get(c, k) \/ GetOrCreate(c, k)
    \/ \E o \in Mine(c) : OfInstance(c, o)
    \/ LastId(c)
    \/ \E S \in SUBSET Mine(c), kind \in ListKinds : BeginBulk(c, kind, S)

Next == \E c \in Callers : Act(c)

Spec == Init /\ [][Next]_vars

-----------------------------------------------------------------------------
(* The instances whose row a call inserted and has not told them of yet.    *)
InTransit ==
    LET callers(phase) == {c \in Callers : pc[c] = phase}
    IN UNION ({todo[c] : c \in callers("lastid")}
              \cup {done[c] : c \in callers("bulk_create")})

(* An instance never has two rows in the table, however often it is saved,  *)
(* deleted and saved again, unless a call failed after inserting one, the   *)
(* bridge told it another's id, or bulk_create - which does not look - was  *)
(* given it when it was saved, or twice.                                    *)
OneRowPerInstance ==
    \A i, j \in present :
        /\ row[i].by = row[j].by
        /\ row[i].by \notin doubtful \cup overtaken \cup again
        => i = j

(* Two rows of one key that get_or_create inserted come from a race: the    *)
(* later of them was inserted after a search that another call made stale.  *)
DuplicatesOnlyFromRaces ==
    overtaken = {} =>
        \A i, j \in present :
            /\ i < j /\ row[i].key = row[j].key
            /\ row[i].sought /\ row[j].sought
            => row[j].by \in raced

(* Rows nobody else holds an instance of                                    *)
Private(o) == \A p \in Objs \ {o} : own[p] \cap own[o] = {}

(* _saved_in_db tells the truth between calls, for an instance whose rows   *)
(* are its own: it is set if and only if one of them is in the table.       *)
SavedMeansStored ==
    overtaken = {} =>
        \A o \in Objs \ (doubtful \cup InTransit) :
            Private(o) => (saved[o] <=> own[o] \cap present # {})

(* As long as nobody is overtaken, the last writer of a row is an instance  *)
(* that inserted it or was loaded from it.                                  *)
WritersHoldTheirRows ==
    overtaken = {} => \A i \in present : i \in own[row[i].wrote]
=============================================================================
