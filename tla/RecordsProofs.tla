---------------------------- MODULE RecordsProofs ----------------------------
(* Theorems about Records, for any number of tasks, instances, rows and      *)
(* calls.                                                                    *)
EXTENDS Records, TLAPS

RowsBy(o) == {i \in present : row[i].by = o}

(* The instances a task has in its hands are its own.                        *)
Belongs ==
    \A c \in Callers :
        /\ todo[c] \subseteq Mine(c) /\ done[c] \subseteq Mine(c)
        /\ pc[c] = "idle" => todo[c] = {}
        /\ pc[c] # "bulk_create" => done[c] = {}
        /\ pc[c] = "lastid" => \A o, p \in todo[c] : o = p

Unborn == {o \in Objs : o[2] > born[o[1]]}

(* Nobody has seen the instances to come.                                    *)
UnbornIsNew ==
    \A o \in Unborn : RowsBy(o) = {} /\ ~saved[o] /\ pk[o] = 0 /\ own[o] = {}

(* It has a row that the call under way has not told it of.                  *)
Untold(o) ==
    \/ pc[o[1]] = "lastid" /\ o \in todo[o[1]]
    \/ pc[o[1]] = "bulk_create" /\ o \in done[o[1]]

(* What an instance knows about the row it inserted.                         *)
Tidy(o) ==
    /\ \A i, j \in RowsBy(o) : i = j
    /\ pk[o] # 0 => RowsBy(o) \subseteq {pk[o]}
    /\ ~saved[o] /\ RowsBy(o) # {} => Untold(o)
    /\ pc[o[1]] = "lastid" /\ o \in todo[o[1]] => RowsBy(o) \subseteq {last}
    /\ pc[o[1]] = "create" /\ o \in todo[o[1]] => RowsBy(o) = {}

Sure == Objs \ (doubtful \cup overtaken \cup again)

(* What an instance that was never overtaken takes for its row is its own.   *)
Holds ==
    /\ \A o \in Objs : pk[o] # 0 => pk[o] \in own[o]
    /\ \A c \in Callers : pc[c] = "lastid" => \A o \in todo[c] : last \in own[o]
    /\ \A i \in present : i \in own[row[i].wrote]

IInv ==
    /\ TypeOK /\ Belongs /\ UnbornIsNew
    /\ \A o \in Sure : Tidy(o)
    /\ overtaken = {} => Holds

-----------------------------------------------------------------------------
(* The table                                                                 *)

RowOf(c, o) == [key |-> key[o], by |-> o, wrote |-> o, sought |-> pc[c] = "create"]

LEMMA RowOfType ==
    ASSUME TypeOK, NEW c \in Callers, NEW o \in Objs
    PROVE  RowOf(c, o) \in AnyRow
<1>1. (pc[c] = "create") \in BOOLEAN
  OBVIOUS
<1>2. key[o] \in Keys
  BY DEF TypeOK
<1> QED
  BY <1>1, <1>2 DEF RowOf, AnyRow

(* An inserted row is there, and the others are as they were.                *)
LEMMA InsertedRow ==
    ASSUME TypeOK, NEW c \in Callers, NEW o \in Objs, IdFor(o) \in Ids, InsertRow(c, o)
    PROVE  /\ IdFor(o) \notin present
           /\ present' = present \cup {IdFor(o)}
           /\ present' \subseteq Ids /\ row' \in [present' -> AnyRow]
           /\ row'[IdFor(o)] = RowOf(c, o)
           /\ \A i \in present : row'[i] = row[i]
<1> DEFINE i == IdFor(o)
<1>1. i \notin present
  BY DEF InsertRow
<1>2. row' = [j \in present \cup {i} |-> IF j = i THEN RowOf(c, o) ELSE row[j]]
  BY DEF InsertRow, RowOf
<1>3. present' = present \cup {i}
  BY <1>2 DEF present
<1>4. row \in [present -> AnyRow] /\ present \subseteq Ids
  BY DEF TypeOK
<1> QED
  BY <1>1, <1>2, <1>3, <1>4, RowOfType

LEMMA UpdatedRow ==
    ASSUME TypeOK, NEW o \in Objs, UpdateRow(o)
    PROVE  /\ present' = present /\ row' \in [present -> AnyRow]
           /\ \A i \in present :
                /\ row'[i].by = row[i].by
                /\ row'[i].wrote = row[i].wrote \/ (i = pk[o] /\ row'[i].wrote = o)
<1>1. row \in [present -> AnyRow] /\ key[o] \in Keys
  BY DEF TypeOK
<1>2. CASE pk[o] \notin present
  BY <1>1, <1>2 DEF UpdateRow, present
<1>3. CASE pk[o] \in present
  <2> DEFINE r == [row[pk[o]] EXCEPT !.wrote = o, !.key = key[o]]
  <2>1. row' = [row EXCEPT ![pk[o]] = r]
    BY <1>1, <1>3 DEF UpdateRow, AnyRow
  <2>2. r \in AnyRow /\ r.by = row[pk[o]].by /\ r.wrote = o
    BY <1>1, <1>3 DEF AnyRow
  <2> QED
    BY <1>1, <1>3, <2>1, <2>2 DEF present
<1> QED
  BY <1>2, <1>3

LEMMA DeletedRow ==
    ASSUME TypeOK, NEW o \in Objs, Deleted(o)
    PROVE  /\ present' = present \ {pk[o]} /\ row' \in [present' -> AnyRow]
           /\ \A i \in present' : row'[i] = row[i]
<1>1. row \in [present -> AnyRow]
  BY DEF TypeOK
<1>2. row' = [i \in present \ {pk[o]} |-> row[i]]
  BY DEF Deleted, Restrict
<1> QED
  BY <1>1, <1>2 DEF present

-----------------------------------------------------------------------------
(* Types                                                                     *)

LEMMA Bounds == MaxObjects \in Nat /\ MaxCalls \in Nat /\ MaxRows \in Nat
  BY RecordsAssumption

LEMMA NewType ==
    ASSUME TypeOK, NEW c \in Callers, born[c] < MaxObjects
    PROVE  /\ NewOf(c) \in Unborn /\ NewOf(c)[1] = c
           /\ born[c] + 1 \in 0 .. MaxObjects
           /\ \A o \in Objs \ {NewOf(c)} :
                o[2] > [born EXCEPT ![c] = @ + 1][o[1]] <=> o[2] > born[o[1]]
           /\ NewOf(c)[2] = [born EXCEPT ![c] = @ + 1][c]
  BY Bounds DEF NewOf, Unborn, Objs, TypeOK

(* Entering, going on in and leaving a call.                                 *)
LEMMA EnterType ==
    ASSUME TypeOK, NEW c \in Callers, NEW phase \in Phases, NEW S \in SUBSET Objs,
           Enter(c, phase, S)
    PROVE  /\ pc' \in [Callers -> Phases]
           /\ todo' \in [Callers -> SUBSET Objs] /\ done' \in [Callers -> SUBSET Objs]
  BY DEF Enter, TypeOK

LEMMA LeaveType ==
    ASSUME TypeOK, NEW c \in Callers, Leave(c)
    PROVE  /\ pc' \in [Callers -> Phases]
           /\ todo' \in [Callers -> SUBSET Objs] /\ done' \in [Callers -> SUBSET Objs]
  BY EnterType DEF Leave, Phases

LEMMA GoOnType ==
    ASSUME TypeOK, NEW c \in Callers, NEW o, GoOn(c, o)
    PROVE  pc' \in [Callers -> Phases] /\ todo' \in [Callers -> SUBSET Objs]
<1>1. PICK S \in {todo[c], todo[c] \ {o}} : todo' = [todo EXCEPT ![c] = S]
  BY DEF GoOn
<1>2. S \subseteq Objs
  BY DEF TypeOK
<1> QED
  BY <1>1, <1>2 DEF GoOn, TypeOK

LEMMA ProceedType ==
    ASSUME TypeOK, NEW c \in Callers, NEW o \in Objs, Proceed(c, o)
    PROVE  /\ pc' \in [Callers -> Phases]
           /\ todo' \in [Callers -> SUBSET Objs] /\ done' \in [Callers -> SUBSET Objs]
<1>1. CASE Leave(c)
  BY <1>1, LeaveType
<1>2. CASE GoOn(c, o) /\ UNCHANGED done
  BY <1>2, GoOnType DEF TypeOK
<1> QED
  BY <1>1, <1>2 DEF Proceed

LEMMA CallType ==
    ASSUME TypeOK, NEW c \in Callers, NEW kind, Call(c, kind)
    PROVE  calls' \in 0 .. MaxCalls /\ pc[c] = "idle"
  BY Bounds DEF Call, TypeOK

LEMMA LoadFromType ==
    ASSUME TypeOK, NEW c \in Callers, born[c] < MaxObjects, NEW i \in present, LoadFrom(c, i)
    PROVE  /\ born' \in [Callers -> 0 .. MaxObjects]
           /\ pk' \in [Objs -> 0 .. MaxRows] /\ saved' \in [Objs -> BOOLEAN]
           /\ key' \in [Objs -> Keys] /\ own' \in [Objs -> SUBSET Ids]
<1>1. NewOf(c) \in Objs /\ born[c] + 1 \in 0 .. MaxObjects
  BY NewType DEF Unborn
<1>2. i \in Ids /\ row[i].key \in Keys
  BY DEF TypeOK, AnyRow
<1>3. i \in 0 .. MaxRows
  BY <1>2, Bounds DEF Ids
<1> QED
  BY <1>1, <1>2, <1>3 DEF LoadFrom, TypeOK

LEMMA PrepareType ==
    ASSUME TypeOK, NEW c \in Callers, born[c] < MaxObjects, NEW k \in Keys, Prepare(c, k)
    PROVE  /\ born' \in [Callers -> 0 .. MaxObjects] /\ key' \in [Objs -> Keys]
           /\ pc' \in [Callers -> Phases]
           /\ todo' \in [Callers -> SUBSET Objs] /\ done' \in [Callers -> SUBSET Objs]
<1>1. NewOf(c) \in Objs /\ born[c] + 1 \in 0 .. MaxObjects
  BY NewType DEF Unborn
<1>2. {NewOf(c)} \in SUBSET Objs /\ "create" \in Phases
  BY <1>1 DEF Phases
<1>3. Enter(c, "create", {NewOf(c)})
  BY DEF Prepare
<1> QED
  BY <1>1, <1>2, <1>3, EnterType DEF Prepare, TypeOK

LEMMA InsertRowType ==
    ASSUME TypeOK, NEW c \in Callers, NEW o \in Objs, IdFor(o) \in Ids, InsertRow(c, o)
    PROVE  /\ present' \subseteq Ids /\ row' \in [present' -> AnyRow]
           /\ nextId' \in 1 .. MaxRows + 1 /\ last' \in 0 .. MaxRows
           /\ own' \in [Objs -> SUBSET Ids]
           /\ overtaken' \subseteq Objs /\ raced' \subseteq Objs
<1>1. AskingIds(c) \subseteq Objs /\ Seekers(c, key[o]) \subseteq Objs
  BY DEF AskingIds, Seekers, TypeOK
<1>2. IdFor(o) \in 1 .. MaxRows /\ MaxRows \in Nat
  BY Bounds DEF Ids
<1>3. nextId' \in 1 .. MaxRows + 1 /\ last' \in 0 .. MaxRows
  BY <1>2 DEF InsertRow, TypeOK
<1>4. own' \in [Objs -> SUBSET Ids]
  BY DEF InsertRow, TypeOK
<1>5. overtaken' \subseteq Objs /\ raced' \subseteq Objs
  BY <1>1 DEF InsertRow, TypeOK
<1> QED
  BY <1>3, <1>4, <1>5, InsertedRow

LEMMA MineIs == \A c : Mine(c) \subseteq Objs
  BY DEF Mine

(* The three ways a row of bulk_create goes: it is inserted and others or    *)
(* none follow, or it is refused.                                            *)
BulkGoesOn(c, o) ==
    /\ GoOn(c, o) /\ UNCHANGED saved
    /\ done' = [done EXCEPT ![c] = @ \cup {o}]
BulkEnds(c, o) ==
    /\ todo[c] = {o} /\ Leave(c)
    /\ saved' = [p \in Objs |-> saved[p] \/ p \in done[c] \cup {o}]
BulkFails(c, o) ==
    /\ doubtful' = doubtful \cup done[c]
    /\ Leave(c) /\ UNCHANGED <<table, saved, own, overtaken, raced, again>>

LEMMA BulkCases ==
    ASSUME NEW c, NEW o, BulkCreate(c, o)
    PROVE  \/ /\ InsertRow(c, o) /\ Relisted(c, o) /\ UNCHANGED doubtful
              /\ BulkGoesOn(c, o) \/ BulkEnds(c, o)
           \/ BulkFails(c, o)
  BY DEF BulkCreate, BulkGoesOn, BulkEnds, BulkFails

LEMMA InitType == Init => TypeOK
<1> SUFFICES ASSUME Init PROVE TypeOK
  OBVIOUS
<1>1. row \in [present -> AnyRow] /\ present \subseteq Ids
  BY DEF Init, present
<1>2. key \in [Objs -> Keys]
  BY RecordsAssumption DEF Init
<1> QED
  BY <1>1, <1>2, Bounds DEF Init, TypeOK, Phases, Ids

LEMMA NextType == TypeOK /\ [Next]_vars => TypeOK'
<1> SUFFICES ASSUME TypeOK, [Next]_vars PROVE TypeOK'
  OBVIOUS
<1> USE DEF present
<1>1. ASSUME NEW c \in Callers, NEW k \in Keys, Construct(c, k) PROVE TypeOK'
  <2>1. NewOf(c) \in Objs /\ born[c] + 1 \in 0 .. MaxObjects
    BY <1>1, NewType DEF Construct, Unborn
  <2> QED
    BY <1>1, <2>1 DEF Construct, TypeOK, table, control, marks
<1>2. ASSUME NEW c \in Callers, NEW k \in Keys, Get(c, k) PROVE TypeOK'
  <2>1. PICK i \in present : LoadFrom(c, i)
    BY <1>2 DEF Get, Matching
  <2>2. calls' \in 0 .. MaxCalls /\ born[c] < MaxObjects
    BY <1>2, CallType DEF Get
  <2> QED
    BY <1>2, <2>1, <2>2, LoadFromType DEF Get, TypeOK, table, control, marks
<1>3. ASSUME NEW c \in Callers, NEW k \in Keys, GetOrCreate(c, k) PROVE TypeOK'
  <2>1. calls' \in 0 .. MaxCalls /\ born[c] < MaxObjects
    BY <1>3, CallType DEF GetOrCreate
  <2>2. CASE \E i \in Matching(k) : LoadFrom(c, i) /\ UNCHANGED control
    <3>1. PICK i \in present : LoadFrom(c, i) /\ UNCHANGED control
      BY <2>2 DEF Matching
    <3> QED
      BY <1>3, <2>1, <3>1, LoadFromType DEF GetOrCreate, TypeOK, table, control, marks
  <2>3. CASE Prepare(c, k)
    <3>1. UNCHANGED <<pk, saved, own>>
      BY <2>3 DEF Prepare
    <3> QED
      BY <1>3, <2>1, <2>3, <3>1, PrepareType DEF GetOrCreate, TypeOK, table, marks
  <2> QED
    BY <1>3, <2>2, <2>3 DEF GetOrCreate, Find
<1>4. ASSUME NEW c \in Callers, NEW o \in Objs, Insert(c, o) PROVE TypeOK'
  <2>1. calls' \in 0 .. MaxCalls /\ IdFor(o) \in Ids
    BY <1>4, CallType DEF Insert, TypeOK
  <2>2. CASE InsertRow(c, o) /\ Inserted(c, o)
    <3>1. saved' \in [Objs -> BOOLEAN]
      BY <2>2 DEF Inserted, TypeOK
    <3>2. {o} \in SUBSET Objs /\ "lastid" \in Phases
      BY DEF Phases
    <3>3. /\ pc' \in [Callers -> Phases]
          /\ todo' \in [Callers -> SUBSET Objs] /\ done' \in [Callers -> SUBSET Objs]
      BY <2>2, <3>2, EnterType, LeaveType DEF Inserted
    <3> QED
      BY <1>4, <2>1, <2>2, <3>1, <3>3, InsertRowType DEF Insert, TypeOK
  <2>3. CASE Leave(c) /\ UNCHANGED <<table, saved, own, overtaken, raced>>
    BY <1>4, <2>1, <2>3, LeaveType DEF Insert, TypeOK, table
  <2> QED
    BY <1>4, <2>2, <2>3 DEF Insert
<1>5. ASSUME NEW c \in Callers, NEW o \in Objs, Update(c, o) PROVE TypeOK'
  <2>1. calls' \in 0 .. MaxCalls
    BY <1>5, CallType DEF Update
  <2>2. row' \in [present' -> AnyRow] /\ present' \subseteq Ids
    BY <1>5, UpdatedRow DEF Update, TypeOK
  <2> QED
    BY <1>5, <2>1, <2>2 DEF Update, TypeOK, objects, control, marks
<1>6. ASSUME NEW c \in Callers, NEW o \in Objs, Delete(c, o) PROVE TypeOK'
  <2>1. calls' \in 0 .. MaxCalls
    BY <1>6, CallType DEF Delete
  <2>2. /\ row' \in [present' -> AnyRow] /\ present' \subseteq Ids
        /\ saved' \in [Objs -> BOOLEAN]
    BY <1>6, DeletedRow DEF Delete, Deleted, Unsaved, Refused, TypeOK
  <2> QED
    BY <1>6, <2>1, <2>2 DEF Delete, TypeOK, control, marks
<1>7. ASSUME NEW c \in Callers, NEW o \in Objs, BulkCreate(c, o) PROVE TypeOK'
  <2>1. IdFor(o) \in Ids /\ UNCHANGED <<engine, born, pk, key, calls>>
    BY <1>7 DEF BulkCreate
  <2>2. CASE InsertRow(c, o) /\ Relisted(c, o) /\ UNCHANGED doubtful
             /\ (BulkGoesOn(c, o) \/ BulkEnds(c, o))
    <3>1. again' \subseteq Objs
      BY <2>2 DEF Relisted, TypeOK
    <3>2. CASE BulkGoesOn(c, o)
      <4>1. done' \in [Callers -> SUBSET Objs]
        BY <3>2 DEF BulkGoesOn, TypeOK
      <4> QED
        BY <2>1, <2>2, <3>1, <3>2, <4>1, InsertRowType, GoOnType DEF BulkGoesOn, TypeOK
    <3>3. CASE BulkEnds(c, o)
      <4>1. saved' \in [Objs -> BOOLEAN]
        BY <3>3, Zenon DEF BulkEnds, TypeOK
      <4> QED
        BY <2>1, <2>2, <3>1, <3>3, <4>1, InsertRowType, LeaveType DEF BulkEnds, TypeOK
    <3> QED
      BY <2>2, <3>2, <3>3
  <2>3. CASE BulkFails(c, o)
    BY <2>1, <2>3, LeaveType DEF BulkFails, TypeOK, table
  <2> QED
    BY <1>7, <2>2, <2>3, BulkCases
<1>8. ASSUME NEW c \in Callers, NEW o \in Objs, BulkUpdate(c, o) PROVE TypeOK'
  <2>1. row' \in [present' -> AnyRow] /\ present' \subseteq Ids
    BY <1>8, UpdatedRow DEF BulkUpdate, TypeOK
  <2>2. Leave(c) \/ Proceed(c, o)
    BY <1>8 DEF BulkUpdate, NoPk, AfterRefusal
  <2> QED
    BY <1>8, <2>1, <2>2, LeaveType, ProceedType DEF BulkUpdate, TypeOK, objects, marks
<1>9. ASSUME NEW c \in Callers, NEW o \in Objs, BulkDelete(c, o) PROVE TypeOK'
  <2>1. /\ row' \in [present' -> AnyRow] /\ present' \subseteq Ids
        /\ saved' \in [Objs -> BOOLEAN]
    BY <1>9, DeletedRow DEF BulkDelete, Deleted, Unsaved, Refused, TypeOK
  <2>2. Leave(c) \/ Proceed(c, o)
    BY <1>9 DEF BulkDelete, NoPk, AfterRefusal
  <2> QED
    BY <1>9, <2>1, <2>2, LeaveType, ProceedType DEF BulkDelete, TypeOK, marks
<1>10. ASSUME NEW c \in Callers, LastId(c) PROVE TypeOK'
  <2>1. /\ pk' \in [Objs -> 0 .. MaxRows] /\ saved' \in [Objs -> BOOLEAN]
        /\ doubtful' \subseteq Objs
    <3>1. PICK o \in todo[c] :
             \/ AskLast(o) /\ saved' = [saved EXCEPT ![o] = TRUE] /\ UNCHANGED doubtful
             \/ doubtful' = doubtful \cup {o} /\ UNCHANGED <<pk, saved>>
      BY <1>10 DEF LastId
    <3>2. o \in Objs /\ last \in 0 .. MaxRows
      BY DEF TypeOK
    <3>3. CASE AskLast(o) /\ saved' = [saved EXCEPT ![o] = TRUE] /\ UNCHANGED doubtful
      BY <3>2, <3>3 DEF AskLast, TypeOK
    <3>4. CASE doubtful' = doubtful \cup {o} /\ UNCHANGED <<pk, saved>>
      BY <3>2, <3>4 DEF TypeOK
    <3> QED
      BY <3>1, <3>3, <3>4
  <2>2. Leave(c) /\ UNCHANGED <<engine, table, born, key, own, calls, overtaken, raced, again>>
    BY <1>10 DEF LastId
  <2> QED
    BY <2>1, <2>2, LeaveType DEF TypeOK, table
<1>11. ASSUME NEW c \in Callers, NEW S \in SUBSET Mine(c), NEW kind \in ListKinds,
              BeginBulk(c, kind, S)
       PROVE  TypeOK'
  <2>1. calls' \in 0 .. MaxCalls /\ kind \in Phases /\ S \in SUBSET Objs
    BY <1>11, CallType DEF BeginBulk, Phases, ListKinds, Mine
  <2> QED
    BY <1>11, <2>1, EnterType DEF BeginBulk, TypeOK, table, objects, marks
<1>12. CASE UNCHANGED vars
  BY <1>12 DEF vars, TypeOK
<1> QED
  BY <1>1, <1>2, <1>3, <1>4, <1>5, <1>6, <1>7, <1>8, <1>9, <1>10, <1>11, <1>12,
     MineIs DEF Next, Act, OfInstance

(* Every state has its types.                                                *)
THEOREM TypeCorrect == Spec => []TypeOK
  BY InitType, NextType, PTL DEF Spec

-----------------------------------------------------------------------------
(* What a step does to the table, seen by inserter                           *)

LEMMA RowsByInserted ==
    ASSUME TypeOK, NEW c \in Callers, NEW o \in Objs, IdFor(o) \in Ids, InsertRow(c, o)
    PROVE  /\ RowsBy(o)' = RowsBy(o) \cup {IdFor(o)}
           /\ \A p \in Objs \ {o} : RowsBy(p)' = RowsBy(p)
<1> DEFINE i == IdFor(o)
<1>1. /\ i \notin present /\ present' = present \cup {i}
      /\ row'[i] = RowOf(c, o) /\ \A j \in present : row'[j] = row[j]
  BY InsertedRow
<1>2. row'[i].by = o
  BY <1>1 DEF RowOf
<1>3. \A p \in Objs : RowsBy(p)' = {j \in present' : row'[j].by = p}
  BY DEF RowsBy
<1> HIDE DEF i
<1>4. \A p \in Objs : RowsBy(p)' = RowsBy(p) \cup (IF p = o THEN {i} ELSE {})
  BY <1>1, <1>2, <1>3 DEF RowsBy
<1> QED
  BY <1>4 DEF i

LEMMA RowsByUpdated ==
    ASSUME TypeOK, NEW o \in Objs, UpdateRow(o), NEW p \in Objs
    PROVE  RowsBy(p)' = RowsBy(p)
  BY UpdatedRow DEF RowsBy

LEMMA RowsByDeleted ==
    ASSUME TypeOK, NEW o \in Objs, Deleted(o), NEW p \in Objs
    PROVE  RowsBy(p)' = RowsBy(p) \ {pk[o]}
  BY DeletedRow DEF RowsBy

LEMMA RowsBySame ==
    ASSUME row' = row, NEW p \in Objs
    PROVE  RowsBy(p)' = RowsBy(p)
  BY DEF RowsBy, present

(* The control of the other tasks, and their instances, are left alone.      *)
Elsewhere(c) ==
    \A d \in Callers \ {c} :
        /\ pc'[d] = pc[d] /\ todo'[d] = todo[d] /\ done'[d] = done[d]
        /\ born'[d] = born[d]

(* What an instance has that a step may change.                              *)
Same(o) ==
    /\ pk'[o] = pk[o] /\ saved'[o] = saved[o] /\ own'[o] = own[o]
    /\ RowsBy(o)' \subseteq RowsBy(o)

LEMMA EnterElsewhere ==
    ASSUME TypeOK, NEW c \in Callers, NEW phase, NEW S, Enter(c, phase, S)
    PROVE  /\ \A d \in Callers \ {c} :
                pc'[d] = pc[d] /\ todo'[d] = todo[d] /\ done'[d] = done[d]
           /\ pc'[c] = phase /\ todo'[c] = S /\ done'[c] = {}
  BY DEF Enter, TypeOK

LEMMA GoOnElsewhere ==
    ASSUME TypeOK, NEW c \in Callers, NEW o, GoOn(c, o)
    PROVE  /\ \A d \in Callers \ {c} : pc'[d] = pc[d] /\ todo'[d] = todo[d]
           /\ pc'[c] = pc[c] /\ todo'[c] \subseteq todo[c]
<1>1. PICK S \in {todo[c], todo[c] \ {o}} : todo' = [todo EXCEPT ![c] = S]
  BY DEF GoOn
<1> QED
  BY <1>1 DEF GoOn, TypeOK

LEMMA ProceedElsewhere ==
    ASSUME TypeOK, NEW c \in Callers, NEW o, Proceed(c, o)
    PROVE  /\ \A d \in Callers \ {c} :
                pc'[d] = pc[d] /\ todo'[d] = todo[d] /\ done'[d] = done[d]
           /\ \/ pc'[c] = "idle" /\ todo'[c] = {} /\ done'[c] = {}
              \/ pc'[c] = pc[c] /\ todo'[c] \subseteq todo[c] /\ done'[c] = done[c]
  BY EnterElsewhere, GoOnElsewhere DEF Proceed, Leave

(* A step of task c that touches some of its own instances and inserts no    *)
(* row unnoticed by those who are about to ask for an id.                    *)
StepOf(c) ==
    /\ Elsewhere(c)
    /\ born'[c] >= born[c]
    /\ \A o \in Objs \ Mine(c)' : Same(o)
    /\ doubtful \subseteq doubtful' /\ overtaken \subseteq overtaken'
    /\ again \subseteq again'
    /\ last' = last \/ AskingIds(c) \subseteq overtaken'
    /\ todo'[c] \subseteq Mine(c)' /\ done'[c] \subseteq Mine(c)'
    /\ pc'[c] = "idle" => todo'[c] = {}
    /\ pc'[c] # "bulk_create" => done'[c] = {}
    /\ pc'[c] = "lastid" => \A o, p \in todo'[c] : o = p

LEMMA Frame ==
    ASSUME IInv, TypeOK', NEW c \in Callers, StepOf(c)
    PROVE  /\ Belongs' /\ UnbornIsNew'
           /\ \A o \in Sure' : o[1] # c => Tidy(o)'
<1>1. \A d \in Callers : born'[d] \in Nat /\ born[d] \in Nat /\ born'[d] >= born[d]
  BY DEF StepOf, Elsewhere, IInv, TypeOK
<1>2. \A o \in Objs : o[1] \in Callers /\ o[2] \in Nat
  BY DEF Objs
<1>3. Belongs'
  <2>1. \A d \in Callers \ {c} : Mine(d)' = Mine(d)
    BY DEF Mine, StepOf, Elsewhere
  <2> QED
    BY <2>1 DEF Belongs, StepOf, Elsewhere, IInv
<1>4. UnbornIsNew'
  <2> SUFFICES ASSUME NEW o \in Unborn'
               PROVE  RowsBy(o)' = {} /\ ~saved'[o] /\ pk'[o] = 0 /\ own'[o] = {}
    BY DEF UnbornIsNew
  <2>1. o \in Objs /\ o \in Unborn
    BY <1>1, <1>2 DEF Unborn
  <2>2. o \notin Mine(c)'
    BY <2>1, <1>1, <1>2 DEF Mine, Unborn
  <2>3. Same(o)
    BY <2>1, <2>2 DEF StepOf
  <2> QED
    BY <2>1, <2>3 DEF Same, UnbornIsNew, IInv
<1>5. ASSUME NEW o \in Sure', o[1] # c PROVE Tidy(o)'
  <2>1. o \in Objs /\ o \in Sure /\ o \notin overtaken'
    BY DEF Sure, StepOf
  <2>2. Tidy(o) /\ Same(o)
    BY <2>1, <1>5 DEF IInv, StepOf, Mine
  <2>3. /\ o[1] \in Callers \ {c} /\ pc'[o[1]] = pc[o[1]]
        /\ todo'[o[1]] = todo[o[1]] /\ done'[o[1]] = done[o[1]]
    BY <2>1, <1>2, <1>5 DEF StepOf, Elsewhere
  <2>4. ASSUME pc[o[1]] = "lastid", o \in todo[o[1]] PROVE last' = last
    BY <2>1, <2>3, <2>4 DEF StepOf, AskingIds
  <2> QED
    BY <2>2, <2>3, <2>4 DEF Tidy, Same, Untold
<1> QED
  BY <1>3, <1>4, <1>5

LEMMA TidySame ==
    ASSUME NEW o \in Objs, Tidy(o), Same(o), UNCHANGED <<control, last>>
    PROVE  Tidy(o)'
  BY DEF Tidy, Same, control, Untold

(* Steps that leave the control where it is.                                 *)
LEMMA StayKeeps ==
    ASSUME IInv, TypeOK', NEW c \in Callers, UNCHANGED <<control, last>>,
           Elsewhere(c), born'[c] >= born[c],
           \A o \in Objs \ Mine(c)' : Same(o),
           UNCHANGED <<doubtful, overtaken, again>>,
           \A o \in Sure : o[1] = c => Tidy(o)',
           Holds => Holds'
    PROVE  IInv'
<1>1. Mine(c) \subseteq Mine(c)'
  <2>1. born'[c] \in Nat /\ born[c] \in Nat
    BY DEF IInv, TypeOK
  <2> QED
    BY <2>1 DEF Mine, Objs
<1>2. StepOf(c)
  BY <1>1 DEF StepOf, control, IInv, Belongs
<1>3. Sure' = Sure
  BY DEF Sure
<1> QED
  BY <1>2, <1>3, Frame DEF IInv, Sure

LEMMA ConstructKeeps ==
    ASSUME IInv, TypeOK', NEW c \in Callers, NEW k \in Keys, Construct(c, k)
    PROVE  IInv'
<1>1. \A o \in Objs : Same(o)
  BY RowsBySame DEF Construct, Same, table
<1>2. born'[c] >= born[c] /\ Elsewhere(c)
  BY DEF Construct, IInv, TypeOK, Elsewhere, control
<1>3. UNCHANGED <<control, last, doubtful, overtaken, again, row, pk, own>>
  BY DEF Construct, table, marks
<1>4. Holds => Holds'
  BY <1>3 DEF Holds, control, present
<1>5. \A o \in Sure : Tidy(o)'
  BY <1>1, <1>3, TidySame DEF IInv, Sure
<1> QED
  BY <1>1, <1>2, <1>3, <1>4, <1>5, StayKeeps

LEMMA UpdateKeeps ==
    ASSUME IInv, TypeOK', NEW c \in Callers, NEW o \in Objs, Update(c, o)
    PROVE  IInv'
<1>1. pk[o] # 0 /\ (UpdateRow(o) \/ row' = row)
  BY DEF Update
<1>2. UNCHANGED <<control, last, doubtful, overtaken, again, pk, saved, own, born>>
  BY DEF Update, objects, marks
<1>3. \A p \in Objs : Same(p)
  BY <1>1, <1>2, RowsBySame, RowsByUpdated DEF Same, IInv
<1>4. Elsewhere(c) /\ born'[c] >= born[c]
  BY <1>2 DEF Elsewhere, control, IInv, TypeOK
<1>5. Holds => Holds'
  BY <1>1, <1>2, UpdatedRow DEF Holds, control, present, IInv
<1>6. \A p \in Sure : Tidy(p)'
  BY <1>2, <1>3, TidySame DEF IInv, Sure
<1> QED
  BY <1>2, <1>3, <1>4, <1>5, <1>6, StayKeeps

LEMMA IdleHasNothing ==
    ASSUME IInv, NEW c \in Callers, pc[c] = "idle"
    PROVE  todo[c] = {} /\ done[c] = {}
  BY DEF IInv, Belongs

LEMMA DeleteKeeps ==
    ASSUME IInv, TypeOK', NEW c \in Callers, NEW o \in Objs, Delete(c, o)
    PROVE  IInv'
<1>1. o \in Mine(c) /\ pk[o] # 0 /\ pc[c] = "idle" /\ (Deleted(o) \/ Refused)
  BY DEF Delete, Call
<1>2. UNCHANGED <<control, last, doubtful, overtaken, again, pk, own, born>>
  BY DEF Delete, marks
<1>3. Elsewhere(c) /\ born'[c] >= born[c] /\ Mine(c)' = Mine(c)
  BY <1>2 DEF Elsewhere, control, IInv, TypeOK, Mine
<1>4. CASE Deleted(o)
  <2>1. \A p \in Objs \ {o} : Same(p)
    <3>1. ASSUME NEW p \in Objs \ {o} PROVE saved'[p] = saved[p]
      BY <1>4 DEF Deleted, Unsaved, IInv, TypeOK
    <3>2. ASSUME NEW p \in Objs PROVE RowsBy(p)' \subseteq RowsBy(p)
      BY <1>4, RowsByDeleted DEF IInv
    <3> QED
      BY <1>2, <3>1, <3>2 DEF Same
  <2>2. Holds => Holds'
    BY <1>2, <1>4, DeletedRow DEF Holds, control, IInv
  <2>3. ASSUME NEW p \in Sure PROVE Tidy(p)'
    <3>1. Tidy(p) /\ p \in Objs
      BY DEF IInv, Sure
    <3>2. CASE p # o
      BY <1>2, <2>1, <3>1, <3>2, TidySame
    <3>3. CASE p = o
      <4>1. RowsBy(o)' = {}
        BY <1>1, <1>4, <3>1, <3>3, RowsByDeleted DEF Tidy, IInv
      <4> QED
        BY <3>3, <4>1 DEF Tidy
    <3> QED
      BY <3>2, <3>3
  <2> QED
    BY <1>1, <1>2, <1>3, <2>1, <2>2, <2>3, StayKeeps
<1>5. CASE Refused
  <2>1. \A p \in Objs : Same(p)
    BY <1>2, <1>5, RowsBySame DEF Same, Refused
  <2>2. Holds => Holds'
    BY <1>2, <1>5 DEF Holds, control, present, Refused
  <2>3. \A p \in Sure : Tidy(p)'
    BY <1>2, <2>1, TidySame DEF IInv, Sure
  <2> QED
    BY <1>2, <1>3, <2>1, <2>2, <2>3, StayKeeps
<1> QED
  BY <1>1, <1>4, <1>5

(* Steps that move the control of c.                                         *)
LEMMA MoveKeeps ==
    ASSUME IInv, TypeOK', NEW c \in Callers, StepOf(c),
           \A o \in Sure' : o[1] = c => Tidy(o)',
           overtaken' = {} => Holds'
    PROVE  IInv'
  BY Frame DEF IInv

(* An instance of c that a call has let go of.                               *)
LEMMA TidyAtRest ==
    ASSUME NEW o \in Objs, Same(o), Tidy(o),
           \/ pc'[o[1]] \notin {"lastid", "create"}
           \/ o \notin todo'[o[1]],
           saved[o] \/ RowsBy(o) = {}
    PROVE  Tidy(o)'
  BY DEF Tidy, Same

LEMMA BeginBulkKeeps ==
    ASSUME IInv, TypeOK', NEW c \in Callers, NEW S \in SUBSET Mine(c),
           NEW kind \in ListKinds, BeginBulk(c, kind, S)
    PROVE  IInv'
<1>1. /\ pc[c] = "idle" /\ S \subseteq Mine(c)
      /\ kind \in {"bulk_create", "bulk_update", "bulk_delete"}
      /\ Enter(c, kind, S)
  BY DEF BeginBulk, Call, ListKinds
<1>2. UNCHANGED <<row, last, born, pk, saved, own, doubtful, overtaken, again>>
  BY DEF BeginBulk, table, objects, marks
<1>3. /\ pc'[c] = kind /\ todo'[c] = S /\ done'[c] = {}
      /\ Elsewhere(c) /\ Mine(c)' = Mine(c) /\ born'[c] >= born[c]
  BY <1>1, <1>2, EnterElsewhere DEF IInv, Elsewhere, Mine, TypeOK
<1>4. \A o \in Objs : Same(o)
  BY <1>2, RowsBySame DEF Same
<1>5. StepOf(c)
  BY <1>1, <1>2, <1>3, <1>4 DEF StepOf
<1>6. ASSUME NEW o \in Sure', o[1] = c PROVE Tidy(o)'
  <2>1. o \in Objs /\ Tidy(o) /\ Same(o)
    BY <1>2, <1>4 DEF Sure, IInv
  <2>2. saved[o] \/ RowsBy(o) = {}
    BY <1>1, <1>6, <2>1 DEF Tidy, Untold
  <2> QED
    BY <1>1, <1>3, <1>6, <2>1, <2>2, TidyAtRest
<1>7. overtaken' = {} => Holds'
  BY <1>1, <1>2, <1>3 DEF IInv, Holds, Elsewhere, present
<1> QED
  BY <1>5, <1>6, <1>7, MoveKeeps

LEMMA LoadKeeps ==
    ASSUME IInv, TypeOK', NEW c \in Callers, NEW i \in present, born[c] < MaxObjects,
           LoadFrom(c, i), UNCHANGED <<control, table, marks>>
    PROVE  IInv'
<1>0. PICK n \in Unborn : n = NewOf(c)
  BY NewType DEF IInv
<1>1. n \in Objs /\ n[1] = c /\ n[2] = born[c] + 1
  BY <1>0, NewType DEF IInv, Unborn, NewOf
<1>2. /\ born' = [born EXCEPT ![c] = @ + 1]
      /\ pk'[n] = i /\ saved'[n] /\ own'[n] = {i}
      /\ \A o \in Objs \ {n} : pk'[o] = pk[o] /\ saved'[o] = saved[o] /\ own'[o] = own[o]
  BY <1>0, <1>1 DEF LoadFrom, IInv, TypeOK
<1>3. UNCHANGED <<control, last, doubtful, overtaken, again, row>>
  BY DEF table, marks
<1>4. \A o \in Objs : RowsBy(o)' = RowsBy(o)
  BY <1>3, RowsBySame
<1>5. \A o \in Objs \ {n} : Same(o)
  BY <1>2, <1>4 DEF Same
<1>6. Elsewhere(c) /\ born'[c] = born[c] + 1 /\ born'[c] >= born[c]
  BY <1>2, <1>3 DEF Elsewhere, control, IInv, TypeOK
<1>7. n \in Mine(c)' /\ n \notin Mine(c)
  BY <1>1, <1>6 DEF Mine, IInv, TypeOK
<1>8. ASSUME NEW o \in Sure PROVE Tidy(o)'
  <2>1. o \in Objs /\ Tidy(o)
    BY DEF Sure, IInv
  <2>2. CASE o = n
    <3>1. RowsBy(n)' = {}
      BY <1>1, <1>4 DEF UnbornIsNew, IInv
    <3> QED
      BY <2>2, <3>1 DEF Tidy
  <2>3. CASE o # n
    BY <1>3, <1>5, <2>1, <2>3, TidySame
  <2> QED
    BY <2>2, <2>3
<1>9. ASSUME Holds PROVE Holds'
  <2>1. \A o \in Objs : pk'[o] # 0 => pk'[o] \in own'[o]
    BY <1>2, <1>9 DEF Holds
  <2>2. \A d \in Callers : pc'[d] = "lastid" => \A o \in todo'[d] : last' \in own'[o]
    <3> SUFFICES ASSUME NEW d \in Callers, pc[d] = "lastid", NEW o \in todo[d]
                 PROVE  last \in own'[o]
      BY <1>3 DEF control
    <3>1. o \in Mine(d) /\ o \in Objs
      BY DEF IInv, Belongs, TypeOK
    <3>2. o # n
      BY <1>1, <1>7, <3>1 DEF Mine
    <3> QED
      BY <1>2, <1>9, <3>1, <3>2 DEF Holds
  <2>3. \A j \in present : row[j].wrote \in Objs /\ row[j].wrote # n
    BY <1>1, <1>9 DEF Holds, UnbornIsNew, IInv, TypeOK, AnyRow
  <2>4. \A j \in present : j \in own'[row[j].wrote]
    BY <1>2, <1>9, <2>3 DEF Holds
  <2> QED
    BY <1>3, <2>1, <2>2, <2>4 DEF Holds, present
<1> QED
  BY <1>3, <1>5, <1>6, <1>7, <1>8, <1>9, StayKeeps

LEMMA GetKeeps ==
    ASSUME IInv, TypeOK', NEW c \in Callers, NEW k \in Keys, Get(c, k)
    PROVE  IInv'
<1>1. PICK i \in present : LoadFrom(c, i)
  BY DEF Get, Matching
<1> QED
  BY <1>1, LoadKeeps DEF Get

(* Between the statements of other calls, an instance of c is either saved   *)
(* or has no row.                                                            *)
LEMMA AtRest ==
    ASSUME IInv, NEW c \in Callers, pc[c] \notin {"lastid", "bulk_create"},
           NEW o \in Sure, o[1] = c
    PROVE  saved[o] \/ RowsBy(o) = {}
  BY DEF IInv, Tidy, Untold

LEMMA PrepareKeeps ==
    ASSUME IInv, TypeOK', NEW c \in Callers, NEW k \in Keys, born[c] < MaxObjects,
           pc[c] = "idle", Prepare(c, k), UNCHANGED <<table, marks>>
    PROVE  IInv'
<1>0. PICK n \in Unborn : n = NewOf(c)
  BY NewType DEF IInv
<1>1. n \in Objs /\ n[1] = c /\ n[2] = born[c] + 1
  BY <1>0, NewType DEF IInv, Unborn, NewOf
<1>2. /\ born' = [born EXCEPT ![c] = @ + 1] /\ Enter(c, "create", {n})
      /\ UNCHANGED <<pk, saved, own, row, last, doubtful, overtaken, again>>
  BY <1>0 DEF Prepare, table, marks
<1>3. /\ pc'[c] = "create" /\ todo'[c] = {n} /\ done'[c] = {} /\ Elsewhere(c)
      /\ born'[c] = born[c] + 1 /\ born'[c] >= born[c]
  BY <1>2, EnterElsewhere DEF IInv, Elsewhere, TypeOK
<1>4. n \in Mine(c)'
  BY <1>1, <1>3 DEF Mine, IInv, TypeOK
<1>5. \A o \in Objs : Same(o)
  BY <1>2, RowsBySame DEF Same
<1>6. StepOf(c)
  BY <1>2, <1>3, <1>4, <1>5 DEF StepOf
<1>7. ASSUME NEW o \in Sure', o[1] = c PROVE Tidy(o)'
  <2>1. o \in Sure /\ o \in Objs /\ Tidy(o) /\ Same(o)
    BY <1>2, <1>5 DEF Sure, IInv
  <2>2. CASE o = n
    <3>1. RowsBy(o)' = {}
      BY <1>0, <2>1, <2>2 DEF UnbornIsNew, IInv, Same
    <3> QED
      BY <1>3, <1>7, <3>1 DEF Tidy
  <2>3. CASE o # n
    BY <1>3, <1>7, <2>1, <2>3, AtRest, TidyAtRest
  <2> QED
    BY <2>2, <2>3
<1>8. overtaken' = {} => Holds'
  BY <1>2, <1>3 DEF IInv, Holds, Elsewhere, present
<1> QED
  BY <1>6, <1>7, <1>8, MoveKeeps

LEMMA GetOrCreateKeeps ==
    ASSUME IInv, TypeOK', NEW c \in Callers, NEW k \in Keys, GetOrCreate(c, k)
    PROVE  IInv'
<1>1. /\ pc[c] = "idle" /\ born[c] < MaxObjects /\ UNCHANGED <<table, marks>>
      /\ Find(c, k)
  BY DEF GetOrCreate, Call
<1>2. CASE \E i \in Matching(k) : LoadFrom(c, i) /\ UNCHANGED control
  <2>1. PICK i \in present : LoadFrom(c, i) /\ UNCHANGED control
    BY <1>2 DEF Matching
  <2> QED
    BY <1>1, <2>1, LoadKeeps
<1>3. CASE Prepare(c, k)
  BY <1>1, <1>3, PrepareKeeps
<1> QED
  BY <1>1, <1>2, <1>3 DEF Find

(* What is held when c has inserted the row of o.                            *)
LEMMA HoldsInserted ==
    ASSUME IInv, TypeOK', NEW c \in Callers, NEW o \in Objs, IdFor(o) \in Ids,
           InsertRow(c, o), pk' = pk, Elsewhere(c),
           pc'[c] = "lastid" => todo'[c] = {o},
           overtaken' = {}
    PROVE  Holds'
<1>1. Holds
  BY DEF InsertRow, IInv
<1>2. /\ last' = IdFor(o) /\ IdFor(o) \in own'[o]
      /\ \A p \in Objs : own[p] \subseteq own'[p]
  BY DEF InsertRow, IInv, TypeOK
<1>3. \A p \in Objs : pk'[p] # 0 => pk'[p] \in own'[p]
  BY <1>1, <1>2 DEF Holds
<1>4. ASSUME NEW d \in Callers, pc'[d] = "lastid", NEW p \in todo'[d]
      PROVE  last' \in own'[p]
  <2>1. CASE d = c
    BY <1>2, <1>4, <2>1
  <2>2. CASE d # c
    <3>1. pc[d] = "lastid" /\ p \in todo[d]
      BY <1>4, <2>2 DEF Elsewhere
    <3>2. p \in overtaken'
      BY <2>2, <3>1 DEF InsertRow, AskingIds
    <3> QED
      BY <3>2
  <2> QED
    BY <2>1, <2>2
<1>5. ASSUME NEW i \in present' PROVE i \in own'[row'[i].wrote]
  <2>1. CASE i = IdFor(o)
    <3>1. row'[i] = RowOf(c, o)
      BY <2>1, InsertedRow DEF IInv
    <3>2. row'[i].wrote = o
      BY <3>1 DEF RowOf
    <3> QED
      BY <1>2, <2>1, <3>2
  <2>2. CASE i # IdFor(o)
    <3>1. i \in present /\ row'[i] = row[i]
      BY <1>5, <2>2, InsertedRow DEF IInv
    <3>2. row[i].wrote \in Objs
      BY <3>1 DEF IInv, TypeOK, AnyRow
    <3> QED
      BY <1>1, <1>2, <3>1, <3>2 DEF Holds
  <2> QED
    BY <2>1, <2>2
<1> QED
  BY <1>3, <1>4, <1>5 DEF Holds

LEMMA InsertKeeps ==
    ASSUME IInv, TypeOK', NEW c \in Callers, NEW o \in Objs, Insert(c, o)
    PROVE  IInv'
<1>1. /\ o \in Mine(c) /\ o[1] = c
      /\ \/ pc[c] = "idle" /\ ~saved[o]
         \/ pc[c] = "create" /\ o \in todo[c]
      /\ IdFor(o) \in Ids /\ UNCHANGED <<born, pk, doubtful, again>>
  BY DEF Insert, Call, IInv, Belongs, Mine
<1>2. \A p \in Sure : p[1] = c => saved[p] \/ RowsBy(p) = {}
  BY <1>1, AtRest
<1>3. Mine(c)' = Mine(c) /\ born'[c] >= born[c]
  BY <1>1 DEF Mine, IInv, TypeOK
<1>4. CASE InsertRow(c, o) /\ Inserted(c, o)
  <2>1. /\ Elsewhere(c) /\ done'[c] = {}
        /\ \/ pc'[c] = "lastid" /\ todo'[c] = {o} /\ saved' = saved
           \/ pc'[c] = "idle" /\ todo'[c] = {} /\ saved' = [saved EXCEPT ![o] = TRUE]
    BY <1>1, <1>4, EnterElsewhere DEF Inserted, Leave, Elsewhere, IInv
  <2>2. ASSUME NEW p \in Objs \ {o} PROVE Same(p)
    <3>1. saved'[p] = saved[p]
      BY <2>1 DEF IInv, TypeOK
    <3>2. own'[p] = own[p]
      BY <1>4 DEF InsertRow, IInv, TypeOK
    <3> QED
      BY <1>1, <1>4, <3>1, <3>2, RowsByInserted DEF Same, IInv
  <2>3. /\ AskingIds(c) \subseteq overtaken' /\ overtaken \subseteq overtaken'
        /\ last' = IdFor(o)
    BY <1>4 DEF InsertRow
  <2>4. StepOf(c)
    BY <1>1, <1>3, <2>1, <2>2, <2>3 DEF StepOf
  <2>5. ASSUME NEW p \in Sure', p[1] = c PROVE Tidy(p)'
    <3>1. p \in Sure /\ p \in Objs /\ Tidy(p)
      BY <1>1, <2>3 DEF Sure, IInv
    <3>2. CASE p = o
      <4>1. RowsBy(o) = {}
        BY <1>1, <3>1, <3>2, IdleHasNothing DEF Tidy, Untold
      <4>2. RowsBy(o)' = {IdFor(o)}
        BY <1>1, <1>4, <4>1, RowsByInserted DEF IInv
      <4>3. pk'[o] # 0 => pk'[o] = IdFor(o)
        BY <1>1 DEF IdFor
      <4>4. saved'[o] \/ (o \in todo'[c] /\ pc'[c] = "lastid")
        BY <2>1 DEF IInv, TypeOK
      <4> QED
        BY <1>1, <2>1, <2>3, <3>2, <4>2, <4>3, <4>4 DEF Tidy, Untold
    <3>3. CASE p # o
      BY <1>2, <2>1, <2>2, <2>5, <3>1, <3>3, TidyAtRest
    <3> QED
      BY <3>2, <3>3
  <2>6. overtaken' = {} => Holds'
    BY <1>1, <1>4, <2>1, HoldsInserted
  <2> QED
    BY <2>4, <2>5, <2>6, MoveKeeps
<1>5. CASE Leave(c) /\ UNCHANGED <<table, saved, own, overtaken, raced>>
  <2>1. /\ Elsewhere(c) /\ pc'[c] = "idle" /\ todo'[c] = {} /\ done'[c] = {}
        /\ UNCHANGED <<row, last, saved, own, overtaken>>
    BY <1>1, <1>5, EnterElsewhere DEF Leave, Elsewhere, IInv, table
  <2>2. \A p \in Objs : Same(p)
    BY <1>1, <2>1, RowsBySame DEF Same
  <2>3. StepOf(c)
    BY <1>1, <1>3, <2>1, <2>2 DEF StepOf
  <2>4. ASSUME NEW p \in Sure', p[1] = c PROVE Tidy(p)'
    <3>1. p \in Sure /\ p \in Objs /\ Tidy(p)
      BY <1>1, <2>1 DEF Sure, IInv
    <3> QED
      BY <1>2, <2>1, <2>2, <2>4, <3>1, TidyAtRest
  <2>5. overtaken' = {} => Holds'
    BY <1>1, <2>1 DEF IInv, Holds, Elsewhere, present
  <2> QED
    BY <2>3, <2>4, <2>5, MoveKeeps
<1> QED
  BY <1>4, <1>5 DEF Insert

LEMMA LastIdKeeps ==
    ASSUME IInv, TypeOK', NEW c \in Callers, LastId(c)
    PROVE  IInv'
<1>1. PICK o \in todo[c] :
        \/ AskLast(o) /\ saved' = [saved EXCEPT ![o] = TRUE] /\ UNCHANGED doubtful
        \/ doubtful' = doubtful \cup {o} /\ UNCHANGED <<pk, saved>>
  BY DEF LastId
<1>2. /\ pc[c] = "lastid" /\ Leave(c)
      /\ UNCHANGED <<row, last, born, own, overtaken, again>>
  BY DEF LastId, table
<1>3. /\ o \in Objs /\ o \in Mine(c) /\ o[1] = c /\ todo[c] = {o}
  BY <1>1, <1>2 DEF IInv, Belongs, Mine
<1>4. /\ Elsewhere(c) /\ pc'[c] = "idle" /\ todo'[c] = {} /\ done'[c] = {}
      /\ Mine(c)' = Mine(c) /\ born'[c] >= born[c]
  BY <1>2, EnterElsewhere DEF Leave, Elsewhere, IInv, Mine, TypeOK
<1>5. ASSUME NEW p \in Objs \ {o} PROVE Same(p)
  <2>1. pk'[p] = pk[p] /\ saved'[p] = saved[p]
    BY <1>1 DEF AskLast, IInv, TypeOK
  <2> QED
    BY <1>2, <2>1, RowsBySame DEF Same
<1>6. doubtful \subseteq doubtful'
  BY <1>1
<1>7. StepOf(c)
  BY <1>2, <1>3, <1>4, <1>5, <1>6 DEF StepOf
<1>8. ASSUME NEW p \in Sure', p[1] = c PROVE Tidy(p)'
  <2>1. p \in Objs /\ Tidy(p) /\ p \notin doubtful'
    BY <1>2, <1>6 DEF Sure, IInv
  <2>2. CASE p = o
    <3>1. pk' = [pk EXCEPT ![o] = last] /\ saved' = [saved EXCEPT ![o] = TRUE]
      BY <1>1, <2>1, <2>2 DEF AskLast
    <3>2. pk'[o] = last /\ saved'[o]
      BY <1>3, <3>1 DEF IInv, TypeOK
    <3>3. RowsBy(o)' = RowsBy(o) /\ RowsBy(o) \subseteq {last}
      BY <1>2, <1>3, <2>1, <2>2, RowsBySame DEF Tidy
    <3> QED
      BY <1>3, <1>4, <2>2, <3>2, <3>3 DEF Tidy
  <2>3. CASE p # o
    <3>1. saved[p] \/ RowsBy(p) = {}
      BY <1>2, <1>3, <1>8, <2>1, <2>3 DEF Tidy, Untold
    <3> QED
      BY <1>4, <1>5, <1>8, <2>1, <2>3, <3>1, TidyAtRest
  <2> QED
    BY <2>2, <2>3
<1>9. ASSUME overtaken' = {} PROVE Holds'
  <2>1. Holds
    BY <1>2, <1>9 DEF IInv
  <2>2. \A p \in Objs : pk'[p] # 0 => pk'[p] \in own'[p]
    <3>1. \A p \in Objs \ {o} : pk'[p] # 0 => pk'[p] \in own'[p]
      BY <1>5, <2>1 DEF Holds, Same
    <3>2. last \in own[o] /\ (pk[o] # 0 => pk[o] \in own[o])
      BY <1>2, <1>3, <2>1 DEF Holds
    <3>3. pk'[o] = last \/ pk'[o] = pk[o]
      BY <1>1, <1>3 DEF AskLast, IInv, TypeOK
    <3> QED
      BY <1>2, <3>1, <3>2, <3>3
  <2> QED
    BY <1>2, <1>4, <2>1, <2>2 DEF Holds, Elsewhere, present
<1> QED
  BY <1>7, <1>8, <1>9, MoveKeeps

LEMMA BulkCreateKeeps ==
    ASSUME IInv, TypeOK', NEW c \in Callers, NEW o \in Objs, BulkCreate(c, o)
    PROVE  IInv'
<1>1. /\ pc[c] = "bulk_create" /\ o \in todo[c] /\ IdFor(o) \in Ids
      /\ UNCHANGED <<born, pk>>
  BY DEF BulkCreate
<1>2. /\ o \in Mine(c) /\ o[1] = c
      /\ todo[c] \subseteq Mine(c) /\ done[c] \subseteq Mine(c)
      /\ Mine(c)' = Mine(c) /\ born'[c] >= born[c]
  BY <1>1 DEF IInv, Belongs, Mine, TypeOK
<1>3. CASE /\ InsertRow(c, o) /\ Relisted(c, o) /\ UNCHANGED doubtful
           /\ BulkGoesOn(c, o) \/ BulkEnds(c, o)
  <2>1. /\ Elsewhere(c)
        /\ \/ /\ pc'[c] = "idle" /\ todo'[c] = {} /\ done'[c] = {}
              /\ BulkEnds(c, o)
           \/ /\ pc'[c] = "bulk_create" /\ todo'[c] \subseteq todo[c]
              /\ done'[c] = done[c] \cup {o} /\ saved' = saved
    <3>1. CASE BulkEnds(c, o)
      BY <1>1, <3>1, EnterElsewhere DEF BulkEnds, Leave, Elsewhere, IInv
    <3>2. CASE BulkGoesOn(c, o)
      <4>1. /\ \A d \in Callers \ {c} : done'[d] = done[d]
            /\ done'[c] = done[c] \cup {o}
        BY <3>2 DEF BulkGoesOn, IInv, TypeOK
      <4> QED
        BY <1>1, <3>2, <4>1, GoOnElsewhere DEF BulkGoesOn, Elsewhere, IInv
    <3> QED
      BY <1>3, <3>1, <3>2
  <2>2. /\ AskingIds(c) \subseteq overtaken' /\ overtaken \subseteq overtaken'
        /\ \A p \in Objs \ {o} : own'[p] = own[p]
    BY <1>3 DEF InsertRow, IInv, TypeOK
  <2>3. /\ \A p \in Objs : saved[p] => saved'[p]
        /\ \A p \in Objs \ Mine(c) : saved'[p] = saved[p]
        /\ pc'[c] = "idle" => \A p \in done[c] \cup {o} : saved'[p]
    <3>1. CASE saved' = saved /\ pc'[c] # "idle"
      BY <3>1
    <3>2. CASE BulkEnds(c, o)
      <4>1. \A p \in Objs : saved'[p] <=> saved[p] \/ p \in done[c] \cup {o}
        BY <3>2 DEF BulkEnds
      <4>2. \A p \in Objs \ Mine(c) : saved'[p] <=> saved[p]
        BY <1>2, <4>1
      <4>3. \A p \in Objs : saved[p] \in BOOLEAN /\ saved'[p] \in BOOLEAN
        BY DEF IInv, TypeOK
      <4> QED
        BY <1>2, <4>1, <4>2, <4>3, MineIs
    <3> QED
      BY <2>1, <3>1, <3>2
  <2>4. ASSUME NEW p \in Objs \ {o} PROVE RowsBy(p)' = RowsBy(p)
    BY <1>1, <1>3, RowsByInserted DEF IInv
  <2>5. ASSUME NEW p \in Objs \ Mine(c)' PROVE Same(p)
    BY <1>1, <1>2, <2>2, <2>3, <2>4 DEF Same
  <2>6. again \subseteq again' /\ (saved[o] \/ o \in done[c] => o \in again')
    BY <1>3 DEF Relisted
  <2>7. StepOf(c)
    BY <1>2, <1>3, <2>1, <2>2, <2>5, <2>6 DEF StepOf
  <2>8. ASSUME NEW p \in Sure', p[1] = c PROVE Tidy(p)'
    <3>1. p \in Objs /\ Tidy(p) /\ pk'[p] = pk[p] /\ p \notin again'
      BY <1>1, <1>3, <2>2, <2>6 DEF Sure, IInv
    <3>2. CASE p = o
      <4>1. RowsBy(o) = {}
        BY <1>1, <1>2, <2>6, <3>1, <3>2 DEF Tidy, Untold
      <4>2. RowsBy(o)' = {IdFor(o)}
        BY <1>1, <1>3, <4>1, RowsByInserted DEF IInv
      <4>3. pk'[o] # 0 => pk'[o] = IdFor(o)
        BY <1>1 DEF IdFor
      <4> QED
        BY <1>2, <2>1, <2>3, <3>1, <3>2, <4>2, <4>3 DEF Tidy, Untold
    <3>3. CASE p # o
      <4>1. RowsBy(p)' = RowsBy(p)
        BY <2>4, <3>1, <3>3
      <4>2. saved[p] \/ RowsBy(p) = {} \/ p \in done[c]
        BY <1>1, <2>8, <3>1 DEF Tidy, Untold
      <4> QED
        BY <1>1, <2>1, <2>3, <2>8, <3>1, <3>3, <4>1, <4>2 DEF Tidy, Untold
    <3> QED
      BY <3>2, <3>3
  <2>9. overtaken' = {} => Holds'
    BY <1>1, <1>3, <2>1, HoldsInserted
  <2> QED
    BY <2>7, <2>8, <2>9, MoveKeeps
<1>4. CASE BulkFails(c, o)
  <2>1. /\ Elsewhere(c) /\ pc'[c] = "idle" /\ todo'[c] = {} /\ done'[c] = {}
        /\ UNCHANGED <<row, last, saved, own, overtaken, again>>
        /\ doubtful' = doubtful \cup done[c]
    BY <1>1, <1>4, EnterElsewhere DEF BulkFails, Leave, Elsewhere, IInv, table
  <2>2. \A p \in Objs : Same(p)
    BY <1>1, <2>1, RowsBySame DEF Same
  <2>3. StepOf(c)
    BY <1>2, <2>1, <2>2 DEF StepOf
  <2>4. ASSUME NEW p \in Sure', p[1] = c PROVE Tidy(p)'
    <3>1. p \in Objs /\ Tidy(p) /\ p \notin done[c]
      BY <2>1 DEF Sure, IInv
    <3>2. saved[p] \/ RowsBy(p) = {}
      BY <1>1, <2>4, <3>1 DEF Tidy, Untold
    <3> QED
      BY <2>1, <2>2, <2>4, <3>1, <3>2, TidyAtRest
  <2>5. overtaken' = {} => Holds'
    BY <1>1, <2>1 DEF IInv, Holds, Elsewhere, present
  <2> QED
    BY <2>3, <2>4, <2>5, MoveKeeps
<1> QED
  BY <1>3, <1>4, BulkCases

(* The steps of bulk_update and bulk_delete: nothing new is in the table.    *)
LEMMA BulkStepKeeps ==
    ASSUME IInv, TypeOK', NEW c \in Callers, NEW o \in Objs,
           pc[c] \in {"bulk_update", "bulk_delete"}, o \in todo[c],
           Leave(c) \/ Proceed(c, o),
           UNCHANGED <<last, born, pk, own, doubtful, overtaken, again>>,
           \A p \in Objs \ {o} : Same(p),
           Same(o) \/ RowsBy(o)' = RowsBy(o) \ {pk[o]},
           pk[o] # 0 \/ Same(o),
           \A i \in present' : i \in present /\
                (row'[i].wrote = row[i].wrote \/ (i = pk[o] /\ row'[i].wrote = o))
    PROVE  IInv'
<1>1. /\ o \in Mine(c) /\ o[1] = c /\ todo[c] \subseteq Mine(c) /\ done[c] = {}
      /\ Mine(c)' = Mine(c) /\ born'[c] >= born[c]
  BY DEF IInv, Belongs, Mine, TypeOK
<1>2. /\ Elsewhere(c) /\ pc'[c] \in {"idle", "bulk_update", "bulk_delete"}
      /\ done'[c] = {} /\ todo'[c] \subseteq todo[c]
      /\ pc'[c] = "idle" => todo'[c] = {}
  <2>1. CASE Leave(c)
    BY <2>1, EnterElsewhere DEF Leave, Elsewhere, IInv
  <2>2. CASE Proceed(c, o)
    BY <1>1, <2>2, ProceedElsewhere DEF Elsewhere, IInv
  <2> QED
    BY <2>1, <2>2
<1>4. StepOf(c)
  BY <1>1, <1>2 DEF StepOf
<1>5. ASSUME NEW p \in Sure', p[1] = c PROVE Tidy(p)'
  <2>1. p \in Sure /\ p \in Objs /\ Tidy(p)
    BY DEF Sure, IInv
  <2>2. saved[p] \/ RowsBy(p) = {}
    BY <1>5, <2>1, AtRest
  <2>3. CASE Same(p)
    BY <1>2, <1>5, <2>1, <2>2, <2>3, TidyAtRest
  <2>4. CASE ~Same(p)
    <3>1. p = o /\ pk[o] # 0 /\ RowsBy(o)' = RowsBy(o) \ {pk[o]}
      BY <2>1, <2>4
    <3>2. RowsBy(o)' = {}
      BY <2>1, <3>1 DEF Tidy
    <3> QED
      BY <3>1, <3>2 DEF Tidy
  <2> QED
    BY <2>3, <2>4
<1>6. ASSUME overtaken' = {} PROVE Holds'
  <2>1. Holds
    BY <1>6 DEF IInv
  <2>2. \A i \in present' : i \in own'[row'[i].wrote]
    <3> SUFFICES ASSUME NEW i \in present' PROVE i \in own[row'[i].wrote]
      OBVIOUS
    <3>1. i \in present /\ i \in own[row[i].wrote]
      BY <2>1 DEF Holds
    <3>2. CASE row'[i].wrote = row[i].wrote
      BY <3>1, <3>2
    <3>3. CASE i = pk[o] /\ row'[i].wrote = o
      <4>1. pk[o] # 0
        BY <3>1, <3>3, Bounds DEF IInv, TypeOK, Ids
      <4> QED
        BY <2>1, <3>3, <4>1 DEF Holds
    <3> QED
      BY <3>2, <3>3
  <2>3. \A d \in Callers : pc'[d] = "lastid" => \A p \in todo'[d] : last' \in own'[p]
    BY <1>2, <2>1 DEF Holds, Elsewhere
  <2> QED
    BY <2>1, <2>2, <2>3 DEF Holds
<1> QED
  BY <1>4, <1>5, <1>6, MoveKeeps

LEMMA BulkUpdateKeeps ==
    ASSUME IInv, TypeOK', NEW c \in Callers, NEW o \in Objs, BulkUpdate(c, o)
    PROVE  IInv'
<1>1. /\ pc[c] = "bulk_update" /\ o \in todo[c] /\ (row' = row \/ UpdateRow(o))
      /\ UNCHANGED <<last, born, pk, saved, own, doubtful, overtaken, again>>
  BY DEF BulkUpdate, objects, marks
<1>2. Leave(c) \/ Proceed(c, o)
  BY DEF BulkUpdate, NoPk, AfterRefusal
<1>3. \A p \in Objs : Same(p)
  BY <1>1, RowsBySame, RowsByUpdated DEF Same, IInv
<1>4. \A i \in present' : i \in present /\
         (row'[i].wrote = row[i].wrote \/ (i = pk[o] /\ row'[i].wrote = o))
  BY <1>1, UpdatedRow DEF IInv, present
<1> QED
  BY <1>1, <1>2, <1>3, <1>4, BulkStepKeeps

LEMMA BulkDeleteKeeps ==
    ASSUME IInv, TypeOK', NEW c \in Callers, NEW o \in Objs, BulkDelete(c, o)
    PROVE  IInv'
<1>1. /\ pc[c] = "bulk_delete" /\ o \in todo[c]
      /\ UNCHANGED <<last, born, pk, own, doubtful, overtaken, again>>
      /\ UNCHANGED <<row, saved>> \/ (pk[o] # 0 /\ Deleted(o))
  BY DEF BulkDelete, Refused, marks
<1>2. Leave(c) \/ Proceed(c, o)
  BY DEF BulkDelete, NoPk, AfterRefusal
<1>3. CASE UNCHANGED <<row, saved>>
  <2>1. \A p \in Objs : Same(p)
    BY <1>1, <1>3, RowsBySame DEF Same
  <2>2. present' = present
    BY <1>3 DEF present
  <2> QED
    BY <1>1, <1>2, <1>3, <2>1, <2>2, BulkStepKeeps
<1>4. CASE pk[o] # 0 /\ Deleted(o)
  <2>1. ASSUME NEW p \in Objs \ {o} PROVE Same(p)
    <3>1. saved'[p] = saved[p]
      BY <1>4 DEF Deleted, Unsaved, IInv, TypeOK
    <3>2. RowsBy(p)' \subseteq RowsBy(p)
      BY <1>4, RowsByDeleted DEF IInv
    <3> QED
      BY <1>1, <3>1, <3>2 DEF Same
  <2>2. RowsBy(o)' = RowsBy(o) \ {pk[o]}
    BY <1>4, RowsByDeleted DEF IInv
  <2>3. \A i \in present' : i \in present /\ row'[i] = row[i]
    BY <1>4, DeletedRow DEF IInv
  <2> QED
    BY <1>1, <1>2, <1>4, <2>1, <2>2, <2>3, BulkStepKeeps
<1> QED
  BY <1>1, <1>3, <1>4

-----------------------------------------------------------------------------
LEMMA InitIInv == Init => IInv
<1> SUFFICES ASSUME Init PROVE IInv
  OBVIOUS
<1>1. present = {}
  BY DEF Init, present
<1>2. \A o \in Objs : RowsBy(o) = {}
  BY <1>1 DEF RowsBy
<1>3. Belongs
  BY DEF Init, Belongs
<1>4. UnbornIsNew /\ \A o \in Sure : Tidy(o)
  <2>1. \A o \in Objs : o[1] \in Callers /\ ~saved[o] /\ pk[o] = 0 /\ own[o] = {}
    BY DEF Init, Objs
  <2> QED
    BY <1>2, <2>1 DEF Init, UnbornIsNew, Unborn, Sure, Tidy
<1>5. Holds
  BY <1>1 DEF Init, Holds
<1> QED
  BY <1>3, <1>4, <1>5, InitType DEF IInv

LEMMA NextIInv == IInv /\ [Next]_vars => IInv'
<1> SUFFICES ASSUME IInv, [Next]_vars PROVE IInv'
  OBVIOUS
<1>1. TypeOK'
  BY NextType DEF IInv
<1>2. CASE Next
  <2>1. PICK c \in Callers : Act(c)
    BY <1>2 DEF Next
  <2>2. ASSUME NEW k \in Keys, Construct(c, k) \/ Get(c, k) \/ GetOrCreate(c, k)
        PROVE  IInv'
    BY <1>1, <2>2, ConstructKeeps, GetKeeps, GetOrCreateKeeps
  <2>3. ASSUME NEW o \in Objs, OfInstance(c, o) PROVE IInv'
    BY <1>1, <2>3, InsertKeeps, UpdateKeeps, DeleteKeeps, BulkCreateKeeps,
       BulkUpdateKeeps, BulkDeleteKeeps DEF OfInstance
  <2>4. ASSUME LastId(c) PROVE IInv'
    BY <1>1, <2>4, LastIdKeeps
  <2>5. ASSUME NEW S \in SUBSET Mine(c), NEW kind \in ListKinds, BeginBulk(c, kind, S)
        PROVE  IInv'
    BY <1>1, <2>5, BeginBulkKeeps
  <2> QED
    BY <2>1, <2>2, <2>3, <2>4, <2>5, MineIs DEF Act
<1>3. CASE UNCHANGED vars
  <2>1. UNCHANGED present /\ (\A o \in Objs : RowsBy(o)' = RowsBy(o))
    BY <1>3, RowsBySame DEF vars, present
  <2>2. Belongs' /\ Sure' = Sure /\ Unborn' = Unborn
    BY <1>3 DEF vars, IInv, Belongs, Mine, Sure, Unborn
  <2>3. UnbornIsNew'
    BY <1>3, <2>1, <2>2 DEF vars, IInv, UnbornIsNew, Unborn
  <2>4. \A o \in Sure' : Tidy(o)'
    BY <1>3, <2>1, <2>2 DEF vars, IInv, Sure, Tidy, Untold
  <2>5. overtaken' = {} => Holds'
    BY <1>3, <2>1 DEF vars, IInv, Holds
  <2> QED
    BY <1>1, <2>2, <2>3, <2>4, <2>5 DEF IInv
<1> QED
  BY <1>2, <1>3

LEMMA Invariant == Spec => []IInv
  BY InitIInv, NextIInv, PTL DEF Spec

(* However often an instance is saved, deleted and saved again, it has one   *)
(* row at most, unless a call failed after its INSERT, the bridge told it    *)
(* the id of another's, or bulk_create was given it when it was saved, or    *)
(* twice in one list.                                                        *)
THEOREM InstancesHaveOneRow == Spec => []OneRowPerInstance
<1>1. IInv => OneRowPerInstance
  <2> SUFFICES ASSUME IInv, NEW i \in present, NEW j \in present,
                      row[i].by = row[j].by, row[i].by \notin doubtful \cup overtaken \cup again
               PROVE  i = j
    BY DEF OneRowPerInstance
  <2>1. row[i].by \in Sure
    BY DEF IInv, TypeOK, AnyRow, Sure
  <2>2. Tidy(row[i].by) /\ i \in RowsBy(row[i].by) /\ j \in RowsBy(row[i].by)
    BY <2>1 DEF IInv, RowsBy
  <2> QED
    BY <2>2 DEF Tidy
<1> QED
  BY <1>1, Invariant, PTL

(* As long as nobody is overtaken, rows are written by those that inserted   *)
(* or loaded them only.                                                      *)
THEOREM WritersHold == Spec => []WritersHoldTheirRows
<1>1. IInv => WritersHoldTheirRows
  BY DEF IInv, Holds, WritersHoldTheirRows
<1> QED
  BY <1>1, Invariant, PTL

-----------------------------------------------------------------------------
(* That the duplicates of get_or_create come from races only, for any number *)
(* of tasks, instances, rows and calls.                                      *)

(* What is known of ids was given out.                                       *)
Numbered ==
    /\ last < nextId
    /\ \A i \in present : i < nextId
    /\ \A o \in Objs : pk[o] < nextId /\ \A i \in own[o] : i < nextId

(* The holders of a row, and those who had it, agree on its key.             *)
Keyed ==
    \A o \in Objs : \A i \in own[o] :
        /\ i \in present => row[i].key = key[o]
        /\ \A p \in Objs : i \in own[p] => key[p] = key[o]

(* The instances that get_or_create is about to insert.                      *)
Sought(c) == IF pc[c] = "create" THEN todo[c] ELSE {}

NotIdentified == \A c \in Callers : \A o \in Sought(c) : pk[o] = 0

(* What a search found out holds until the insertion, or there is a race.    *)
StillMissing ==
    \A c \in Callers : \A o \in Sought(c) \ raced : Matching(key[o]) = {}

Duplicates ==
    \A i, j \in present :
        /\ i < j /\ row[i].key = row[j].key
        /\ row[i].sought /\ row[j].sought
        => row[j].by \in raced

RaceInv ==
    /\ IInv /\ Numbered /\ NotIdentified
    /\ overtaken = {} => Keyed /\ StillMissing /\ Duplicates

(* Rows that are as they were, but for their last writer.                    *)
SameRows ==
    \A i \in present' :
        /\ i \in present
        /\ row'[i].key = row[i].key /\ row'[i].by = row[i].by
        /\ row'[i].sought = row[i].sought

LEMMA SoughtAreBorn ==
    ASSUME IInv, NEW c \in Callers, NEW o \in Sought(c)
    PROVE  o \in Objs /\ o \notin Unborn /\ o[1] = c /\ pc[c] = "create"
  BY DEF Sought, IInv, Belongs, Mine, Unborn, TypeOK, Objs

-----------------------------------------------------------------------------
(* Steps that insert nothing and load nothing                                *)

LEMMA QuietStep ==
    ASSUME RaceInv, TypeOK', UNCHANGED <<nextId, last, own, raced>>,
           overtaken \subseteq overtaken',
           overtaken = {} => SameRows, present' \subseteq present,
           \A o \in Objs \ Unborn : key'[o] = key[o],
           \A o \in Objs : pk'[o] = pk[o] \/ pk'[o] = last,
           \A c \in Callers : Sought(c)' \subseteq Sought(c),
           \A c \in Callers : \A o \in Sought(c)' : pk'[o] = pk[o]
    PROVE  Numbered' /\ NotIdentified'
           /\ (overtaken' = {} => Keyed' /\ StillMissing' /\ Duplicates')
<1>1. Numbered'
  BY DEF RaceInv, Numbered
<1>2. NotIdentified'
  BY DEF RaceInv, NotIdentified
<1>3. ASSUME overtaken' = {} PROVE Keyed' /\ StillMissing' /\ Duplicates'
  <2>1. Keyed /\ StillMissing /\ Duplicates /\ SameRows
    BY <1>3 DEF RaceInv
  <2>2. \A o \in Objs : own[o] # {} => key'[o] = key[o]
    BY DEF RaceInv, IInv, UnbornIsNew
  <2>3. Keyed'
    BY <2>1, <2>2 DEF Keyed, SameRows
  <2>4. ASSUME NEW c \in Callers, NEW o \in Sought(c)', o \notin raced
        PROVE  Matching(key[o])' = {} /\ key'[o] = key[o]
    <3>1. o \in Sought(c) /\ o \in Objs \ Unborn
      BY SoughtAreBorn DEF RaceInv
    <3>2. Matching(key[o]) = {} /\ key'[o] = key[o]
      BY <2>1, <2>4, <3>1 DEF StillMissing
    <3> QED
      BY <2>1, <3>2 DEF Matching, SameRows
  <2>5. StillMissing'
    BY <2>4 DEF StillMissing, Matching
  <2>6. Duplicates'
    BY <2>1 DEF Duplicates, SameRows
  <2> QED
    BY <2>3, <2>5, <2>6
<1> QED
  BY <1>1, <1>2, <1>3

LEMMA UpdatedKeys ==
    ASSUME RaceInv, NEW o \in Objs, pk[o] # 0, UpdateRow(o)
    PROVE  present' = present /\ (overtaken = {} => SameRows)
<1>1. present' = present
  BY UpdatedRow DEF RaceInv, IInv
<1>2. ASSUME overtaken = {} PROVE SameRows
  <2>1. row \in [present -> AnyRow]
    BY DEF RaceInv, IInv, TypeOK
  <2>2. CASE pk[o] \notin present
    BY <1>1, <2>2 DEF UpdateRow, SameRows
  <2>3. CASE pk[o] \in present
    <3>1. row[pk[o]].key = key[o]
      BY <1>2, <2>3 DEF RaceInv, IInv, Holds, Keyed
    <3>2. row' = [row EXCEPT ![pk[o]] = [row[pk[o]] EXCEPT !.wrote = o, !.key = key[o]]]
      BY <2>1, <2>3 DEF UpdateRow, AnyRow
    <3>3. \A i \in present \ {pk[o]} : row'[i] = row[i]
      BY <2>1, <2>3, <3>2
    <3>4. row'[pk[o]] = [row[pk[o]] EXCEPT !.wrote = o, !.key = key[o]]
      BY <2>1, <2>3, <3>2
    <3>5. row[pk[o]] \in AnyRow
      BY <2>1, <2>3
    <3>6. /\ row'[pk[o]].key = key[o] /\ row'[pk[o]].by = row[pk[o]].by
          /\ row'[pk[o]].sought = row[pk[o]].sought
      BY <3>4, <3>5 DEF AnyRow
    <3> QED
      BY <1>1, <3>1, <3>3, <3>6 DEF SameRows
  <2> QED
    BY <2>2, <2>3
<1> QED
  BY <1>1, <1>2

LEMMA DeletedKeys ==
    ASSUME RaceInv, NEW o \in Objs, Deleted(o)
    PROVE  present' \subseteq present /\ SameRows
  BY DeletedRow DEF RaceInv, IInv, SameRows

LEMMA SameRowsSame ==
    ASSUME row' = row PROVE present' = present /\ SameRows
  BY DEF SameRows, present

-----------------------------------------------------------------------------
(* Steps that load an instance or prepare one                                *)

LEMMA LoadStep ==
    ASSUME RaceInv, TypeOK', NEW c \in Callers, born[c] < MaxObjects,
           NEW i \in present, LoadFrom(c, i),
           UNCHANGED <<table, control, marks>>
    PROVE  Numbered' /\ NotIdentified'
           /\ (overtaken' = {} => Keyed' /\ StillMissing' /\ Duplicates')
<1> DEFINE n == NewOf(c)
<1>1. n \in Unborn /\ n \in Objs
  BY NewType DEF RaceInv, IInv, Unborn
<1>2. /\ own'[n] = {i} /\ pk'[n] = i /\ key'[n] = row[i].key
      /\ \A o \in Objs \ {n} : own'[o] = own[o] /\ pk'[o] = pk[o] /\ key'[o] = key[o]
  BY <1>1 DEF LoadFrom, RaceInv, IInv, TypeOK
<1>3. present' = present /\ row' = row /\ UNCHANGED <<nextId, last, pc, todo, raced, overtaken>>
  BY DEF table, control, marks, present
<1>4. \A d \in Callers : Sought(d)' = Sought(d) /\ n \notin Sought(d)
  BY <1>1, <1>3, SoughtAreBorn DEF RaceInv, Sought
<1>5. \A d \in Callers : Sought(d) \subseteq Objs
  BY SoughtAreBorn DEF RaceInv
<1> HIDE DEF n
<1>6. Numbered'
  BY <1>1, <1>2, <1>3 DEF RaceInv, Numbered
<1>7. NotIdentified'
  BY <1>2, <1>4, <1>5 DEF RaceInv, NotIdentified
<1>8. ASSUME overtaken' = {} PROVE Keyed' /\ StillMissing' /\ Duplicates'
  <2>1. Keyed /\ StillMissing /\ Duplicates
    BY <1>3, <1>8 DEF RaceInv
  <2>2. Keyed'
    BY <1>1, <1>2, <1>3, <2>1 DEF Keyed
  <2>3. StillMissing'
    BY <1>2, <1>3, <1>4, <1>5, <2>1 DEF StillMissing, Matching
  <2>4. Duplicates'
    BY <1>3, <2>1 DEF Duplicates
  <2> QED
    BY <2>2, <2>3, <2>4
<1> QED
  BY <1>6, <1>7, <1>8

LEMMA PrepareStep ==
    ASSUME RaceInv, TypeOK', NEW c \in Callers, born[c] < MaxObjects, NEW k \in Keys,
           Matching(k) = {}, Prepare(c, k), UNCHANGED <<table, marks>>
    PROVE  Numbered' /\ NotIdentified'
           /\ (overtaken' = {} => Keyed' /\ StillMissing' /\ Duplicates')
<1> DEFINE n == NewOf(c)
<1>1. n \in Unborn /\ n \in Objs
  BY NewType DEF RaceInv, IInv, Unborn
<1>2. own[n] = {} /\ pk[n] = 0
  BY <1>1 DEF RaceInv, IInv, UnbornIsNew
<1>3. key'[n] = k /\ \A o \in Objs \ {n} : key'[o] = key[o]
  BY <1>1 DEF Prepare, RaceInv, IInv, TypeOK
<1>4. /\ present' = present /\ row' = row
      /\ UNCHANGED <<nextId, last, raced, overtaken, own, pk>>
  BY DEF Prepare, table, marks, present
<1>5. /\ Sought(c)' = {n}
      /\ \A d \in Callers \ {c} :
            Sought(d)' = Sought(d) /\ n \notin Sought(d) /\ Sought(d) \subseteq Objs
  <2>1. /\ pc'[c] = "create" /\ todo'[c] = {n}
        /\ \A d \in Callers \ {c} : pc'[d] = pc[d] /\ todo'[d] = todo[d]
    BY EnterElsewhere DEF Prepare, RaceInv, IInv
  <2>2. \A d \in Callers : n \notin Sought(d) /\ Sought(d) \subseteq Objs
    BY <1>1, SoughtAreBorn DEF RaceInv
  <2> QED
    BY <2>1, <2>2 DEF Sought
<1> HIDE DEF n
<1>6. Numbered'
  BY <1>4 DEF RaceInv, Numbered
<1>7. NotIdentified'
  BY <1>2, <1>4, <1>5 DEF RaceInv, NotIdentified
<1>8. ASSUME overtaken' = {} PROVE Keyed' /\ StillMissing' /\ Duplicates'
  <2>1. Keyed /\ StillMissing /\ Duplicates
    BY <1>4, <1>8 DEF RaceInv
  <2>2. Keyed'
    BY <1>1, <1>2, <1>3, <1>4, <2>1 DEF Keyed
  <2>3. StillMissing'
    BY <1>3, <1>4, <1>5, <2>1 DEF StillMissing, Matching
  <2>4. Duplicates'
    BY <1>4, <2>1 DEF Duplicates
  <2> QED
    BY <2>2, <2>3, <2>4
<1> QED
  BY <1>6, <1>7, <1>8

-----------------------------------------------------------------------------
(* Steps that insert a row                                                   *)

LEMMA InsertStep ==
    ASSUME RaceInv, TypeOK', NEW c \in Callers, NEW o \in Objs, IdFor(o) \in Ids,
           InsertRow(c, o), pc[c] = "create" => o \in todo[c],
           UNCHANGED <<pk, key>>,
           Sought(c)' = {},
           \A d \in Callers \ {c} : Sought(d)' = Sought(d)
    PROVE  Numbered' /\ NotIdentified'
           /\ (overtaken' = {} => Keyed' /\ StillMissing' /\ Duplicates')
<1> DEFINE i == IdFor(o)
<1>1. /\ i \notin present /\ present' = present \cup {i}
      /\ row'[i] = RowOf(c, o) /\ \A j \in present : row'[j] = row[j]
  BY InsertedRow DEF RaceInv, IInv
<1>2. /\ row'[i].key = key[o] /\ row'[i].by = o
      /\ row'[i].sought = (pc[c] = "create")
  BY <1>1 DEF RowOf
<1>3. /\ nextId' = (IF i = nextId THEN i + 1 ELSE nextId) /\ last' = i
      /\ own'[o] = own[o] \cup {i} /\ \A p \in Objs \ {o} : own'[p] = own[p]
      /\ overtaken \subseteq overtaken' /\ raced' = raced \cup Seekers(c, key[o])
  BY DEF InsertRow, RaceInv, IInv, TypeOK
<1>4. i = nextId \/ (i = pk[o] /\ pk[o] # 0)
  BY DEF IdFor
<1>5. /\ nextId \in Nat /\ i \in Nat /\ last \in Nat /\ present \subseteq Nat
      /\ \A p \in Objs : pk[p] \in Nat /\ own[p] \subseteq Nat
  BY Bounds DEF RaceInv, IInv, TypeOK, Ids
<1>6. i < nextId' /\ nextId <= nextId'
  BY <1>3, <1>4, <1>5 DEF RaceInv, Numbered
<1>7. \A d \in Callers \ {c} : \A p \in Sought(d) : key[p] = key[o] => p \in raced'
  BY <1>3 DEF Sought, Seekers
<1> HIDE DEF i
<1>8. Numbered'
  <2>1. nextId' \in Nat
    BY <1>3, <1>5
  <2>2. last' < nextId' /\ \A j \in present' : j < nextId'
    BY <1>1, <1>3, <1>5, <1>6, <2>1 DEF RaceInv, Numbered
  <2>3. ASSUME NEW p \in Objs
        PROVE  pk'[p] < nextId' /\ \A j \in own'[p] : j < nextId'
    <3>1. pk[p] < nextId /\ \A j \in own[p] : j < nextId
      BY DEF RaceInv, Numbered
    <3>2. own'[p] \subseteq own[p] \cup {i} /\ own[p] \subseteq Nat /\ pk[p] \in Nat
      BY <1>3, <1>5
    <3> QED
      BY <1>5, <1>6, <2>1, <3>1, <3>2
  <2> QED
    BY <2>2, <2>3 DEF Numbered
<1>9. NotIdentified'
  BY DEF RaceInv, NotIdentified
<1>10. ASSUME overtaken' = {} PROVE Keyed' /\ StillMissing' /\ Duplicates'
  <2>1. Keyed /\ StillMissing /\ Duplicates /\ Holds
    BY <1>3, <1>10 DEF RaceInv, IInv
  <2>2. \A p \in Objs : i \in own[p] => key[p] = key[o]
    <3>1. CASE i = nextId
      BY <1>5, <3>1 DEF RaceInv, Numbered
    <3>2. CASE i = pk[o] /\ pk[o] # 0
      BY <2>1, <3>2 DEF Holds, Keyed
    <3> QED
      BY <1>4, <3>1, <3>2
  <2>3. Keyed'
    <3> SUFFICES ASSUME NEW p \in Objs, NEW j \in own'[p]
                 PROVE  /\ j \in present' => row'[j].key = key[p]
                        /\ \A q \in Objs : j \in own'[q] => key[q] = key[p]
      BY DEF Keyed
    <3>1. CASE j = i
      <4>1. key[p] = key[o]
        BY <1>3, <2>2, <3>1
      <4>2. \A q \in Objs : i \in own'[q] => key[q] = key[o]
        BY <1>3, <2>2
      <4> QED
        BY <1>2, <3>1, <4>1, <4>2
    <3>2. CASE j # i
      BY <1>1, <1>3, <2>1, <3>2 DEF Keyed
    <3> QED
      BY <3>1, <3>2
  <2>4. StillMissing'
    <3> SUFFICES ASSUME NEW d \in Callers \ {c}, NEW p \in Sought(d), p \notin raced'
                 PROVE  Matching(key[p])' = {}
      BY DEF StillMissing, Matching
    <3>1. key[p] # key[o] /\ Matching(key[p]) = {}
      BY <1>3, <1>7, <2>1 DEF StillMissing
    <3> QED
      BY <1>1, <1>2, <3>1 DEF Matching
  <2>5. Duplicates'
    <3> SUFFICES ASSUME NEW h \in present', NEW j \in present', h < j,
                        row'[h].key = row'[j].key, row'[h].sought, row'[j].sought,
                        row'[j].by \notin raced'
                 PROVE  FALSE
      BY DEF Duplicates
    <3>1. CASE h # i /\ j # i
      BY <1>1, <1>3, <2>1, <3>1 DEF Duplicates
    <3>2. CASE h = i \/ j = i
      <4>1. pc[c] = "create" /\ o \in Sought(c)
        BY <1>2, <3>2 DEF Sought
      <4>2. i = nextId
        BY <1>4, <4>1 DEF RaceInv, NotIdentified
      <4>3. j = i /\ h \in present
        BY <1>1, <1>5, <3>2, <4>2 DEF RaceInv, Numbered
      <4>4. o \notin raced /\ Matching(key[o]) = {}
        BY <1>2, <1>3, <2>1, <4>1, <4>3 DEF StillMissing
      <4> QED
        BY <1>1, <1>2, <4>3, <4>4 DEF Matching
    <3> QED
      BY <3>1, <3>2
  <2> QED
    BY <2>3, <2>4, <2>5
<1> QED
  BY <1>8, <1>9, <1>10
-----------------------------------------------------------------------------
(* Every step is of one of those kinds                                       *)

Kept == Numbered' /\ NotIdentified'
        /\ (overtaken' = {} => Keyed' /\ StillMissing' /\ Duplicates')

(* Steps of c that leave the instances to be inserted to the others.         *)
LEMMA SoughtElsewhere ==
    ASSUME NEW c \in Callers, pc'[c] # "create",
           \A d \in Callers \ {c} : pc'[d] = pc[d] /\ todo'[d] = todo[d]
    PROVE  Sought(c)' = {} /\ \A d \in Callers \ {c} : Sought(d)' = Sought(d)
  BY DEF Sought

LEMMA ControlSame ==
    ASSUME UNCHANGED control
    PROVE  \A c \in Callers : Sought(c)' = Sought(c)
  BY DEF Sought, control

(* Steps that leave ids, keys and races alone.                               *)
LEMMA SameStep ==
    ASSUME RaceInv, TypeOK', UNCHANGED <<nextId, last, own, key, pk, raced>>,
           overtaken \subseteq overtaken',
           overtaken = {} => SameRows, present' \subseteq present,
           \A c \in Callers : Sought(c)' \subseteq Sought(c)
    PROVE  Kept
  BY QuietStep DEF Kept

LEMMA ConstructRace ==
    ASSUME RaceInv, TypeOK', NEW c \in Callers, NEW k \in Keys, Construct(c, k)
    PROVE  Kept
<1>1. \A o \in Objs \ Unborn : key'[o] = key[o]
  <2>1. NewOf(c) \in Unborn
    BY NewType DEF Construct, RaceInv, IInv
  <2>2. key' = [key EXCEPT ![NewOf(c)] = k]
    BY DEF Construct
  <2> QED
    BY <2>1, <2>2 DEF RaceInv, IInv, TypeOK
<1>2. UNCHANGED <<control, row, nextId, last, own, pk, raced, overtaken>>
  BY DEF Construct, table, marks
<1> QED
  BY <1>1, <1>2, QuietStep, SameRowsSame, ControlSame DEF Kept

LEMMA GetRace ==
    ASSUME RaceInv, TypeOK', NEW c \in Callers, NEW k \in Keys,
           Get(c, k) \/ GetOrCreate(c, k)
    PROVE  Kept
<1>1. born[c] < MaxObjects /\ UNCHANGED <<table, marks>>
  BY DEF Get, GetOrCreate
<1>2. CASE \E i \in Matching(k) : LoadFrom(c, i) /\ UNCHANGED control
  <2>1. PICK i \in present : LoadFrom(c, i) /\ UNCHANGED control
    BY <1>2 DEF Matching
  <2> QED
    BY <1>1, <2>1, LoadStep DEF Kept
<1>3. CASE Matching(k) = {} /\ Prepare(c, k)
  BY <1>1, <1>3, PrepareStep DEF Kept
<1> QED
  BY <1>2, <1>3 DEF Get, GetOrCreate, Find

LEMMA InsertRace ==
    ASSUME RaceInv, TypeOK', NEW c \in Callers, NEW o \in Objs,
           Insert(c, o) \/ BulkCreate(c, o)
    PROVE  Kept
<1>0. TypeOK
  BY DEF RaceInv, IInv
<1>1. /\ UNCHANGED <<pk, key>> /\ IdFor(o) \in Ids
      /\ pc[c] = "create" => o \in todo[c]
  BY DEF Insert, BulkCreate, Call
<1>2. /\ pc'[c] # "create"
      /\ \A d \in Callers \ {c} : pc'[d] = pc[d] /\ todo'[d] = todo[d]
  <2>1. CASE Leave(c) \/ Enter(c, "lastid", {o})
    BY <1>0, <2>1, EnterElsewhere DEF Leave
  <2>2. CASE GoOn(c, o) /\ pc[c] = "bulk_create"
    BY <1>0, <2>2, GoOnElsewhere
  <2> QED
    BY <2>1, <2>2 DEF Insert, Inserted, BulkCreate
<1>3. Sought(c)' = {} /\ \A d \in Callers \ {c} : Sought(d)' = Sought(d)
  BY <1>2, SoughtElsewhere
<1>4. CASE InsertRow(c, o)
  BY <1>1, <1>3, <1>4, InsertStep DEF Kept
<1>5. CASE UNCHANGED <<table, own, overtaken, raced>>
  <2>1. \A d \in Callers : Sought(d)' \subseteq Sought(d)
    BY <1>3
  <2> QED
    BY <1>1, <1>5, <2>1, SameStep, SameRowsSame DEF table
<1> QED
  BY <1>4, <1>5 DEF Insert, BulkCreate

LEMMA WriteRace ==
    ASSUME RaceInv, TypeOK', NEW c \in Callers, NEW o \in Objs,
           \/ Update(c, o) \/ Delete(c, o)
           \/ BulkUpdate(c, o) \/ BulkDelete(c, o)
    PROVE  Kept
<1>0. TypeOK
  BY DEF RaceInv, IInv
<1>1. UNCHANGED <<nextId, last, own, key, pk, raced, overtaken>>
  BY DEF Update, Delete, BulkUpdate, BulkDelete, objects, marks
<1>2. \/ UNCHANGED row
      \/ pk[o] # 0 /\ UpdateRow(o)
      \/ Deleted(o)
  BY DEF Update, Delete, BulkUpdate, BulkDelete, Refused
<1>3. present' \subseteq present /\ (overtaken = {} => SameRows)
  BY <1>2, SameRowsSame, UpdatedKeys, DeletedKeys
<1>4. \A d \in Callers : Sought(d)' \subseteq Sought(d)
  <2>1. CASE Update(c, o) \/ Delete(c, o)
    BY <2>1, ControlSame DEF Update, Delete
  <2>2. CASE BulkUpdate(c, o) \/ BulkDelete(c, o)
    <3>1. pc[c] \in {"bulk_update", "bulk_delete"} /\ (Leave(c) \/ Proceed(c, o))
      BY <2>2 DEF BulkUpdate, BulkDelete, NoPk, AfterRefusal
    <3>2. /\ pc'[c] # "create"
          /\ \A d \in Callers \ {c} : pc'[d] = pc[d] /\ todo'[d] = todo[d]
      BY <1>0, <3>1, EnterElsewhere, ProceedElsewhere DEF Leave
    <3> QED
      BY <3>2, SoughtElsewhere
  <2> QED
    BY <2>1, <2>2
<1> QED
  BY <1>1, <1>3, <1>4, SameStep

LEMMA LastIdRace ==
    ASSUME RaceInv, TypeOK', NEW c \in Callers, LastId(c)
    PROVE  Kept
<1>1. /\ pc[c] = "lastid" /\ Leave(c)
      /\ UNCHANGED <<table, key, own, overtaken, raced>>
  BY DEF LastId
<1>2. PICK o \in todo[c] : AskLast(o) \/ UNCHANGED pk
  BY DEF LastId
<1>3. /\ Sought(c)' = {} /\ Sought(c) = {}
      /\ \A d \in Callers \ {c} : Sought(d)' = Sought(d)
  <2>1. /\ pc'[c] # "create"
        /\ \A d \in Callers \ {c} : pc'[d] = pc[d] /\ todo'[d] = todo[d]
    BY <1>1, EnterElsewhere DEF Leave, RaceInv, IInv
  <2> QED
    BY <1>1, <2>1, SoughtElsewhere DEF Sought
<1>4. o \in Objs /\ o[1] = c
  BY <1>2 DEF RaceInv, IInv, Belongs, Mine
<1>5. \A p \in Objs : pk'[p] = pk[p] \/ (p = o /\ pk'[p] = last)
  BY <1>2 DEF AskLast, RaceInv, IInv, TypeOK
<1>6. \A d \in Callers : \A p \in Sought(d)' : pk'[p] = pk[p]
  <2> SUFFICES ASSUME NEW d \in Callers \ {c}, NEW p \in Sought(d) PROVE pk'[p] = pk[p]
    BY <1>3
  <2>1. p \in Objs /\ p[1] = d
    BY SoughtAreBorn DEF RaceInv
  <2> QED
    BY <1>4, <1>5, <2>1
<1> QED
  BY <1>1, <1>3, <1>5, <1>6, QuietStep, SameRowsSame DEF Kept, table

LEMMA BeginBulkRace ==
    ASSUME RaceInv, TypeOK', NEW c \in Callers, NEW S \in SUBSET Mine(c),
           NEW kind \in ListKinds, BeginBulk(c, kind, S)
    PROVE  Kept
<1>1. UNCHANGED <<table, objects, marks>> /\ Enter(c, kind, S) /\ kind # "create"
  BY DEF BeginBulk, ListKinds
<1>2. /\ pc'[c] # "create"
      /\ \A d \in Callers \ {c} : pc'[d] = pc[d] /\ todo'[d] = todo[d]
  BY <1>1, EnterElsewhere DEF RaceInv, IInv
<1> QED
  BY <1>1, <1>2, SoughtElsewhere, SameStep, SameRowsSame DEF table, objects, marks

LEMMA NextRace == RaceInv /\ [Next]_vars => RaceInv'
<1> SUFFICES ASSUME RaceInv, [Next]_vars PROVE RaceInv'
  OBVIOUS
<1>1. IInv' /\ TypeOK'
  BY NextIInv, NextType DEF RaceInv, IInv
<1>2. CASE Next
  <2>1. PICK c \in Callers : Act(c)
    BY <1>2 DEF Next
  <2>2. Kept
    BY <1>1, <2>1, ConstructRace, GetRace, InsertRace, WriteRace, LastIdRace,
       BeginBulkRace, MineIs DEF Act, OfInstance
  <2> QED
    BY <1>1, <2>2 DEF RaceInv, Kept
<1>3. CASE UNCHANGED vars
  <2>1. Kept
    BY <1>1, <1>3, SameStep, SameRowsSame, ControlSame DEF vars, control
  <2> QED
    BY <1>1, <2>1 DEF RaceInv, Kept
<1> QED
  BY <1>2, <1>3

LEMMA InitRace == Init => RaceInv
<1> SUFFICES ASSUME Init PROVE RaceInv
  OBVIOUS
<1>1. present = {}
  BY DEF Init, present
<1> QED
  BY <1>1, InitIInv DEF Init, RaceInv, Numbered, NotIdentified, Sought, Keyed,
     StillMissing, Duplicates

LEMMA RaceInvariant == Spec => []RaceInv
  BY InitRace, NextRace, PTL DEF Spec

(* Two rows of one key that get_or_create inserted come from a race between  *)
(* its search and its INSERT, as long as no question for an id is overtaken. *)
THEOREM DuplicatesAreRaces == Spec => []DuplicatesOnlyFromRaces
<1>1. RaceInv => DuplicatesOnlyFromRaces
  BY DEF RaceInv, Duplicates, DuplicatesOnlyFromRaces
<1> QED
  BY <1>1, RaceInvariant, PTL

-----------------------------------------------------------------------------
(* That _saved_in_db tells the truth between calls, for any number of tasks, *)
(* instances, rows and calls.                                                *)

(* The rows of an instance that are in the table.                            *)
Stored(o) == own[o] \cap present

Settled(o) == ~Untold(o)

(* What pk, _saved_in_db and the call that holds an instance say of its rows *)
Truth(o) ==
    /\ pk[o] # 0 => Stored(o) \subseteq {pk[o]}
    /\ pc[o[1]] = "lastid" /\ o \in todo[o[1]] => Stored(o) = {last}
    /\ pc[o[1]] = "bulk_create" /\ o \in done[o[1]] => Stored(o) # {}
    /\ pc[o[1]] = "create" /\ o \in todo[o[1]] => ~saved[o]
    /\ Settled(o) => (saved[o] <=> Stored(o) # {})

SavedInv ==
    /\ RaceInv
    /\ overtaken = {} => \A o \in Objs \ doubtful : Private(o) => Truth(o)

-----------------------------------------------------------------------------
(* Instances a step has nothing to do with                                   *)

Alike(o) ==
    /\ own'[o] = own[o] /\ pk'[o] = pk[o] /\ Stored(o)' = Stored(o)
    /\ saved'[o] = saved[o]

(* Histories only grow: what is private now has always been.                 *)
LEMMA Before ==
    ASSUME SavedInv, \A o \in Objs : own[o] \subseteq own'[o],
           overtaken \subseteq overtaken', doubtful \subseteq doubtful',
           overtaken' = {}, NEW p \in Objs, p \notin doubtful', Private(p)'
    PROVE  overtaken = {} /\ Private(p) /\ Truth(p) /\ Holds
  BY DEF SavedInv, RaceInv, IInv, Private

(* Nothing happens to p or its task.                                         *)
LEMMA Undisturbed ==
    ASSUME NEW p \in Objs, Truth(p), Alike(p),
           LET c == p[1] IN /\ pc'[c] = pc[c] /\ todo'[c] = todo[c]
                            /\ done'[c] = done[c],
           last' = last \/ ~(pc[p[1]] = "lastid" /\ p \in todo[p[1]])
    PROVE  Truth(p)'
  BY DEF Truth, Alike, Untold, Settled

(* The task of p moves, and has p in no list whose rows are in question.     *)
LEMMA Resting ==
    ASSUME NEW p \in Objs, Truth(p), Alike(p), Settled(p), Settled(p)',
           pc'[p[1]] = "create" /\ p \in todo'[p[1]] => ~saved[p],
           ~(pc'[p[1]] = "lastid" /\ p \in todo'[p[1]])
    PROVE  Truth(p)'
  BY DEF Truth, Alike, Untold, Settled

LEMMA TaskOf == ASSUME NEW p \in Objs PROVE p[1] \in Callers
  BY DEF Objs

LEMMA ListsOf ==
    ASSUME IInv, NEW c \in Callers, NEW p \in todo[c] \cup done[c]
    PROVE  p \in Objs /\ p[1] = c /\ pc[c] # "idle"
  BY DEF IInv, Belongs, Mine

-----------------------------------------------------------------------------
(* Steps on the table                                                        *)

(* An insertion is of no row that is private to another.                     *)
LEMMA InsertStored ==
    ASSUME RaceInv, overtaken = {}, NEW c \in Callers, NEW o \in Objs,
           IdFor(o) \in Ids, InsertRow(c, o)
    PROVE  /\ Stored(o)' = Stored(o) \cup {IdFor(o)}
           /\ \A p \in Objs \ {o} :
                own'[p] = own[p] /\ (Private(p) => Stored(p)' = Stored(p))
           /\ \A p \in Objs : own[p] \subseteq own'[p]
           /\ pk[o] # 0 => IdFor(o) = pk[o]
           /\ last' = IdFor(o) /\ AskingIds(c) \subseteq overtaken'
           /\ overtaken \subseteq overtaken'
<1> DEFINE i == IdFor(o)
<1>1. i \notin present /\ present' = present \cup {i}
  BY InsertedRow DEF RaceInv, IInv
<1>2. /\ own'[o] = own[o] \cup {i} /\ \A p \in Objs \ {o} : own'[p] = own[p]
      /\ last' = i /\ AskingIds(c) \subseteq overtaken' /\ overtaken \subseteq overtaken'
  BY DEF InsertRow, RaceInv, IInv, TypeOK
<1>3. i = nextId \/ (i = pk[o] /\ pk[o] # 0)
  BY DEF IdFor
<1>4. pk[o] # 0 => i = pk[o]
  BY DEF IdFor
<1> HIDE DEF i
<1>5. ASSUME NEW p \in Objs \ {o}, Private(p) PROVE i \notin own[p]
  <2>1. CASE i = nextId
    <3>1. nextId \in Nat
      BY Bounds DEF RaceInv, IInv, TypeOK
    <3> QED
      BY <2>1, <3>1 DEF RaceInv, Numbered
  <2>2. CASE i = pk[o] /\ pk[o] # 0
    BY <1>5, <2>2 DEF RaceInv, IInv, Holds, Private
  <2> QED
    BY <1>3, <2>1, <2>2
<1>6. \A p \in Objs \ {o} : Private(p) => Stored(p)' = Stored(p)
  BY <1>1, <1>2, <1>5 DEF Stored
<1>7. Stored(o)' = Stored(o) \cup {i}
  <2>1. own[o] \cap {i} \subseteq {i}
    OBVIOUS
  <2> QED
    BY <1>1, <1>2, <2>1 DEF Stored
<1> QED
  BY <1>2, <1>4, <1>6, <1>7 DEF i

LEMMA DeleteStored ==
    ASSUME RaceInv, overtaken = {}, NEW o \in Objs, pk[o] # 0, Deleted(o), own' = own
    PROVE  /\ Stored(o)' = Stored(o) \ {pk[o]} /\ saved'[o] = FALSE
           /\ \A p \in Objs \ {o} :
                saved'[p] = saved[p] /\ (Private(p) => Stored(p)' = Stored(p))
<1>1. present' = present \ {pk[o]}
  BY DeletedRow DEF RaceInv, IInv
<1>2. pk[o] \in own[o]
  BY DEF RaceInv, IInv, Holds
<1>3. saved'[o] = FALSE /\ \A p \in Objs \ {o} : saved'[p] = saved[p]
  BY DEF Deleted, Unsaved, RaceInv, IInv, TypeOK
<1> QED
  BY <1>1, <1>2, <1>3 DEF Stored, Private

LEMMA StoredSame ==
    ASSUME present' = present, NEW p, own'[p] = own[p]
    PROVE  Stored(p)' = Stored(p)
  BY DEF Stored

-----------------------------------------------------------------------------
(* What each action does to the truth                                        *)

Told == overtaken' = {} => \A p \in Objs \ doubtful' : Private(p)' => Truth(p)'

LEMMA QuietTold ==
    ASSUME SavedInv,
           present' = present, UNCHANGED <<last, control, pk, saved, own, doubtful, overtaken>>
    PROVE  Told
<1> SUFFICES ASSUME overtaken' = {}, NEW p \in Objs, p \notin doubtful', Private(p)'
             PROVE  Truth(p)'
  BY DEF Told
<1>1. Truth(p)
  BY Before
<1>2. Alike(p)
  BY StoredSame DEF Alike
<1> QED
  BY <1>1, <1>2, Undisturbed DEF control

LEMMA UpdateTold ==
    ASSUME SavedInv, NEW c \in Callers, NEW o \in Objs, Update(c, o)
    PROVE  Told
<1>1. present' = present
  BY UpdatedRow DEF Update, SavedInv, RaceInv, IInv, present
<1> QED
  BY <1>1, QuietTold DEF Update, objects, marks

LEMMA ConstructTold ==
    ASSUME SavedInv, NEW c \in Callers, NEW k \in Keys, Construct(c, k)
    PROVE  Told
  BY QuietTold DEF Construct, table, marks, present

LEMMA GetTold ==
    ASSUME SavedInv, NEW c \in Callers, NEW k \in Keys, Get(c, k) \/ GetOrCreate(c, k)
    PROVE  Told
<1> SUFFICES ASSUME overtaken' = {}, NEW p \in Objs, p \notin doubtful', Private(p)'
             PROVE  Truth(p)'
  BY DEF Told
<1>0. TypeOK /\ IInv
  BY DEF SavedInv, RaceInv, IInv
<1>1. /\ born[c] < MaxObjects /\ pc[c] = "idle" /\ UNCHANGED <<table, marks>>
      /\ present' = present
  BY DEF Get, GetOrCreate, Call, table, present
<1>2. NewOf(c) \in Unborn /\ NewOf(c) \in Objs /\ NewOf(c)[1] = c
  BY <1>0, <1>1, NewType DEF Unborn
<1>3. own[NewOf(c)] = {} /\ ~saved[NewOf(c)]
  BY <1>0, <1>2 DEF IInv, UnbornIsNew
<1>4. \A d \in Callers : NewOf(c) \notin todo[d] \cup done[d]
  BY <1>0, <1>2 DEF IInv, Belongs, Mine, Unborn, TypeOK, Objs
<1>5. CASE \E i \in Matching(k) : LoadFrom(c, i) /\ UNCHANGED control
  <2>1. PICK i \in present : LoadFrom(c, i) /\ UNCHANGED control
    BY <1>5 DEF Matching
  <2>2. /\ own'[NewOf(c)] = {i} /\ pk'[NewOf(c)] = i /\ saved'[NewOf(c)]
        /\ \A o \in Objs \ {NewOf(c)} :
              own'[o] = own[o] /\ pk'[o] = pk[o] /\ saved'[o] = saved[o]
    BY <1>0, <1>2, <2>1 DEF LoadFrom, TypeOK
  <2>3. Truth(p)
    BY <1>1, <1>3, <2>2, Before DEF marks
  <2>4. CASE p = NewOf(c)
    <3>1. Stored(p)' = {i}
      BY <1>1, <2>1, <2>2, <2>4 DEF Stored
    <3>2. p \notin done'[c] /\ p \notin todo'[c] /\ p[1] = c
      BY <1>0, <1>2, <1>4, <2>1, <2>4 DEF control
    <3> QED
      BY <2>2, <2>4, <3>1, <3>2 DEF Truth
  <2>5. CASE p # NewOf(c)
    <3>1. Alike(p)
      BY <1>1, <2>2, <2>5, StoredSame DEF Alike
    <3> QED
      BY <1>1, <2>1, <2>3, <3>1, Undisturbed DEF control, table
  <2> QED
    BY <2>4, <2>5
<1>6. CASE Prepare(c, k)
  <2>1. /\ UNCHANGED <<pk, saved, own>> /\ Enter(c, "create", {NewOf(c)})
    BY <1>6 DEF Prepare
  <2>2. /\ pc'[c] = "create" /\ todo'[c] = {NewOf(c)}
        /\ \A d \in Callers \ {c} :
              pc'[d] = pc[d] /\ todo'[d] = todo[d] /\ done'[d] = done[d]
    BY <1>0, <2>1, EnterElsewhere
  <2>3. Truth(p) /\ Alike(p)
    BY <1>1, <2>1, Before, StoredSame DEF Alike, marks
  <2>4. CASE p[1] = c
    <3>1. Settled(p) /\ Settled(p)'
      BY <1>1, <2>2, <2>4 DEF Settled, Untold
    <3> QED
      BY <1>3, <2>2, <2>3, <2>4, <3>1, Resting
  <2>5. CASE p[1] # c
    BY <1>1, <2>2, <2>3, <2>5, TaskOf, Undisturbed DEF table
  <2> QED
    BY <2>4, <2>5
<1> QED
  BY <1>5, <1>6 DEF Get, GetOrCreate, Find
LEMMA DeleteTold ==
    ASSUME SavedInv, NEW c \in Callers, NEW o \in Objs, Delete(c, o)
    PROVE  Told
<1>1. pk[o] # 0 /\ pc[c] = "idle" /\ o[1] = c
      /\ UNCHANGED <<last, control, pk, own, doubtful, overtaken>>
  BY DEF Delete, Call, Mine, marks
<1>2. CASE UNCHANGED <<row, saved>>
  BY <1>1, <1>2, QuietTold DEF present
<1>3. CASE Deleted(o)
  <2> SUFFICES ASSUME overtaken' = {}, NEW p \in Objs, p \notin doubtful', Private(p)'
               PROVE  Truth(p)'
    BY DEF Told
  <2>1. Truth(p) /\ Private(p) /\ overtaken = {}
    BY <1>1, Before
  <2>2. /\ Stored(o)' = Stored(o) \ {pk[o]} /\ saved'[o] = FALSE
        /\ (p # o => saved'[p] = saved[p] /\ Stored(p)' = Stored(p))
    BY <1>1, <1>3, <2>1, DeleteStored DEF SavedInv
  <2>3. CASE p = o
    <3>1. Stored(o)' = {}
      BY <1>1, <2>1, <2>2, <2>3 DEF Truth
    <3> QED
      BY <1>1, <2>2, <2>3, <3>1 DEF Truth, Untold, Settled, control
  <2>4. CASE p # o
    <3>1. Alike(p)
      BY <1>1, <2>2, <2>4 DEF Alike
    <3> QED
      BY <1>1, <2>1, <3>1, Undisturbed DEF control
  <2> QED
    BY <2>3, <2>4
<1> QED
  BY <1>2, <1>3 DEF Delete, Refused

LEMMA BulkWriteTold ==
    ASSUME SavedInv, NEW c \in Callers, NEW o \in Objs,
           BulkUpdate(c, o) \/ BulkDelete(c, o)
    PROVE  Told
<1> SUFFICES ASSUME overtaken' = {}, NEW p \in Objs, p \notin doubtful', Private(p)'
             PROVE  Truth(p)'
  BY DEF Told
<1>0. TypeOK /\ IInv /\ RaceInv
  BY DEF SavedInv, RaceInv, IInv
<1>1. /\ pc[c] \in {"bulk_update", "bulk_delete"} /\ o \in todo[c]
      /\ Leave(c) \/ Proceed(c, o)
      /\ UNCHANGED <<last, pk, own, doubtful, overtaken>>
  BY DEF BulkUpdate, BulkDelete, NoPk, AfterRefusal, objects, marks
<1>2. /\ pc'[c] \in {"idle", "bulk_update", "bulk_delete"}
      /\ \A d \in Callers \ {c} :
            pc'[d] = pc[d] /\ todo'[d] = todo[d] /\ done'[d] = done[d]
  BY <1>0, <1>1, EnterElsewhere, ProceedElsewhere DEF Leave
<1>3. Truth(p) /\ Private(p) /\ overtaken = {}
  BY <1>1, Before
<1>4. o[1] = c
  BY <1>0, <1>1, ListsOf
<1>5. CASE Alike(p)
  <2>1. CASE p[1] = c
    <3>1. Settled(p) /\ Settled(p)'
      BY <1>1, <1>2, <2>1 DEF Settled, Untold
    <3> QED
      BY <1>2, <1>3, <1>5, <2>1, <3>1, Resting
  <2>2. CASE p[1] # c
    BY <1>1, <1>2, <1>3, <1>5, <2>2, TaskOf, Undisturbed
  <2> QED
    BY <2>1, <2>2
<1>6. CASE Deleted(o) /\ pk[o] # 0
  <2>1. /\ Stored(o)' = Stored(o) \ {pk[o]} /\ saved'[o] = FALSE
        /\ (p # o => saved'[p] = saved[p] /\ Stored(p)' = Stored(p))
    BY <1>0, <1>1, <1>3, <1>6, DeleteStored
  <2>2. CASE p = o
    <3>1. Stored(o)' = {}
      BY <1>3, <1>6, <2>1, <2>2 DEF Truth
    <3> QED
      BY <1>2, <1>4, <2>1, <2>2, <3>1 DEF Truth, Untold, Settled
  <2>3. CASE p # o
    BY <1>1, <1>5, <2>1, <2>3 DEF Alike
  <2> QED
    BY <2>2, <2>3
<1>7. CASE present' = present /\ saved' = saved
  BY <1>1, <1>5, <1>7, StoredSame DEF Alike
<1>8. \/ Deleted(o) /\ pk[o] # 0
      \/ present' = present /\ saved' = saved
  <2>1. CASE BulkUpdate(c, o)
    BY <1>0, <2>1, UpdatedRow DEF BulkUpdate, objects, present
  <2>2. CASE BulkDelete(c, o)
    BY <2>2 DEF BulkDelete, Refused, present
  <2> QED
    BY <2>1, <2>2
<1> QED
  BY <1>6, <1>7, <1>8

LEMMA BeginBulkTold ==
    ASSUME SavedInv, NEW c \in Callers, NEW S \in SUBSET Mine(c),
           NEW kind \in ListKinds, BeginBulk(c, kind, S)
    PROVE  Told
<1> SUFFICES ASSUME overtaken' = {}, NEW p \in Objs, p \notin doubtful', Private(p)'
             PROVE  Truth(p)'
  BY DEF Told
<1>0. TypeOK
  BY DEF SavedInv, RaceInv, IInv
<1>1. /\ pc[c] = "idle" /\ kind \in {"bulk_create", "bulk_update", "bulk_delete"}
      /\ Enter(c, kind, S)
      /\ UNCHANGED <<row, last, pk, saved, own, doubtful, overtaken>>
      /\ present' = present
  BY DEF BeginBulk, Call, table, objects, marks, present, ListKinds
<1>2. /\ pc'[c] = kind /\ done'[c] = {}
      /\ \A d \in Callers \ {c} :
            pc'[d] = pc[d] /\ todo'[d] = todo[d] /\ done'[d] = done[d]
  BY <1>0, <1>1, EnterElsewhere
<1>3. Truth(p) /\ Alike(p)
  BY <1>1, Before, StoredSame DEF Alike
<1>4. CASE p[1] # c
  BY <1>1, <1>2, <1>3, <1>4, TaskOf, Undisturbed
<1>5. CASE p[1] = c
  <2>1. Settled(p) /\ Settled(p)'
    BY <1>1, <1>2, <1>5 DEF Settled, Untold
  <2> QED
    BY <1>1, <1>2, <1>3, <1>5, <2>1, Resting
<1> QED
  BY <1>4, <1>5

LEMMA LastIdTold ==
    ASSUME SavedInv, NEW c \in Callers, LastId(c)
    PROVE  Told
<1> SUFFICES ASSUME overtaken' = {}, NEW p \in Objs, p \notin doubtful', Private(p)'
             PROVE  Truth(p)'
  BY DEF Told
<1>0. TypeOK /\ IInv
  BY DEF SavedInv, RaceInv, IInv
<1>1. PICK o \in todo[c] :
        \/ AskLast(o) /\ saved' = [saved EXCEPT ![o] = TRUE] /\ UNCHANGED doubtful
        \/ doubtful' = doubtful \cup {o} /\ UNCHANGED <<pk, saved>>
  BY DEF LastId
<1>2. /\ pc[c] = "lastid" /\ Leave(c)
      /\ UNCHANGED <<row, last, own, overtaken>> /\ present' = present
  BY DEF LastId, table, present
<1>3. /\ pc'[c] = "idle" /\ todo'[c] = {} /\ done'[c] = {}
      /\ \A d \in Callers \ {c} :
            pc'[d] = pc[d] /\ todo'[d] = todo[d] /\ done'[d] = done[d]
  BY <1>0, <1>2, EnterElsewhere DEF Leave
<1>4. o \in Objs /\ o[1] = c /\ todo[c] = {o}
  BY <1>0, <1>1, <1>2, ListsOf DEF IInv, Belongs
<1>5. Truth(p)
  BY <1>1, <1>2, Before
<1>6. Stored(p)' = Stored(p)
  BY <1>2, StoredSame
<1>7. CASE p = o
  <2>1. pk' = [pk EXCEPT ![o] = last] /\ saved' = [saved EXCEPT ![o] = TRUE]
    BY <1>1, <1>7 DEF AskLast
  <2>2. pk'[o] = last /\ saved'[o]
    BY <1>0, <1>4, <2>1 DEF TypeOK
  <2>3. Stored(o) = {last}
    BY <1>1, <1>2, <1>4, <1>5, <1>7 DEF Truth
  <2> QED
    BY <1>3, <1>4, <1>6, <1>7, <2>2, <2>3 DEF Truth
<1>8. CASE p # o
  <2>1. Alike(p)
    BY <1>0, <1>1, <1>2, <1>6, <1>8 DEF Alike, AskLast, TypeOK
  <2>2. CASE p[1] = c
    <3>1. Settled(p) /\ Settled(p)'
      BY <1>2, <1>3, <1>4, <1>8, <2>2 DEF Settled, Untold
    <3> QED
      BY <1>3, <1>5, <2>1, <2>2, <3>1, Resting
  <2>3. CASE p[1] # c
    BY <1>2, <1>3, <1>5, <2>1, <2>3, TaskOf, Undisturbed
  <2> QED
    BY <2>2, <2>3
<1> QED
  BY <1>7, <1>8

LEMMA InsertTold ==
    ASSUME SavedInv, NEW c \in Callers, NEW o \in Objs, Insert(c, o)
    PROVE  Told
<1> SUFFICES ASSUME overtaken' = {}, NEW p \in Objs, p \notin doubtful', Private(p)'
             PROVE  Truth(p)'
  BY DEF Told
<1>0. TypeOK /\ IInv /\ RaceInv
  BY DEF SavedInv, RaceInv, IInv
<1>1. /\ IdFor(o) \in Ids /\ UNCHANGED <<pk, doubtful>> /\ pc[c] \in {"idle", "create"}
      /\ pc[c] = "idle" => ~saved[o]
      /\ pc[c] = "create" => o \in todo[c]
      /\ o[1] = c
  BY <1>0, ListsOf DEF Insert, Call, Mine
<1>2. ASSUME NEW q \in Objs, q[1] = c PROVE Settled(q)
  BY <1>1, <1>2 DEF Settled, Untold
<1>3. CASE InsertRow(c, o) /\ Inserted(c, o)
  <2>1. overtaken = {}
    BY <1>3 DEF InsertRow
  <2>2. /\ Stored(o)' = Stored(o) \cup {IdFor(o)}
        /\ \A q \in Objs \ {o} :
              own'[q] = own[q] /\ (Private(q) => Stored(q)' = Stored(q))
        /\ \A q \in Objs : own[q] \subseteq own'[q]
        /\ pk[o] # 0 => IdFor(o) = pk[o]
        /\ last' = IdFor(o) /\ AskingIds(c) \subseteq overtaken'
        /\ overtaken \subseteq overtaken'
    BY <1>0, <1>1, <1>3, <2>1, InsertStored
  <2>3. Truth(p) /\ Private(p)
    BY <1>1, <2>2, Before
  <2>4. \/ /\ pc'[c] = "lastid" /\ todo'[c] = {o} /\ done'[c] = {}
           /\ saved' = saved
        \/ /\ pc'[c] = "idle" /\ todo'[c] = {} /\ done'[c] = {}
           /\ saved' = [saved EXCEPT ![o] = TRUE]
    BY <1>0, <1>3, EnterElsewhere DEF Inserted, Leave
  <2>5. \A d \in Callers \ {c} :
           pc'[d] = pc[d] /\ todo'[d] = todo[d] /\ done'[d] = done[d]
    BY <1>0, <1>3, EnterElsewhere DEF Inserted, Leave
  <2>6. CASE p = o
    <3>1. ~saved[o]
      BY <1>1, <2>3, <2>6 DEF Truth
    <3>2. Stored(o) = {}
      BY <1>1, <1>2, <2>3, <2>6, <3>1 DEF Truth
    <3>3. Stored(o)' = {IdFor(o)} /\ pk'[o] = pk[o]
      BY <1>1, <2>2, <3>2
    <3>4. CASE pc'[c] = "lastid" /\ todo'[c] = {o} /\ done'[c] = {} /\ saved' = saved
      BY <1>1, <2>2, <2>6, <3>1, <3>3, <3>4 DEF Truth, Untold, Settled
    <3>5. CASE pc'[c] = "idle" /\ saved' = [saved EXCEPT ![o] = TRUE]
      <4>1. saved'[o]
        BY <1>0, <3>5 DEF TypeOK
      <4> QED
        BY <1>1, <2>2, <2>6, <3>3, <3>5, <4>1 DEF Truth, Untold, Settled
    <3> QED
      BY <2>4, <3>4, <3>5
  <2>7. CASE p # o
    <3>1. Alike(p)
      BY <1>0, <1>1, <2>2, <2>3, <2>4, <2>7 DEF Alike, TypeOK
    <3>2. CASE p[1] = c
      <4>1. Settled(p) /\ Settled(p)'
        BY <1>2, <2>4, <2>7, <3>2 DEF Settled, Untold
      <4> QED
        BY <2>3, <2>4, <2>7, <3>1, <3>2, <4>1, Resting
    <3>3. CASE p[1] # c
      <4>1. ~(pc[p[1]] = "lastid" /\ p \in todo[p[1]])
        BY <2>2, <3>3, TaskOf DEF AskingIds
      <4> QED
        BY <2>3, <2>5, <3>1, <3>3, <4>1, TaskOf, Undisturbed
    <3> QED
      BY <3>2, <3>3
  <2> QED
    BY <2>6, <2>7
<1>4. CASE Leave(c) /\ UNCHANGED <<table, saved, own, overtaken, raced>>
  <2>1. /\ pc'[c] = "idle" /\ todo'[c] = {} /\ done'[c] = {}
        /\ \A d \in Callers \ {c} :
              pc'[d] = pc[d] /\ todo'[d] = todo[d] /\ done'[d] = done[d]
        /\ present' = present /\ last' = last
    BY <1>0, <1>4, EnterElsewhere DEF Leave, table, present
  <2>2. Truth(p) /\ Alike(p)
    BY <1>1, <1>4, <2>1, Before, StoredSame DEF Alike
  <2>3. CASE p[1] = c
    <3>1. Settled(p) /\ Settled(p)'
      BY <1>2, <2>1, <2>3 DEF Settled, Untold
    <3> QED
      BY <2>1, <2>2, <2>3, <3>1, Resting
  <2>4. CASE p[1] # c
    BY <2>1, <2>2, <2>4, TaskOf, Undisturbed
  <2> QED
    BY <2>3, <2>4
<1> QED
  BY <1>3, <1>4 DEF Insert

LEMMA BulkCreateTold ==
    ASSUME SavedInv, NEW c \in Callers, NEW o \in Objs, BulkCreate(c, o)
    PROVE  Told
<1> SUFFICES ASSUME overtaken' = {}, NEW p \in Objs, p \notin doubtful', Private(p)'
             PROVE  Truth(p)'
  BY DEF Told
<1>0. TypeOK /\ IInv /\ RaceInv
  BY DEF SavedInv, RaceInv, IInv
<1>1. /\ IdFor(o) \in Ids /\ UNCHANGED pk /\ pc[c] = "bulk_create" /\ o \in todo[c]
      /\ o[1] = c
  BY <1>0, ListsOf DEF BulkCreate
<1>2. \A q \in todo[c] \cup done[c] : q \in Objs /\ q[1] = c
  BY <1>0, ListsOf
<1>3. CASE /\ InsertRow(c, o) /\ Relisted(c, o) /\ UNCHANGED doubtful
           /\ BulkGoesOn(c, o) \/ BulkEnds(c, o)
  <2>1. overtaken = {}
    BY <1>3 DEF InsertRow
  <2>2. /\ Stored(o)' = Stored(o) \cup {IdFor(o)}
        /\ \A q \in Objs \ {o} :
              own'[q] = own[q] /\ (Private(q) => Stored(q)' = Stored(q))
        /\ \A q \in Objs : own[q] \subseteq own'[q]
        /\ pk[o] # 0 => IdFor(o) = pk[o]
        /\ last' = IdFor(o) /\ AskingIds(c) \subseteq overtaken'
        /\ overtaken \subseteq overtaken'
    BY <1>0, <1>1, <1>3, <2>1, InsertStored
  <2>3. Truth(p) /\ Private(p)
    BY <1>3, <2>2, Before
  <2>4. \/ /\ pc'[c] = "idle" /\ todo'[c] = {} /\ done'[c] = {}
           /\ \A q \in Objs : saved'[q] <=> saved[q] \/ q \in done[c] \cup {o}
        \/ /\ pc'[c] = "bulk_create" /\ done'[c] = done[c] \cup {o}
           /\ saved' = saved
    <3>1. CASE BulkEnds(c, o)
      <4>1. Enter(c, "idle", {})
        BY <3>1 DEF BulkEnds, Leave
      <4>2. pc'[c] = "idle" /\ todo'[c] = {} /\ done'[c] = {}
        BY <1>0, <4>1, EnterElsewhere
      <4>3. \A q \in Objs : saved'[q] <=> saved[q] \/ q \in done[c] \cup {o}
        <5>1. saved' = [q \in Objs |-> saved[q] \/ q \in done[c] \cup {o}]
          BY <3>1 DEF BulkEnds
        <5> QED
          BY <5>1
      <4> QED
        BY <4>2, <4>3
    <3>2. CASE BulkGoesOn(c, o)
      BY <1>0, <1>1, <3>2, GoOnElsewhere DEF BulkGoesOn, TypeOK
    <3> QED
      BY <1>3, <3>1, <3>2
  <2>5. \A d \in Callers \ {c} :
           pc'[d] = pc[d] /\ todo'[d] = todo[d] /\ done'[d] = done[d]
    <3>1. CASE BulkEnds(c, o)
      BY <1>0, <3>1, EnterElsewhere DEF BulkEnds, Leave
    <3>2. CASE BulkGoesOn(c, o)
      BY <1>0, <3>2, GoOnElsewhere DEF BulkGoesOn, TypeOK
    <3> QED
      BY <1>3, <3>1, <3>2
  <2>6. saved[p] \in BOOLEAN /\ saved'[p] \in BOOLEAN
    <3>1. CASE BulkEnds(c, o)
      BY <1>0, <3>1 DEF BulkEnds, TypeOK
    <3>2. CASE BulkGoesOn(c, o)
      BY <1>0, <3>2 DEF BulkGoesOn, TypeOK
    <3> QED
      BY <1>3, <3>1, <3>2
  <2>7. CASE p \in done[c] \cup {o}
    <3>1. p[1] = c
      BY <1>1, <1>2, <2>7
    <3>2. Stored(p)' # {}
      BY <1>1, <2>2, <2>3, <2>7, <3>1 DEF Truth
    <3>3. pk'[p] # 0 => Stored(p)' \subseteq {pk'[p]}
      BY <1>1, <2>2, <2>3 DEF Truth
    <3>4. CASE pc'[c] = "idle" /\ saved'[p]
      BY <3>1, <3>2, <3>3, <3>4 DEF Truth
    <3>5. CASE pc'[c] = "bulk_create" /\ p \in done'[c]
      BY <3>1, <3>2, <3>3, <3>5 DEF Truth, Untold, Settled
    <3> QED
      BY <2>4, <2>7, <3>4, <3>5
  <2>8. CASE p \notin done[c] \cup {o}
    <3>1. p # o /\ Alike(p)
      BY <1>1, <2>2, <2>3, <2>4, <2>6, <2>8 DEF Alike
    <3>2. CASE p[1] = c
      <4>1. Settled(p) /\ Settled(p)' /\ pc'[c] \in {"idle", "bulk_create"}
        BY <1>1, <2>4, <2>8, <3>2 DEF Settled, Untold
      <4> QED
        BY <2>3, <3>1, <3>2, <4>1, Resting
    <3>3. CASE p[1] # c
      <4>1. ~(pc[p[1]] = "lastid" /\ p \in todo[p[1]])
        BY <2>2, <3>3, TaskOf DEF AskingIds
      <4> QED
        BY <2>3, <2>5, <3>1, <3>3, <4>1, TaskOf, Undisturbed
    <3> QED
      BY <3>2, <3>3
  <2> QED
    BY <2>7, <2>8
<1>4. CASE BulkFails(c, o)
  <2>1. /\ pc'[c] = "idle" /\ todo'[c] = {} /\ done'[c] = {}
        /\ \A d \in Callers \ {c} :
              pc'[d] = pc[d] /\ todo'[d] = todo[d] /\ done'[d] = done[d]
        /\ present' = present /\ last' = last
        /\ UNCHANGED <<saved, own, overtaken>> /\ doubtful' = doubtful \cup done[c]
    BY <1>0, <1>4, EnterElsewhere DEF BulkFails, Leave, table, present
  <2>2. Truth(p) /\ Alike(p) /\ p \notin done[c]
    BY <1>1, <2>1, Before, StoredSame DEF Alike
  <2>3. CASE p[1] # c
    BY <2>1, <2>2, <2>3, TaskOf, Undisturbed
  <2>4. CASE p[1] = c
    <3>1. Settled(p) /\ Settled(p)'
      BY <1>1, <2>1, <2>2, <2>4 DEF Settled, Untold
    <3> QED
      BY <2>1, <2>2, <2>4, <3>1, Resting
  <2> QED
    BY <2>3, <2>4
<1> QED
  BY <1>3, <1>4, BulkCases

-----------------------------------------------------------------------------
LEMMA NextSaved == SavedInv /\ [Next]_vars => SavedInv'
<1> SUFFICES ASSUME SavedInv, [Next]_vars PROVE SavedInv'
  OBVIOUS
<1>1. RaceInv'
  BY NextRace DEF SavedInv
<1>2. CASE Next
  <2>1. PICK c \in Callers : Act(c)
    BY <1>2 DEF Next
  <2>2. Told
    BY <2>1, ConstructTold, GetTold, InsertTold, UpdateTold, DeleteTold,
       BulkCreateTold, BulkWriteTold, LastIdTold, BeginBulkTold, MineIs
       DEF Act, OfInstance
  <2> QED
    BY <1>1, <2>2 DEF SavedInv, Told
<1>3. CASE UNCHANGED vars
  <2>1. Told
    BY <1>3, QuietTold DEF vars, control, present
  <2> QED
    BY <1>1, <2>1 DEF SavedInv, Told
<1> QED
  BY <1>2, <1>3

LEMMA InitSaved == Init => SavedInv
<1> SUFFICES ASSUME Init PROVE SavedInv
  OBVIOUS
<1>1. \A o \in Objs : Stored(o) = {} /\ ~saved[o] /\ pk[o] = 0
                    /\ pc[o[1]] = "idle"
  BY TaskOf DEF Init, Stored
<1> QED
  BY <1>1, InitRace DEF SavedInv, Truth

(* Between calls _saved_in_db is set just when a row of the instance is in   *)
(* the table, for an instance whose rows nobody else holds, that no call     *)
(* failed to tell of its row, and as long as no question for an id was       *)
(* overtaken.                                                                *)
THEOREM SavedIsTrue == Spec => []SavedMeansStored
<1>1. SavedInv => SavedMeansStored
  <2> SUFFICES ASSUME SavedInv, overtaken = {}, NEW o \in Objs \ (doubtful \cup InTransit),
                      Private(o)
               PROVE  saved[o] <=> own[o] \cap present # {}
    BY DEF SavedMeansStored
  <2>0. o \notin InTransit
    OBVIOUS
  <2>1. Truth(o)
    BY DEF SavedInv
  <2>2. Settled(o)
    <3>1. o[1] \in Callers
      BY TaskOf
    <3>2. ASSUME pc[o[1]] = "lastid", o \in todo[o[1]] PROVE FALSE
      BY <2>0, <3>1, <3>2 DEF InTransit
    <3>3. ASSUME pc[o[1]] = "bulk_create", o \in done[o[1]] PROVE FALSE
      BY <2>0, <3>1, <3>3 DEF InTransit
    <3> QED
      BY <3>2, <3>3 DEF Settled, Untold
  <2> QED
    BY <2>1, <2>2 DEF Truth, Stored
<1>2. Spec => []SavedInv
  BY InitSaved, NextSaved, PTL DEF Spec
<1> QED
  BY <1>1, <1>2, PTL
=============================================================================
