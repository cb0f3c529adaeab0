---------------------------- MODULE MCComponents ----------------------------
(***************************************************************************)
(* The components that share no state with another, checked one at a time: *)
(* `part` says which one runs, the others stay as they are at first.       *)
(***************************************************************************)
EXTENDS Integers, Sequences

CONSTANTS Keys, CacheSize, Ttls, CacheUses, CacheTime,
          Receivers, Tasks, MaxReceivers, MaxListeners,
          Names, NoName, Refusals, ManagerCalls,
          Callers, Latency, Added, Nap, Window, Retention, MaxPoints,
          MaxLoops, MaxAlerts, MaxRecords, MonitorTime,
          Width, Values, Null, ChunkSize, MaxRows, BulkCalls,
          Tables, Varchar, Integer, Absent,
          Targets, MaxRuns

VARIABLES order, entry, clock, statements, count, uses, used
caches == <<order, entry, clock, statements, count, uses, used>>

VARIABLES receivers, cleared, walked, turn, responses, begun, gone, skips,
          listeners, saving, heard, known, stored
signals == <<receivers, cleared, walked, turn, responses, begun, gone, skips,
             listeners, saving, heard, known, stored>>

VARIABLES databases, flagged, primary, initialized, queue, connected,
          walking, asked, visited, begunWith, covered, refused, broken, woken
manager == <<databases, flagged, primary, initialized, queue, connected,
             walking, asked, visited, begunWith, covered, refused, broken, woken>>

VARIABLES now, points, thresholds, alerts, active, thread, place, pc, at,
          size, until, recorded, overlap, grown
monitor == <<now, points, thresholds, alerts, active, thread, place, pc, at,
             size, until, recorded, overlap, grown>>

VARIABLES dialect, path, records, done, table, open, affected, outcome, calls, kept
bulk == <<dialect, path, records, done, table, open, affected, outcome, calls, kept>>

VARIABLES models, old, new, db, left, phase
schema == <<models, old, new, db, left, phase>>

VARIABLES status, owner, kind, target, todo, runs
shipped == <<status, owner, kind, target, todo, runs>>

VARIABLE part
mcvars == <<part, caches, signals, manager, monitor, bulk, schema, shipped>>

Cache == INSTANCE Caches WITH
    MaxSize <- CacheSize, MaxUses <- CacheUses, MaxTime <- CacheTime, now <- clock
Signal == INSTANCE Signals WITH pc <- saving
Manager == INSTANCE DatabaseManager WITH
    MaxCalls <- ManagerCalls,
    pc <- walking, calls <- asked, at <- visited, size <- begunWith
Monitor == INSTANCE Monitoring WITH
    Watched <- <<Latency>>, MaxTime <- MonitorTime, records <- recorded
Bulk == INSTANCE BulkInserts WITH
    MaxRecords <- MaxRows, MaxCalls <- BulkCalls
Shipped == INSTANCE ShippedMigrations WITH
    MaxCalls <- MaxRuns, calls <- runs

Field(name, column, mentions) == [name |-> name, column |-> column, mentions |-> mentions]
ModelFields ==
    {Field("id", TRUE, {"id"}), Field("name", TRUE, {}), Field("width", TRUE, {"id"}),
     Field("paid", TRUE, {"id"}), Field("created_at", TRUE, {"created_at"}),
     Field("tags", FALSE, {})}
Schema == INSTANCE SchemaChanges WITH
    Columns <- {"name"}, Types <- {Varchar, Integer}, Extras <- {"by_name"},
    MaxFields <- 2, Fields <- ModelFields

ASSUME PartsAssumption ==
    /\ Cache!CachesAssumption /\ Signal!SignalsAssumption
    /\ Manager!ManagerAssumption /\ Monitor!MonitoringAssumption
    /\ Bulk!BulkAssumption /\ Schema!SchemaAssumption /\ Shipped!ShippedAssumption

BulkOff ==
    /\ dialect = "sqlite" /\ path = "many" /\ outcome = "none"
    /\ records = <<>> /\ table = <<>> /\ open = <<>>
    /\ done = 0 /\ affected = 0 /\ calls = 0 /\ kept = 0

SchemaOff ==
    /\ models = <<>> /\ left = {} /\ phase = "none"
    /\ old = [t \in Tables |-> Schema!NoTable] /\ new = old /\ db = old

MCInit ==
    /\ Cache!Init /\ Signal!Init /\ Manager!Init /\ Monitor!Init /\ Shipped!Init
    /\ \/ /\ part \in {"caches", "sends", "saves", "manager", "monitor", "shipped"}
          /\ BulkOff /\ SchemaOff
       \/ part = "bulk" /\ Bulk!Init /\ SchemaOff
       \/ part = "schema" /\ Schema!Init /\ BulkOff

MCNext ==
    /\ \/ part = "caches"  /\ Cache!Next
       \/ part = "sends"   /\ Signal!SendNext
       \/ part = "saves"   /\ Signal!SaveNext
       \/ part = "manager" /\ Manager!Next
       \/ part = "monitor" /\ Monitor!Next
       \/ part = "bulk"    /\ Bulk!Next
       \/ part = "schema"  /\ Schema!Next
       \/ part = "shipped" /\ Shipped!Next
    /\ IF part = "caches" THEN TRUE ELSE UNCHANGED caches
    /\ IF part \in {"sends", "saves"} THEN TRUE ELSE UNCHANGED signals
    /\ IF part = "manager" THEN TRUE ELSE UNCHANGED manager
    /\ IF part = "monitor" THEN TRUE ELSE UNCHANGED monitor
    /\ IF part = "bulk" THEN TRUE ELSE UNCHANGED bulk
    /\ IF part = "schema" THEN TRUE ELSE UNCHANGED schema
    /\ IF part = "shipped" THEN TRUE ELSE UNCHANGED shipped
    /\ UNCHANGED part

MCSpec == MCInit /\ [][MCNext]_mcvars

(* The results cached are those used last, and the prepared statements and  *)
(* their counts have the same keys.                                         *)
CachesSound == part = "caches" => Cache!CachesSound

(* send() calls every receiver connected throughout; a row is stored after  *)
(* the listeners of pre_save and before those of post_save.                 *)
SignalsSound == part \in {"sends", "saves"} => Signal!SignalsSound

(* The manager's flag tells which databases initialize() and close() left   *)
(* connected, and there is a primary as soon as there is a database.        *)
ManagerSound == part = "manager" => Manager!ManagerSound

(* One monitoring loop at a time, and alerts that can be told apart.        *)
MonitoringSound == part = "monitor" => Monitor!MonitoringSound

(* A bulk insert stores what it counts, or whole statements up to its error *)
(* - nothing on PostgreSQL - and no value in another column, but where rows *)
(* go by position and leave different fields None.                          *)
BulkSound == part = "bulk" => Bulk!BulkSound

(* A generated migration only adds to the schema it found, and its rollback *)
(* gives that back; completed, a diff has added the columns asked for to    *)
(* the tables that were there, and models all their fields but one at most. *)
SchemaSound == part = "schema" => Schema!SchemaSound

(* The tables of the shipped migrations belong to the completed ones.       *)
ShippedSound == part = "shipped" => Shipped!ShippedSound
=============================================================================
