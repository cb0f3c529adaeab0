SPECIFICATION MCSpec
CONSTANTS
    Keys = {k1, k2, k3}
    CacheSize = 2
    Ttls = {1, 2}
    CacheUses = 4
    CacheTime = 3
    Receivers = {r1, r2}
    Tasks = {t1, t2}
    MaxReceivers = 3
    MaxListeners = 2
    Names = {d1, d2}
    NoName = NoName
    Refusals = TRUE
    ManagerCalls = 3
    Callers = {c1, c2}
    Latency = latency
    Added = {errors}
    Nap = 1
    Window = 2
    Retention = 2
    MaxPoints = 1
    MaxLoops = 2
    MaxAlerts = 2
    MaxRecords = 1
    MonitorTime = 2
    Width = 2
    Values = {v1, v2}
    Null = Null
    ChunkSize = 2
    MaxRows = 3
    BulkCalls = 2
    Tables = {tab1, tab2}
    Varchar = Varchar
    Integer = Integer
    Absent = Absent
    Targets = {0, 1, 4, 18, 40}
    MaxRuns = 3
INVARIANTS
    CachesSound
    SignalsSound
    ManagerSound
    MonitoringSound
    BulkSound
    SchemaSound
    ShippedSound
\* each part ends: its bounds are reached
CHECK_DEADLOCK FALSE
