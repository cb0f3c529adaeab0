CONSTANTS
    c1 = c1
    c2 = c2
    k1 = k1
    Callers = {c1, c2}
    Keys = {k1}
    Kinds = {"save", "update", "delete", "get", "get_or_create", "bulk_create", "bulk_update", "bulk_delete"}
    Engines = {"unified", "bridge"}
    Faults = TRUE
    MaxObjects = 2
    MaxCalls = 4
    MaxRows = 3
SYMMETRY Tasks
\* tasks may stop calling: the bound MaxCalls is reached
SPECIFICATION Spec
INVARIANTS
    TypeOK
    OneRowPerInstance
    DuplicatesOnlyFromRaces
    SavedMeansStored
    WritersHoldTheirRows
CHECK_DEADLOCK FALSE
