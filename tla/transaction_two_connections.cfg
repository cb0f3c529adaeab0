SPECIFICATION Spec
CONSTANTS
    Tasks = {t1}
    Conns = {c1, c2}
    Faults = FALSE
    Reaped = FALSE
    MaxCalls = 1
    MaxStatements = 2
INVARIANT FailedBlockLeavesNothing
CHECK_DEADLOCK FALSE
