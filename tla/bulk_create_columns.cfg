SPECIFICATION Spec
CONSTANTS
    Width = 2
    Values = {v1}
    Null = Null
    ChunkSize = 2
    MaxRecords = 2
    MaxCalls = 1
INVARIANT InstancesAreCreated
CHECK_DEADLOCK FALSE
