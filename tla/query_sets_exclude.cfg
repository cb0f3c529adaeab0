SPECIFICATION Spec
CONSTANTS
    Ids <- MCIds
    Values <- MCValues
    None = None
    Opaque = Opaque
    Like <- MCLike
    Conditions <- MCConditions
    Expressions = {}
    Windows <- MCWindows
    Excluding = TRUE
    MaxSets = 2
INVARIANT ExcludedStaysOut
CHECK_DEADLOCK FALSE
