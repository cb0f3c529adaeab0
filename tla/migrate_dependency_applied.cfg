SPECIFICATION Spec
CONSTANTS
    Runners = {r1}
    NumVersions = 3
    NumStatements = 1
    Repeatable <- MCRepeatable
    Depends <- MCChain
    Rollbacks = FALSE
    ReadFaults = FALSE
    LedgerFaults = FALSE
    StatementFaults = TRUE
    MaxCalls = 2
    MaxCrashes = 0
PROPERTY ConflictOnlyIfNotApplied
\* callers may stop calling: the bound MaxCalls is reached
CHECK_DEADLOCK FALSE
