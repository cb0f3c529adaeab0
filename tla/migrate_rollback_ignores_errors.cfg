SPECIFICATION Spec
CONSTANTS
    Runners = {r1}
    NumVersions = 2
    NumStatements = 2
    Repeatable <- MCRepeatable
    Depends <- MCNoDepends
    Rollbacks = TRUE
    ReadFaults = FALSE
    LedgerFaults = FALSE
    StatementFaults = TRUE
    MaxCalls = 2
    MaxCrashes = 0
INVARIANT RolledBackIsGone
\* callers may stop calling: the bound MaxCalls is reached
CHECK_DEADLOCK FALSE
