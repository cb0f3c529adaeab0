SPECIFICATION Spec
CONSTANTS
    Runners = {r1, r2}
    NumVersions = 2
    NumStatements = 2
    Repeatable <- MCRepeatable
    Depends <- MCChain
    Rollbacks = TRUE
    ReadFaults = TRUE
    LedgerFaults = FALSE
    StatementFaults = TRUE
    MaxCalls = 2
    MaxCrashes = 1
INVARIANT EffectsAreRecorded
SYMMETRY MCSymmetry
\* callers may stop calling: the bound MaxCalls is reached
CHECK_DEADLOCK FALSE
