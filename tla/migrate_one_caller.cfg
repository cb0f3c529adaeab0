SPECIFICATION MCSpec
CONSTANTS
    Runners = {r1}
    NumVersions = 3
    NumStatements = 2
    Repeatable <- MCRepeatable
    Depends <- MCChain
    Rollbacks = TRUE
    ReadFaults = FALSE
    LedgerFaults = FALSE
    StatementFaults = TRUE
    MaxCalls = 4
    MaxCrashes = 1
INVARIANT TypeOK
INVARIANT CompletedIsApplied
INVARIANT AloneAppliedAtMostOnce
PROPERTY CompletedLeftOnlyByRollback
PROPERTY SuccessMeansCompleted
PROPERTY AloneRollbackClears
PROPERTY AloneImplementsLedger
PROPERTY CallsReturn
\* callers may stop calling: the bound MaxCalls is reached
CHECK_DEADLOCK FALSE
