SPECIFICATION MCSpec
CONSTANTS
    Tasks = {t1, t2}
    Setups <- MCSetups
    MaxCalls = 3
    Conns = {c1, c2, c3, c4}
    NoConn = NoConn
INVARIANT TypeOK
INVARIANT AtMostOnce
INVARIANT RepliesAreTrue
INVARIANT StatementsSucceed
INVARIANT AcknowledgedStays
INVARIANT ExclusiveUse
INVARIANT IdleIsUsable
INVARIANT WithinCapacity
PROPERTY EveryCallReturns
\* tasks may stop calling: the bound MaxCalls is reached
CHECK_DEADLOCK FALSE
