SPECIFICATION FairSpec
CONSTANTS
    p1 = p1
    p2 = p2
    Pools <- MCPools
    Handleable <- MCHandleable
    Log <- MCLog
    FetchLimit = 2
    MaxAttempts = 2
    MaxRestarts = 1
INVARIANTS TypeOK AppliedInOrder LossIsReported
PROPERTIES PointerAdvancesByOne KeepsLedger EveryEventPassed
CHECK_DEADLOCK FALSE
