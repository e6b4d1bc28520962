SPECIFICATION FairSpec
CONSTANTS
    p1 = p1
    p2 = p2
    Pools <- MCPools
    Handleable <- MCHandleable
    Log <- MCShortLog
    FetchLimit = 2
    MaxAttempts = 2
    MaxRestarts = 0
PROPERTY ResumesAfterLastProcessed
CHECK_DEADLOCK FALSE
