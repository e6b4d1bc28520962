SPECIFICATION FairSpec
CONSTANTS
    Chains = {c1, c2}
    Docs = {d1}
    Writes = {w1}
    PoolSize = 3
    MaxTry = 2
    Gateways = 2
    MaxEvents = 2
    MaxRestarts = 1
INVARIANTS
    ConnectionsAccounted
    NoCircularWait
    PoolEndsIdle
    NullIsEarned
PROPERTIES
    ShutdownCompletes
CHECK_DEADLOCK FALSE
