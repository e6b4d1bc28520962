SPECIFICATION Spec
CONSTANTS
    mainnet = mainnet
    gnosis = gnosis
    Chains <- MCChains
    Quotes <- MCQuotes
    Granularity = 1
    Proximity = 2
    TimeDelta = 1
    Lag = 1
    MaxBatch = 2
    MaxTime = 4
    MaxRequests = 3
INVARIANTS PriceIsNear SearchFindsFloor
SYMMETRY LoopSymmetry
CHECK_DEADLOCK FALSE
