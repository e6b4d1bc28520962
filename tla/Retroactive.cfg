SPECIFICATION FairSpec
CONSTANTS
    sa = sa
    sb = sb
    sc = sc
    id1 = id1
    id2 = id2
    Addresses <- MCAddresses
    Ids <- MCIds
    IdOf <- MCIdOf
    OldIds = {}
    Log <- MCLog
    FetchLimit = 2
    MaxRuns = 2
    Overlap = FALSE
INVARIANTS RepeatedOnlyIfExposed CheckpointCoversPrefix HandledCaughtUp
PROPERTY RunEnds
CHECK_DEADLOCK FALSE
