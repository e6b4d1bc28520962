SPECIFICATION Spec
CONSTANTS
    Runbook <- FirstAndUpgrade
    N = 2
    FetchBatch = 1
    InsertBatch = 1
    Cuts = {30}
    MaxSlips = 1
INVARIANTS
    AppliedFromStart
    CopyFollowsSource
    ApiComplete
    TimesFromContract
CHECK_DEADLOCK FALSE
PROPERTIES
    CatchesUp
