SPECIFICATION QueueSpec
CONSTANTS
    e1 = e1
    e2 = e2
    Items <- MCItems
    Undefined = undefined
    InitialCapacity = 3
    ShrinkAbove = 3
    MaxPush = 5
    MaxSize = 7
INVARIANTS WindowHolds
PROPERTY ImplementsFifo
