SPECIFICATION FairSpec
CONSTANTS
    MaxOut = 1
    Window = 1
    MaxQueue = 1
    CloseTicks = 1
    JoinBudget = 3
    StatusFirst = TRUE
INVARIANTS EndExplained StatusNotLost
PROPERTIES ImplementsStream DetachOnlyWhenHeldUp EndReached FailedSpawnReturns
