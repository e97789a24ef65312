SPECIFICATION CliFairSpec
CONSTANTS
    MaxOut = 1
    InCap = 1
    MaxQueue = 1
    Grace = 1
    JoinBudget = 3
    ReadMayFail = FALSE
    WaitMayFail = FALSE
    Modes = {"demo", "debug"}
INVARIANTS EndShowsAll
PROPERTIES FailedSpawnCleansUp CliEnds EofEndsShell
