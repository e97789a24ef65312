SPECIFICATION Spec
CONSTANTS
    MaxOut = 2
    InCap = 1
    MaxQueue = 1
    Grace = 2
    JoinBudget = 4
    ReadMayFail = TRUE
    WaitMayFail = TRUE
INVARIANTS TypeOK OutputInOrder ExitedAfterAllOutput SigkillOnOwnGroup
PROPERTIES ImplementsStream DetachOnlyWhileHeld SighupFirstUnlessWriterStuck
