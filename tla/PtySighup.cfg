SPECIFICATION Spec
CONSTANTS
    MaxOut = 1
    InCap = 1
    MaxQueue = 1
    Grace = 1
    JoinBudget = 1
    ReadMayFail = FALSE
    WaitMayFail = FALSE
INVARIANT SighupOnOwnChild
