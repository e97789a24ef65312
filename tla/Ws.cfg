SPECIFICATION WsFairSpec
CONSTANTS
    MaxOut = 1
    MaxQueue = 1
    MaxFrames = 2
    Inputs = {"keys"}
    ReadMayFail = FALSE
    WaitMayFail = FALSE
INVARIANTS TxEndsDrained
PROPERTIES HandlerReturns QuietClientSeesExit ClientAnswered
