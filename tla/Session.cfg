SPECIFICATION FairSpec
CONSTANTS
    MaxOut = 1
    MaxQueue = 2
    MaxFrames = 2
    Inputs = {"keys", "resize"}
    ReadMayFail = TRUE
    WaitMayFail = TRUE
INVARIANTS ExitedFrameCloses EngineEndsEarlyOnlyWithoutWriter
PROPERTIES DropReturns
