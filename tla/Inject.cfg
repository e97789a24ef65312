SPECIFICATION Spec
CONSTANTS
    s1 = s1
    s2 = s2
    s3 = s3
    Openers = {s1, s2, s3}
    Process <- MCProcess
    Home = "home"
    Other = "other"
    MaxFails = 1
INVARIANTS ShellFindsWhole StartsLikePlain
