SPECIFICATION Spec
CONSTANTS
    r1 = r1
    r2 = r2
    a = a
    b = b
    x = x
    y = y
    Requests = {r1, r2}
    Ids = {a, b}
    Fields = {x, y}
    BadFields = BadFields
    Pids = {1}
    MaxOps = 3
    MaxEdits = 1
    MaxFails = 1
SYMMETRY SymRequests
INVARIANTS FileSound LostOnlyToOverlap
PROPERTY SuccessIsOwnList
