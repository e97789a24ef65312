SPECIFICATION Spec
CONSTANTS
    Sizes = {2, 3}
    HistLimit = 2
    MaxLines = 4
    MaxEnds = 2
INVARIANTS ClientSeesScreen HistoryExact MarkOnCommandLine NoEndForSeenAlt EndsSent
