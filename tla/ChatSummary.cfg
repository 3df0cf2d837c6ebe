CONSTANTS
    w1 = w1
    w2 = w2
    NRuns = 2
    Workers = {w1, w2}
    NoRun = NoRun
    Limit = 2
    MaxRevision = 4
SPECIFICATION SummarySpec
SYMMETRY SummarySymmetry
PROPERTIES NoSummaryLost OwnersWordStays
CHECK_DEADLOCK FALSE
