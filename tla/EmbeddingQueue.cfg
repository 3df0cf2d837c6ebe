CONSTANTS
    o1 = o1
    o2 = o2
    a = a
    b = b
    w1 = w1
    w2 = w2
    Objects = {o1, o2}
    Texts = {a, b}
    Workers = {w1, w2}
    Crashable = {w2}
    Nothing = Nothing
    Limit = 2
    MaxEdits = 1
SPECIFICATION FairSpec
INVARIANTS TypeOK
PROPERTIES VectorsKept EventuallyIndexed
CHECK_DEADLOCK FALSE
