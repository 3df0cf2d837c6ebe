CONSTANTS
    o1 = o1
    o2 = o2
    a = a
    b = b
    w1 = w1
    w2 = w2
    Objects = {o1}
    Texts = {a, b}
    Workers = {w1, w2}
    Crashable = {w1, w2}
    Nothing = Nothing
    Limit = 5
    MaxEdits = 3
SPECIFICATION Spec
INVARIANTS ServedVectorIsCurrent
CHECK_DEADLOCK FALSE
