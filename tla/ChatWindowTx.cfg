CONSTANTS
    c1 = c1
    c2 = c2
    h1 = h1
    r1 = r1
    i1 = i1
    i2 = i2
    w1 = w1
    w2 = w2
    NoTx = NoTx
    SlackChats = {c1}
    FenceableChats = {c1}
    HumanMessages = {h1}
    ReplyMessages = {r1}
    StatusMessages = {}
    Ingesters = {i1, i2}
    Sweepers = {w1}
    MaxBatch = 1
    MaxSerial = 3
SPECIFICATION Spec
SYMMETRY TxSymmetry
PROPERTIES NoLateCommit TransactionsAreAtomic
CHECK_DEADLOCK FALSE
