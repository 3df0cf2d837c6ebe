CONSTANTS
    s1 = s1
    s2 = s2
    x1 = x1
    h1 = h1
    h2 = h2
    r1 = r1
    t1 = t1
    SlackChats = {s1}
    CodexChats = {x1}
    FenceableChats = {s1}
    HumanMessages = {h1}
    ReplyMessages = {r1}
    StatusMessages = {t1}
    Batch = 2
SPECIFICATION FairSpec
INVARIANTS TypeOK WindowsPartition CodexBacklogBounded
PROPERTIES FinishDrains LedgerSpec InactivityQueuesUnfenced
CHECK_DEADLOCK FALSE
