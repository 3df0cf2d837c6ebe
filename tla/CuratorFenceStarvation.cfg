CONSTANTS
    w1 = w1
    w2 = w2
    u1 = u1
    u2 = u2
    api1 = api1
    c1 = c1
    c2 = c2
    p0 = p0
    p1 = p1
    NRuns = 2
    Chats = {c1, c2}
    ChatOf <- OldestApart
    FenceableChats = {c1}
    Workers = {w1, w2}
    Crashable = {w2}
    Clients = {}
    Actors = {}
    Plans = {p0}
    EmptyPlans = {p0}
    Api = Api
    NoWorker = NoWorker
    NoPlan = NoPlan
    MaxAttempts = 3
SPECIFICATION FairSpec
PROPERTIES QueuedRunsAttempted
CHECK_DEADLOCK FALSE
