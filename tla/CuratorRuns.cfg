CONSTANTS
    w1 = w1
    w2 = w2
    u1 = u1
    u2 = u2
    api1 = api1
    c1 = c1
    c2 = c2
    p0 = p0
    p1 = p1
    NRuns = 1
    Chats = {c1}
    ChatOf <- OneChat
    FenceableChats = {c1}
    Workers = {w1, w2}
    Crashable = {w1, w2}
    Clients = {api1}
    Actors = {u1, u2}
    Plans = {p0, p1}
    EmptyPlans = {p0}
    Api = Api
    NoWorker = NoWorker
    NoPlan = NoPlan
    MaxAttempts = 4
SPECIFICATION Spec
SYMMETRY RunSymmetry
INVARIANTS TypeOK CommitsWithinAttempts UndosMatchCommits
PROPERTIES CommitByHolder NoLegacyMemoryAfterCutover
CHECK_DEADLOCK FALSE
