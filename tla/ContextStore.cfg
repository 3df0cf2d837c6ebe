SPECIFICATION Spec
CONSTANTS
    Ids <- MCIds
    Artifacts <- MCArtifacts
    Threads = {"t1", "t2"}
    Humans = {"ann"}
    None = "-"
    Scenarios <- MCScenarios
INVARIANTS StoreIsSound HistoryExplainsRows AppliedOnce
PROPERTIES ChecksHoldAtCommit GatesHold ClaimsAreNotStolen
CHECK_DEADLOCK FALSE
