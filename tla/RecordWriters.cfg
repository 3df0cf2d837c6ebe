SPECIFICATION Spec
CONSTANTS
    None = None
    Scenarios <- MCScenarios
    Threads <- MCThreads
    Tasks <- MCTasks
INVARIANTS StoreIsSound AnswersStand
PROPERTIES RepeatsAreReplays PurgesAreReviewed OutcomesStand PendingSettles
CHECK_DEADLOCK FALSE
