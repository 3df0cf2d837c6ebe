SPECIFICATION Spec
CONSTANTS
    None = None
    Scenarios <- MCScenarios
    Threads <- MCThreads
    Tasks <- MCTasks
PROPERTIES
    RetriesAreReplays
CHECK_DEADLOCK FALSE
