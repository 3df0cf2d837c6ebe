SPECIFICATION Spec
CONSTANTS
    None = None
    Scenarios <- MCScenarios
    Threads <- MCThreads
    Tasks <- MCTasks
PROPERTIES
    ExecutionsAreApproved
CHECK_DEADLOCK FALSE
