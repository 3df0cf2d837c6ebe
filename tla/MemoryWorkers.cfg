SPECIFICATION Spec
CONSTANTS
    Ids <- MCIds
    Reviewers = {"r1", "r2"}
    Capturers = {"c1", "c2"}
    Operator = "op"
    Scenarios <- MCScenarios
    None = None
INVARIANTS UntouchedRunsCanBeUndone EachInputOnce
PROPERTIES PlansSparePeople CommitsInTurn WorkEnds
CHECK_DEADLOCK FALSE
