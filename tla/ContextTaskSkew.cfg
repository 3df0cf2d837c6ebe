SPECIFICATION Spec
CONSTANTS
    Ids <- MCIds
    Artifacts <- MCArtifacts
    Threads = {"t1", "t2"}
    Humans = {"ann"}
    None = "-"
    Scenarios <- MCScenarios

PROPERTY BatchNeverStrandsATask
CHECK_DEADLOCK FALSE
