SPECIFICATION Spec
CONSTANTS
    Nodes = {1, 2, 3}
    Concurrency = 2
    Plans <- MCPlans
    MaxRuns = 2
PROPERTIES
    KeepsOrder
    RunEnds
CHECK_DEADLOCK FALSE
