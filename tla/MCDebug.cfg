SPECIFICATION Spec
CONSTANTS
    c1 = c1
    c2 = c2
    Calls = {c1, c2}
    MaxDrops = 1
    MaxStops = 2
    MaxSteps = 2
    Asked <- MCAsked
INVARIANTS
    RefusedNeverRuns
    NoWaiterWithoutSession
PROPERTY AnsweredOrLost
CHECK_DEADLOCK FALSE
