SPECIFICATION CSpec
CONSTANTS
    N = 2
    Plans <- TwoStepPlans
    MaxRetries = 1
    MaxIterations = 6
    MaxFaults = 1
    Interrupted = TRUE
    BusyDesk = FALSE
    MaxEarly = 2
CHECK_DEADLOCK FALSE
INVARIANTS
    NoBlindReexecution
PROPERTIES
    ConsentAtEffect
