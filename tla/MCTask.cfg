SPECIFICATION FairSpec
CONSTANTS
    N = 3
    Plans <- AllPlans
    MaxRetries = 1
    MaxIterations = 6
    MaxFaults = 2
    Interrupted = TRUE
    BusyDesk = TRUE
CHECK_DEADLOCK FALSE
INVARIANTS
    TypeOK
    NoEffectWithoutApproval
    SessionIsClean
    BooksMatchWorld
    SagaIsWhole
    ConsentIsKept
    NoBlindReexecution
    ReconciledFirst
PROPERTIES
    TerminalIsFinal
    EventuallyTerminal
