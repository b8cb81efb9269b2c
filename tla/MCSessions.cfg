SPECIFICATION Spec
CONSTANTS
    Clients = {c1, c2}
    MaxProcs = 2
    MaxOps = 3
    MaxCrashes = 1
    EarlyClients = FALSE
SYMMETRY Pages
CHECK_DEADLOCK FALSE
INVARIANTS
    SettingsInForce
    NoLostProcess
    AnsweredOnce
