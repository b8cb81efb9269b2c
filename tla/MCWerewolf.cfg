SPECIFICATION Spec
CONSTANTS
    Players <- MCPlayers
    Role <- MCRole
    NoOne = 0
    MaxDay = 2
INVARIANTS
    OneBadge
    HunterAnswers
PROPERTY OldGameEnds
CHECK_DEADLOCK FALSE
