SPECIFICATION ApartSpec
CONSTANTS
    Incoming = {1, 2}
    Outgoing = {3}
    Pollers = {p1, p2}
    Users = {u1, u2, u3}
    Repos = {r1, r2}
    NoRepo = NoRepo
    SeenCap = 2
    MaxFailures = 2
    MaxSaves = 1
    MaxChatCrashes = 1
CHECK_DEADLOCK FALSE
INVARIANTS
    StoredOnce
    UniqueIds
PROPERTIES
    Delivered
