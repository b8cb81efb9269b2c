SPECIFICATION ServiceSpec
CONSTANTS
    Users = {"u1"}
    Orders = {"o1", "o2"}
    Threads = {1, 2}
    SessionIds = {"s1", "s2"}
    Owner <- MCOwner
    Amount <- MCAmount
    Status0 <- MCStatus0
    Threshold = 1
    MaxRounds = 2
    MaxMessages = 2
PROPERTIES
    SettledStays
    Answered
CHECK_DEADLOCK FALSE
