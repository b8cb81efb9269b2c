SPECIFICATION FeedFairSpec
CONSTANTS
    Emitters = {pump, request}
    MaxEvents = 3
    MaxBreaks = 1
CHECK_DEADLOCK FALSE
INVARIANTS
    ReceivedInOrder
    NumbersAreUnique
PROPERTIES
    OpenedViewCatchesUp
