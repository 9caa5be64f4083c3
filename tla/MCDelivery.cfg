CONSTANTS
    Updates = {u1, u2}
    MaxDeliveries = 4
    MaxFaults = 3
SPECIFICATION FairSpec
CHECK_DEADLOCK FALSE
INVARIANTS
    OneHandlerAtATime
    HandledAtMostOnce
    OnlyCutUpdatesAreLost
PROPERTIES
    UpdatesAreSettled
