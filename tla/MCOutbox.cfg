CONSTANTS
    Messages = {m1, m2}
    Quietable = {m1}
    Unsupported = {m2}
    Processes = {p1, p2}
    NoProcess = NoProcess
    MaxAttempts = 2
    BatchSize = 1
    MaxNights = 1
    MaxReplays = 1
    MaxFaults = 2
SPECIFICATION FairSpec
INVARIANTS
    DuplicatesNeedFaults
PROPERTIES
    Delivery
    EveryMessageEnds
