CONSTANTS
    p1 = p1
    p2 = p2
    vrs = vrs
    hltv = hltv
    f1 = f1
    f2 = f2
    Providers = {p1}
    Feeds = {hltv}
    Order <- MCOneProvider
    Callers = {discover, sync}
    Syncs = {f1}
    FeedOf <- MCOneFeed
    Threshold = 2
    MaxStreak = 4
    BaseDelay = 1
    MaxDelay = 2
    MaxChanges = 3
    MaxFaults = 1
SPECIFICATION FairSpec
INVARIANTS
    AlertsAddUp
PROPERTIES
    OutagesAreToldAndEnd
