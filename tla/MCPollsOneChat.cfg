CONSTANTS
    Chats = {c1}
    Late = {c1}
    StreamChats = {c1}
    NoChat = NoChat
    NoRow = NoRow
    MaxTime = 2
    MaxReports = 1
    MaxFaults = 1
    MinLead = 2
SPECIFICATION SubscribingFairSpec
INVARIANTS
    NobodyIsPassedOver
    LiveMatchLeavesNoOpenPoll
PROPERTIES
    IdsLostOnlyToReschedule
    RecordedPollEnds
