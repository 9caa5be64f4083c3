CONSTANTS
    Chats = {c1, c2}
    StreamChats = {}
    NoChat = NoChat
    NoRow = NoRow
    MaxTime = 2
    MaxReports = 2
    MaxFaults = 1
    MinLead = 1
SPECIFICATION Spec
SYMMETRY ChatSymmetry
INVARIANTS
    EndedRowMeansEndedPoll
    OnePollPerChat
