CONSTANTS
    Chats = {c1, c2}
    Matches = {m1}
    Players = {1, 2}
    s20 = s20
    s21 = s21
    s02 = s02
    Scores = {s20, s02}
    Winner <- MCWinner
    Vote <- MCVote
    NoVote = NoVote
    NoScore = NoScore
    Void = Void
    Milestones = {}
    MaxCorrections = 0
    MaxFaults = 1
    ExactPoints = 3
    MedalPlaces = 1
    Broken = {c2}
    NotCompleted = NotCompleted
SPECIFICATION FairCompletionSpec
CHECK_DEADLOCK FALSE
INVARIANTS
    NoRecapTwice
    MedalsMatchLastRecap
PROPERTIES
    EveryChatIsCompleted
