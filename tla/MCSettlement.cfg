CONSTANTS
    Chats = {c1, c2}
    Matches = {m1, m2}
    Players = {p1, p2}
    s20 = s20
    s21 = s21
    s02 = s02
    Scores = {s20, s21, s02}
    Winner <- MCWinner
    Vote <- MCVote
    NoVote = NoVote
    NoScore = NoScore
    Void = Void
    Milestones = {1, 2}
    MaxCorrections = 2
    MaxFaults = 1
SPECIFICATION FairSpec
CHECK_DEADLOCK FALSE
INVARIANTS
    AwardsMatchSettlement
    NoResultTwice
    MilestonesAreToldOnce
PROPERTIES
    EveryPollIsSettled
