SPECIFICATION Spec
CONSTANTS
    Users = {u1, u2}
    Scores <- MCScores
    NoVote = NoVote
    NoScore = NoScore
    MaxAnswers = 2
    MaxReports = 2
    MaxFaults = 1
SYMMETRY Symmetry
INVARIANTS AwardsFollowTheTeams ReplacedPicksStayReplaced
