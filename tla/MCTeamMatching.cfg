SPECIFICATION MatchingSpec
CONSTANTS
    near = near
    far = far
    same = same
    Teams = {near, far, same}
    Helpers = {h1, h2}
    Operators = {root, deputy}
    Roots = {root}
    NoTeam = NoTeam
    NoOne = NoOne
    Score <- MCScore
    SameName = {}
    AutoAccept = 90
    Floor = 40
    MaxCandidates = 2
    YesBoost = 8
    NoPenalty = 12
    Cap = 85
    MaxAsks = 2
    AskBatch = 2
    MaxLifetime = 2
    MaxRounds = 3
    MaxAnswers = 2
    MaxTaps = 3
    MaxFailures = 1
SYMMETRY Symmetry
INVARIANTS NoAnswerIsLost AsksStayWithinCaps DecisionsStand ConfirmsWhatWasShown
CHECK_DEADLOCK FALSE
