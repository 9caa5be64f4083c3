SPECIFICATION Spec
CONSTANTS
    Kinds = {"monthly", "annual", "eve", "offer", "crosssell", "reminder", "result", "finished", "milestone",
             "confirmation", "eventRecap", "resultRecap", "ping", "alert", "suggestion", "access", "ask"}
    User = u
    MaxAttempts = 2
    MaxTrouble = 3
    PerChatPerRun = 1
    MaxAhead = 1
INVARIANTS NobodyIsToldTwice ClaimedNoticesAreSent DeadOnlyByOutages ShownOncePerAttempt
PROPERTY OfferArrives
CHECK_DEADLOCK FALSE
