SPECIFICATION FairTabSpec
CONSTANTS
    c1 = c1
    c2 = c2
    r1 = r1
    r2 = r2
    Calls = {c1, c2}
    Renewals = {r1, r2}
    MaxTokens = 3
    MaxVisits = 2
    None = None
INVARIANTS
    TabTypeOK
    OneRenewalAtATime
    NoCallIsForgotten
    ReplaysAreFresh
    HandsOffOnce
    LostIsShown
PROPERTIES
    KeepsALiveSession
    ComesToRest
    CallsEnd
CHECK_DEADLOCK FALSE
