CONSTANTS
    Token = {t1, bad}
    WellFormed = {t1}
    NoToken = NoToken
    Caller = {c1}
    TTL = 1
    CheckTimeout = 3
    Recheck = 5
    SetupTimeout = 10
    MaxTime = 28
SPECIFICATION WatchSpec
INVARIANT DocumentedBound
