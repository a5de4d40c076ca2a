CONSTANTS
    Token = {t1, bad}
    WellFormed = {t1}
    NoToken = NoToken
    Caller = {c1}
    TTL = 1
    CheckTimeout = 3
    Recheck = 5
    SetupTimeout = 10
    MaxTime = 28
    Device = {d1, d2}
    Cert = {n1}
    GuestFirst = 20
    GuestLast = 21
    Static = {10}
    Pool = {1}
    NoAddress = NoAddress
    Nobody = Nobody
    MaxDevices = 2
    Minute = 1
    Kept = 5
    Replay = 4
    MaxFails = 2
    LockFor = 3
    MaxCodeTime = 4
SPECIFICATION MCSpec
INVARIANTS
    FlowsEnd
    NoSharedAddress
    CodesGuarded
PROPERTIES
    StaleFlowsEnd
    LeasesReleased
