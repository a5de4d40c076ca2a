CONSTANTS
    Token = {c1, c2, bad}
    WellFormed = {c1, c2}
    Caller = {c1, c2}
    Entry = {h1, h2, h3}
    NoToken = NoToken
    NoEntry = NoEntry
    TTL = 1
    CheckTimeout = 1
    MaxTime = 3
    MaxPolicies = 1
    MaxAuthChecks = 1
    MaxAttempts = 1
    MaxChanges = 1
    Handler = {h1, h2, h3}
    Client = {c1, c2}
    Credential = {k1}
    NoClient = NoClient
    MaxFlows = 2
    MaxPerClient = 1
    MaxSessionHistory = 2
    MaxClientHistory = 1
    IdleSeconds = 0
    MaxInstant = 1
    MaxRequests = 4
    Asker = {h1, h2, h3}
    Connections = 2
    Slots = 1
    KeptFor = 2
    Life = 2
    MaxWrites = 2
    MaxNow = 2
SYMMETRY Symmetry
SPECIFICATION ConnectionSpec
INVARIANTS
    CacheSound
    WaitersServed
    AdmissionExact
    BooksExact
    VisitsApart
    SignedFresh
PROPERTY ImplementsAuthorizer
