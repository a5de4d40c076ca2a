CONSTANTS
    Token = {t1, bad}
    WellFormed = {t1}
    Caller = {c1, c2}
    Entry = {e1, e2, e3}
    NoToken = NoToken
    NoEntry = NoEntry
    TTL = 1
    CheckTimeout = 2
    MaxTime = 4
    MaxPolicies = 1
    MaxAuthChecks = 2
    MaxAttempts = 2
    MaxChanges = 0
    Address = {a1, a2, a3}
    NoConn = NoConn
    StatusMinutes = 3
    MaxUnhealthy = 3
    MaxTurn = 3
    StaleAfter = 4
    Failures = 4
    Grace = 4
    Speaker = {s1, s2}
    MaxCommands = 3
    MaxLinks = 4
    Tool = {t1, t2}
    MaxCuts = 3
    Config = {"server.conf", "client.conf"}
    MaxInterrupts = 2
    Job = {j1, j2}
    BackupKeep = 1
    MaxSeconds = 3
    MaxBreaks = 1
SPECIFICATION ServiceSpec
INVARIANTS
    GivesUpHonestly
    StreamClean
    NoOrphan
    AnswersMatch
    ImportedWhole
    RecoveryKeeps
    BackupsWhole
PROPERTIES
    CallsReturn
    DialsSettle
    StreamEnds
    KillsOnlySilent
    ProcessesEnd
    UiRestarts
