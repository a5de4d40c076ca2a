CONSTANTS
    Peer = {p1, p2}
    MaxBytes = 2
    MaxRejections = 1
    MaxRotations = 1
    MidWrite = FALSE
    Minute = 2
    Hour = 4
    Day = 8
    MinuteRetention = 9
    HourRetention = 14
    Week = 13
    Zone = {0, 6}
    MaxTransfer = 2
    MaxSecond = 18
    Ip = {"a", "b"}
    MergeGap = 1
    Looked = 2
    MaxRows = 4
    MaxStart = 4
    MaxLength = 1
    Idle = 1
    Shown = 1
    MaxSessions = 2
    MaxTraffic = 1
    MaxHistoryTime = 2
SPECIFICATION StatisticsSpec
INVARIANTS
    CountedOnce
    OpenRowsFollowed
    LinesApplied
    RangesExact
    VisitsAgree
    RelayRowsStored
