CONSTANTS
    Peer = {p1}
    MaxBytes = 1
    MaxRejections = 1
    MaxRotations = 0
    MidWrite = FALSE
SPECIFICATION Spec
INVARIANT ShortSessionsRecorded
