CONSTANTS
    Peer = {p1}
    MaxBytes = 0
    MaxRejections = 0
    MaxRotations = 0
    MidWrite = FALSE
SPECIFICATION FairSpec
PROPERTY ResyncCloses
