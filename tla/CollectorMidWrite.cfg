CONSTANTS
    Peer = {p1}
    MaxBytes = 2
    MaxRejections = 1
    MaxRotations = 1
    MidWrite = TRUE
SPECIFICATION Spec
INVARIANTS
    TrafficTransferred
