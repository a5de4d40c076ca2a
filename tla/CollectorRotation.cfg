CONSTANTS
    Peer = {p1}
    MaxBytes = 2
    MaxRejections = 1
    MaxRotations = 1
    MidWrite = FALSE
SPECIFICATION Spec
INVARIANT RotatedReadFromStart
