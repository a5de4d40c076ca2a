CONSTANTS
    Device = {d1, d2}
    Cert = {n1, n2}
    GuestFirst = 20
    GuestLast = 20
    Static = {10}
    Pool = {1, 2}
    NoAddress = NoAddress
    Nobody = Nobody
    MaxDevices = 1
    Minute = 1
SPECIFICATION AccessSpec
INVARIANT DeviceLimit
