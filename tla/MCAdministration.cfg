CONSTANTS
    Handler = {h1, h2}
    MaxSerial = 3
    MaxLinks = 1
    MaxFaults = 2
    Holder = {c1, c2}
    Editor = {h1, h2}
    Listens = {{"udp"}, {"udp", "tcp"}}
    MaxStops = 1
    Client = {c1, c2}
    Plan <- Plans
    Wanted = {3, 6, 9}
    NoStatic = NoStatic
    Saver = {h1, h2}
    MaxAddressFaults = 1
    SessionToken = {h1, h2}
    WebRequest = {h1, h2}
    Stream = {l1}
    MaxPasswords = 2
    MaxHour = 5
    SessionTTL = 2
    SessionRecheck = 0
    Name = {"ann", "bob"}
    Visitor = {h1, h2}
    Address = "address"
    AddressLimit = 3
    Threshold = 2
    MaxDelay = 3
    MaxKeys = 2
    Forget = 2
    MaxClock = 8
SYMMETRY HandlerSymmetry
SPECIFICATION AdminSpec
INVARIANTS
    AccessStaysBehind
    LinkSpentOnce
    CertificatesAccounted
    RenewalKeepsAccess
    ProfilesFollow
    StaticsUsable
    ConfigKept
    SessionsEnd
    BacksOff
