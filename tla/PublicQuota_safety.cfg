SPECIFICATION Spec
CONSTANTS
    b1 = b1
    u1 = u1
    v1 = v1
    v2 = v2
    r1 = r1
    r2 = r2
    p1 = p1
    p2 = p2
    None = None
    Browsers <- OneBrowser
    Users <- OneUser
    Visitors <- TwoVisitors
    Requests <- TwoRequests
    Processes <- TwoProcesses
    AnonLimit = 1
    FreeLimit = 1
    ProLimit = 2
    MaxArrivals = 4
    MaxDay = 1
    MaxFaults = 1
    MaxCrashes = 1
SYMMETRY Symmetry
INVARIANTS
    QuotaBounded
    NoStall
PROPERTIES
    NoResetBySignIn
