SPECIFICATION Spec
CONSTANTS
    a = a
    b = b
    Visitor = {a, b}
    Site <- MCSite
    Host <- MCHost
    HostOf <- MCHostOf
    Name <- MCName
    LocalHost <- MCLocalHost
    Internal <- MCLocalHost
    Slot = {1}
    None = None
    SessionLife = 1
    TokenLife = 0
    MaxClock = 1
    MaxProcess = 2
    MaxTrips = 1
    MaxTokens = 1
    MaxShown = 1
SYMMETRY Perms
INVARIANT FiredOnlyWhereProved
CHECK_DEADLOCK FALSE
