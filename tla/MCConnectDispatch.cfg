SPECIFICATION Spec
CONSTANTS
    g1 = g1
    g2 = g2
    Group <- Groups
    DefaultGroup = g1
    PeerGroup = g2
    maxRedirects = 1
    maxCookieRetries = 1
    MaxRetries = 1
    MaxDemands = 2
    MaxTickets = 1
    MaxChallenges = 2
    MaxRounds = 3
    None = None
    Servers = 2
    MaxHistory = 5
CHECK_DEADLOCK FALSE
INVARIANTS
    DispatcherBeforeFirstPacket
