SPECIFICATION FairSpec
CONSTANTS
    Modes = {"tun", "xfrmi", "netstack"}
    MaxSockets = 2
    MaxSessions = 2
    Cap = 1
CHECK_DEADLOCK FALSE
INVARIANTS
    PanicCauses
    EstablishedIsServed
    NoSessionLost
PROPERTIES
    Quiesces
    UpdateReturns
