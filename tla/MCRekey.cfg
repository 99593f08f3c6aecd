SPECIFICATION FairSpec
CONSTANTS
    Caller = {c1}
    MaxFail = 2
    MaxSA = 1
    MaxIKE = 1
    DPDEnabled = TRUE
    None = None
CHECK_DEADLOCK FALSE
INVARIANTS
    OneExchangeAtATime
    NoRekeyWhileCooling
    IKESAKnownToPeer
    KernelHoldsCurrentPair
PROPERTIES
    CollisionRefused
    DPDTimeoutMeansDead
    DeadPeerNoticed
