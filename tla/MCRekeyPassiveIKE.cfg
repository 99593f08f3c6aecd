SPECIFICATION SpecPassiveIKE
CONSTANTS
    Caller = {}
    MaxFail = 2
    MaxSA = 1
    MaxIKE = 1
    DPDEnabled = FALSE
    None = None
CHECK_DEADLOCK FALSE
PROPERTIES
    PassiveIKERekeyCompletes
