SPECIFICATION Spec
CONSTANTS
    Lifetimes = {20, 457}
    Jitter = {0, 15, 29}
    Slack = {0, 10, 29, 30, 100}
    Rejections = 1
    PeerRekeys = 1
    Periods = 4
CHECK_DEADLOCK FALSE
INVARIANTS
    IKERenewedInTime
    RekeysGoOn
