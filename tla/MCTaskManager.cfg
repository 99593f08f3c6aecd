SPECIFICATION FairSpec
CONSTANTS
    Request = {r1, r2, r3}
    MsgID = {m1, m2, m3}
    WindowSize = 1
    MaxRetries = 1
    None = None
CHECK_DEADLOCK FALSE
INVARIANTS
    TypeOK
    WindowBound
    NoLostWaiter
    QueueNeverStranded
    NeverBroken
    RetryBudget
PROPERTIES
    CompletedIsFinal
    ImplementsWindow
    EveryRequestResolved
