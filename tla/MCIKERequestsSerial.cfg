SPECIFICATION RFairSpec
CONSTANTS
    r1 = r1
    r2 = r2
    r3 = r3
    Request = {r1, r2, r3}
    Goroutine <- OneGoroutine
    MsgID <- IDs
    MaxID = 3
    WindowSize = 5
    MaxRetries = 0
    Moves = 1
    None = None
CHECK_DEADLOCK FALSE
INVARIANTS
    ResponseIsMine
PROPERTIES
    EveryCallReturns
