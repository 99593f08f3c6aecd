SPECIFICATION RSpec
CONSTANTS
    r1 = r1
    r2 = r2
    r3 = r3
    Request = {r1, r2, r3}
    Goroutine <- TwoGoroutines
    MsgID <- IDs
    MaxID = 5
    WindowSize = 2
    MaxRetries = 0
    Moves = 0
    None = None
CHECK_DEADLOCK FALSE
INVARIANT ResponseIsMine
