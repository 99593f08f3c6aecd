SPECIFICATION Spec
CONSTANTS
    MsgID = {0}
    Totals = {2, 3}
    MaxPacket = 2
    MaxGen = 1
    Kind = {"request", "response"}
    None = None
    ikeOverhead = 6
    maxFragments = 6
    Suites <- SmallSuites
    MTUs = {17, 18, 19, 20, 21, 22}
    MaxLength = 30
    MaxSpare = 5
CHECK_DEADLOCK FALSE
INVARIANTS
    OneCutPerMessage
    NoCompleteSetStaysBehind
PROPERTIES
    PeerReassembles
