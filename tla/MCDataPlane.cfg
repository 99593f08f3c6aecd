SPECIFICATION Spec
CONSTANTS
    Session = {s1, s2}
    Local = {l1, l2}
    Gateway = {g1}
    None = None
    MaxSPI = 2
    MaxMoves = 1
    MaxFail = 1
    Width = 3
SYMMETRY Symmetry
CHECK_DEADLOCK FALSE
INVARIANTS
    RoutesMatchSelectors
    NothingLeftBehind
    TrafficPathIntact
