SPECIFICATION Spec
CONSTANTS
    a = a
    b = b
    r1 = r1
    r2 = r2
    Symbols <- MCSymbols
    Requests <- MCRequests
    MaxTrades = 2
    MaxEdits = 1
INVARIANTS OneStrategy PositionsCovered
CHECK_DEADLOCK FALSE
SYMMETRY Symmetry
