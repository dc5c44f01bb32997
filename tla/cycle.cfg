SPECIFICATION FairSpec
CONSTANTS
    Symbols = {a, b, x}
    ExitOnly = {x}
    Direction = "LONG"
    Configs <- NarrowOrSingle
    Lot = 2
    Shares = 3
    Others = TRUE
    MaxHeld = 4
    MaxFaults = 2
INVARIANTS
    WithinMaxOpen
    WithinCap
    LongOnlyStaysLong
PROPERTIES
    EveryTurnEnds
