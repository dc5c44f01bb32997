SPECIFICATION Spec
CONSTANTS
    Symbols = {a, b}
    ExitOnly = {}
    Direction = "LONG"
    Configs <- Wide
    Lot = 2
    Shares = 3
    Others = TRUE
    MaxHeld = 4
    MaxFaults = 0
PROPERTY HoldTradesNothing
