SPECIFICATION BoundedSpec
CONSTANTS
    Strategies = {"a", "b"}
    Intraday = {"a"}
    Lot = 2
    Gains <- Moves
    StopAt = 2
    BookAt = 1
    Starting = 20
    Guards <- Both
    Cases <- Together
    MaxFaults = 1
INVARIANTS
    FundsFollowRows
PROPERTIES
    SquareOffIsComplete
    GuardrailTrips
