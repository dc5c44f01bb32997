SPECIFICATION FairSpec
CONSTANTS
    Strategies = {st1, st2}
    Users = {u1}
    Owner <- OneUser
    Workers = {w1, w2}
    NoOne = NoOne
    Lost = Lost
    TTL = 1
    Interval = 0
    MaxRequests = 1
    Touched = {}
PROPERTIES
    EveryDueStrategyIsReached
    RowsAreReleased
