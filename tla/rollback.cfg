SPECIFICATION Spec
CONSTANTS
    Strategies = {st1, st2}
    Users = {u1}
    Owner <- OneUser
    Workers = {w1, w2}
    NoOne = NoOne
    Lost = Lost
    TTL = 2
    Interval = 1
    MaxRequests = 1
    Touched = {}
SYMMETRY Symmetry
INVARIANT RollsBackOnlyItsOwn
