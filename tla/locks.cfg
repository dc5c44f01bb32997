SPECIFICATION Spec
CONSTANTS
    Strategies = {st1}
    Users = {u1}
    Owner <- OneUser
    Workers = {w1, w2, w3}
    NoOne = NoOne
    Lost = Lost
    TTL = 2
    Interval = 1
    MaxRequests = 1
    Touched = {st1}
SYMMETRY Symmetry
PROPERTIES
    ImplementsExclusive
    OnlyOwnerFrees
