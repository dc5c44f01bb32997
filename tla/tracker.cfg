SPECIFICATION Spec
CONSTANTS
    Symbols = {s1}
    Strategies <- MCStrategies
    Quantities = {2}
    Prices = {80, 101, 125}
    UserPcts = {10}
    MaxOps = 4
INVARIANTS
    QuantitiesFitStatus
    RealizedMatchesCash
    RuleSellsOnce
PROPERTIES
    StopsOnlyTighten
