SPECIFICATION Spec
CONSTANTS
    Requests = {r1, r2}
    MaxOrders = 2
    Quantities = {1, 2}
    Choices = {"INTRADAY"}
    Prices = {500}
    PaperPrice = 600
    Balances = {1750, 4000}
    MaxFaults = 1
SYMMETRY Symmetry
INVARIANTS
    NeverShort
    DeliveryIsPaid
PROPERTY FundsMoveWithTrades
