SPECIFICATION FairSpec
CONSTANTS
    MaxLoss = 2
    MaxTrades = 2
    MaxFills = 1
    MaxLost = 1
    Stake = 3
    MaxFaults = 1
    Cases <- Pairs
INVARIANTS
    LossesBounded
    TradesBounded
PROPERTY
    BreachedIsStopped
