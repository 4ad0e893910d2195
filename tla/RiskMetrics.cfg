SPECIFICATION Inputs
CONSTANTS
    Confidence = 95
    RollingWindow = 2
    Asset = {btc, eth}
    Price = {0, 1, 2, 3}
    MaxPrices = 4
    Value = {0, 1, 2}
    MaxReturns = 41
INVARIANTS
    AlignedAtNewest
    MetricsOfPrices
    RaisesOnlyOnTotalLoss
    VaRIsQuantile
\* Histories end at the bound.
CHECK_DEADLOCK FALSE
