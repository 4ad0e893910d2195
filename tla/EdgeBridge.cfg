SPECIFICATION FairSpec
CONSTANTS
    MaxMessages = 2
    MaxResends = 1
    MaxQueue = 2
    MaxLinkLosses = 1
    MaxStops = 1
INVARIANTS
    OvertakenWasGivenUp
    NoDuplicateOfItsOwn
    ReportBoundsTheTruth
PROPERTIES
    BridgeCatchesUp
\* The bounded messages run out.
CHECK_DEADLOCK FALSE
