SPECIFICATION FairSpec
CONSTANTS
    MaxStops = 1
    MaxCommands = 0
    MaxTeardowns = 1
PROPERTIES
    TeardownDeletesServices
\* Once everything is live and the bounds are used up, nobody acts.
CHECK_DEADLOCK FALSE
