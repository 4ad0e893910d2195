SPECIFICATION FairSpec
CONSTANTS
    MaxStops = 2
    MaxCommands = 1
    MaxTeardowns = 1
INVARIANTS
    Wired
    AllRecorded
    SeededIsThere
    AwsRecordedWhenConfigured
PROPERTIES
    GoLiveCompletes
\* Once everything is live and the bounds are used up, nobody acts.
CHECK_DEADLOCK FALSE
