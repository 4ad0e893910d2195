SPECIFICATION FairSpec
CONSTANTS
    Node = {n1}
    Interval = 6
    Timeout = 1
    Connects = 1
    Reads = 2
    StaleAfter = 36
    OfflineAfter = 72
    MaxMissed = 3
    MaxDelay = 6
    MaxFaults = 3
INVARIANTS
    OnlineWhileBeating
PROPERTIES
    EventuallyOnline
    DeadShownOffline
