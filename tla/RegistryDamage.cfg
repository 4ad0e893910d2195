SPECIFICATION FairSpec
CONSTANTS
    Worker = {w1, w2}
    Node = {n1}
    NoBlock = NoBlock
    EventType <- MCEventType
    Actor <- MCActor
    MaxClock = 1
    MaxRequests = 2
    MaxSaveFailures = 1
    MaxCrashes = 1
    MaxTampers = 1
    MaxFailures = 2
INVARIANTS
    VerifiedLedgerKeepsAnswered
PROPERTIES
    DamageNotHidden
    DamageReported
    RequestsEnd
\* The verifier stops after MaxFailures reports.
CHECK_DEADLOCK FALSE
