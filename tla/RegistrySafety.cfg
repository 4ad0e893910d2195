SPECIFICATION Spec
CONSTANTS
    Worker = {w1, w2}
    Node = {n1, n2}
    NoBlock = NoBlock
    EventType <- MCEventType
    Actor <- MCActor
    MaxClock = 2
    MaxRequests = 3
    MaxSaveFailures = 1
    MaxCrashes = 1
    MaxTampers = 0
    MaxFailures = 1
SYMMETRY Symmetry
INVARIANTS
    TypeOK
    ChainIntact
    AnswersStoredOnce
    ReadersSeeStoredState
    StampsInOrder
    LedgerPeersStored
PROPERTIES
    ImplementsAuditLog
