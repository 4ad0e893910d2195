SPECIFICATION Spec
CONSTANTS
    Thread = {t1, t2}
    Symbol = {btc, eth}
    NoEvent = NoEvent
    MaxOps = 3
    MaxSaveFailures = 1
    MaxCrashes = 2
SYMMETRY Symmetry
INVARIANTS
    AckedStoredInTurn
    RecordedAfterSave
    BasesAreRight
\* The bounded requests run out.
CHECK_DEADLOCK FALSE
