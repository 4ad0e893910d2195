SPECIFICATION Spec
CONSTANTS
    Thread = {t1, t2}
    Symbol = {btc}
    NoEvent = NoEvent
    MaxOps = 2
    MaxSaveFailures = 0
    MaxCrashes = 0
SYMMETRY Symmetry
INVARIANTS
    AckedStored
\* The bounded requests run out.
CHECK_DEADLOCK FALSE
