SPECIFICATION Spec
CONSTANTS
    Thread = {t1, t2}
    Symbol = {btc, eth}
    Verdict = {confirmed}
    Pending = pending_review
    NoJob = NoJob
    Window = 2
    MaxEvents = 3
    MaxReviews = 1
    MaxSaveFailures = 1
    MaxCrashes = 1
SYMMETRY Symmetry
INVARIANTS
    AckedStored
    AlertsHaveTheirHistory
PROPERTIES
    ReviewNotUndone
\* The bounded requests run out.
CHECK_DEADLOCK FALSE
