SPECIFICATION Spec
CONSTANTS
    Thread = {t1, t2}
    Symbol = {btc, eth}
    Holdings = {{btc}, {btc, eth}}
    MaxOps = 3
    MaxSaveFailures = 1
    MaxCrashes = 1
SYMMETRY Symmetry
INVARIANTS
    SnapshotsCoverPriced
    AckedStoredInTurn
    LedgerGapUnanswered
\* The bounded requests run out.
CHECK_DEADLOCK FALSE
