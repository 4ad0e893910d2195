SPECIFICATION FairSpec
CONSTANTS
    Thread = {t1}
    anomaly = anomaly
    risk = risk
    Target = {anomaly, risk}
    Providers <- MCProviders
    Retries = 3
    MaxEvents = 1
    MaxLost = 1
INVARIANTS
    BoundedDuplication
    VerdictsAreTrue
    ForwardedReachedAll
PROPERTIES
    RoutingEnds
\* The bounded events run out.
CHECK_DEADLOCK FALSE
