SPECIFICATION FairSpec
CONSTANTS
    Callers = {k1, k2, k3}
    Threshold = 2
    Reset = 2
    IdleConns = 1
    MaxMishaps = 2
    TimeoutMapped = TRUE
INVARIANTS
    TypeOK
    BreakerConsistent
PROPERTIES
    KeepsOpening
    Recovers
    FollowsDiagram
