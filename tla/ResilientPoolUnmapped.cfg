SPECIFICATION FairSpec
CONSTANTS
    Callers = {k1}
    Threshold = 2
    Reset = 2
    IdleConns = 1
    MaxMishaps = 0
    TimeoutMapped = FALSE
PROPERTIES
    KeepsOpening
