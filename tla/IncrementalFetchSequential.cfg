SPECIFICATION FairSpec
CONSTANTS
    NULL = NULL
    None = None
    Rows = {r1, r2, r3}
    Pollers = {p1}
    Columns = 2
    Values = {0, 1}
    Limit = 2
    InKeyOrder = TRUE
    MaxCrashes = 2
INVARIANTS
    TypeOK
    RedeliveredOnlyByCrash
    NoGaps
PROPERTIES
    WatermarkMoves
    EveryRowDelivered
    ServedInOrder
