SPECIFICATION Spec
CONSTANTS
    NULL = NULL
    None = None
    Rows = {r1, r2, r3}
    Pollers = {p1, p2}
    Columns = 2
    Values = {0, 1}
    Limit = 2
    InKeyOrder = FALSE
    MaxCrashes = 1
SYMMETRY Symmetry
PROPERTIES
    SkippedAtCommit
