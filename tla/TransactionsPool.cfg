SPECIFICATION Spec
CONSTANTS
    Levels = {serializable}
    ServerDefault = ServerDefault
    None = None
    Tasks = {t1, t2}
    Conns = {c1, c2}
    Stmts = {s1}
    MaxAttempts = 2
    BodySwallows = TRUE
CHECK_DEADLOCK FALSE
SYMMETRY Symmetry
INVARIANTS
    TypeOK
    Exclusivity
    IdleSessionsClean
    RequestedIsolation
PROPERTIES
    LeakOnlyAtBegin
