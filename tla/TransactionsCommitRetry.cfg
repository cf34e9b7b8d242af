SPECIFICATION Spec
CONSTANTS
    Levels = {serializable}
    ServerDefault = ServerDefault
    None = None
    Tasks = {t1, t2}
    Conns = {c1}
    Stmts = {s1}
    MaxAttempts = 2
    BodySwallows = FALSE
CHECK_DEADLOCK FALSE
SYMMETRY Symmetry
INVARIANTS
    SerializationFailureRetried
