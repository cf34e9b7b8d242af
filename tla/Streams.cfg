SPECIFICATION FairSpec
CONSTANTS
    Calls = {k1, k2, k3}
    Conns = {c1}
    Channels = {ch1}
    None = None
INVARIANTS
    TypeOK
    OneUser
    IdleIsReady
PROPERTIES
    WaitsEnd
    ComesBack
    KeepsPromise
