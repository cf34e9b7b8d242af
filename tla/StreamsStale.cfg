SPECIFICATION Spec
CONSTANTS
    Calls = {k1, k2}
    Conns = {c1}
    Channels = {ch1, ch2}
    None = None
INVARIANT OwnEventsOnly
