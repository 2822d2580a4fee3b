CONSTANTS
    Keys = {k1, k2}
    Callers = {i1, i2}
    ClientIds = {c1, c2, c3}
    None = None
SPECIFICATION Spec
PROPERTY CacheHitIsLive
CHECK_DEADLOCK FALSE
