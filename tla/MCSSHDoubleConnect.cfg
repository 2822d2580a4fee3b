CONSTANTS
    Keys = {k1}
    Callers = {i1, i2}
    ClientIds = {c1, c2}
    None = None
SPECIFICATION Spec
INVARIANT NoLeakedClient
CHECK_DEADLOCK FALSE
