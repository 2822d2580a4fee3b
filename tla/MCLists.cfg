CONSTANTS
    Wfs = {w1}
    Execs = {e1, e2}
    MaxListLen = 2
    MaxLoads = 2
    None = None
SPECIFICATION Spec
INVARIANT NoDuplicateActiveExecutions
