CONSTANTS
    Names = {n1, n2}
    Outputs = {0}
    Inputs = {0, 1}
    MaxConns = 2
    IssueTypes = {"parameters"}
    None = None
SPECIFICATION Spec
INVARIANTS TypeOK NoDuplicateConnections
PROPERTY RemoveConnectionIsFilter
