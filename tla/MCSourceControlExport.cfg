CONSTANTS
    WfIds = {"w1"}
    CredIds = {"c1", "c2"}
    TagIds = {"t1"}
    VarIds = {"v1"}
    CredData <- MCCredData
    WfProjects = {"missing", "team", "unknownType"}
    CredProjects = {"missing", "personal", "personalNoOwner"}
    WriteFaults = TRUE
SPECIFICATION Spec
INVARIANTS NoSecretInStubs CredentialsAccounted
CHECK_DEADLOCK FALSE
