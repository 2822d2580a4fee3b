CONSTANTS
    Clients = {c1}
    Urls = {"u1"}
    Branches = {"b1", "b2"}
    Colors = {"#f00"}
    InitRepos = {Undef, TRUE, FALSE}
    DefaultBranch = "main"
    Undef = Undef
    NoRepo = NoRepo
    MaxRequests = 4
SPECIFICATION Spec
INVARIANTS TypeOK  ReadOnlyUpdateApplied
CHECK_DEADLOCK FALSE
