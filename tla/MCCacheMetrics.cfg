CONSTANTS
    Callers = {c1, c2}
    RoleKeys = {"global:owner", "workflow:editor"}
    MaxCalls = 3
    Absent = Absent
    EventNames = {"n8n.workflow.started", "n8n.audit.user-login"}
    ValidNames = {"n8n.workflow.started"}
    LabelledNames = {"n8n.workflow.started"}
    LabelValues = {"1"}
    MaxInits = 1
    MaxEvents = 2
    Null = Null
SPECIFICATION Spec
SYMMETRY CallerSymmetry
INVARIANT ExportedTotalsMatchEvents
CHECK_DEADLOCK FALSE
