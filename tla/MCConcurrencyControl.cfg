CONSTANTS
    Execs = {e1, e2, e3, e4}
    Modes = {"webhook", "trigger", "manual"}
    CapChoices <- MCCapChoices
SPECIFICATION Spec
PROPERTY AdmissionRefined
CHECK_DEADLOCK FALSE
