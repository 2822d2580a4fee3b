CONSTANTS
    w1 = w1
    w2 = w2
    None = None
    Workflows <- MCOneWorkflow
    Startable <- MCStartable
    HasWebhooks <- MCHasWebhooks
    HasTriggers <- MCOneWorkflow
    MultiMain = FALSE
    UserWorkflows <- MCUserWorkflows
    BatchSize = 1
    InitialTimeout = 1
    MaxTimeout = 4
    BackoffSteps = 2
    TaskIds = {1, 2}
    TimerIds = {1, 2}
    HandleIds = {1, 2}
    MaxEnvSteps = 3
SPECIFICATION Spec
INVARIANTS TypeOK RetryPending BackoffLaw
CHECK_DEADLOCK FALSE
