CONSTANTS
    w1 = w1
    w2 = w2
    None = None
    Workflows <- MCWorkflows
    Startable <- MCStartable
    HasWebhooks <- MCHasWebhooks
    HasTriggers <- MCHasTriggers
    MultiMain = TRUE
    UserWorkflows <- MCUserWorkflows
    BatchSize = 1
    InitialTimeout = 1
    MaxTimeout = 4
    BackoffSteps = 2
    TaskIds = {1, 2}
    TimerIds = {1, 2}
    HandleIds = {1, 2}
    MaxEnvSteps = 2
SPECIFICATION Spec
INVARIANT SingleRetryTimer
CHECK_DEADLOCK FALSE
