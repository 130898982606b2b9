\* One asynchronous stage, a pass racing the driver, one loss.
SPECIFICATION RacingSpec

CONSTANTS
    Stages = {"b"}
    AsyncStages = {"b"}
    HandoffStages = {}
    Recovering = {}
    Fingerprinted = {}
    Elusive = {}
    Pipelines <- TaskOnly
    Declarable = {}
    MaxRetries = 1
    InlineDispatch = FALSE
    InputsRevert = FALSE
    MaxRuns = 1
    MaxTasks = 1
    MaxVersion = 0
    None = None
    MaxRedrives = 1
    MaxLosses = 1

PROPERTY NothingHangs

\* A recording that completed, failed or was deleted may rest.
CHECK_DEADLOCK FALSE
