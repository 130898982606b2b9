\* No task outlives its handler.
SPECIFICATION Spec

CONSTANTS
    Stages = {"a", "b"}
    AsyncStages = {"b"}
    HandoffStages = {"b"}
    Recovering = {}
    Fingerprinted = {"a"}
    Elusive = {"a"}
    Pipelines <- BothStages
    Declarable = {"b"}
    MaxRetries = 0
    InlineDispatch = TRUE
    InputsRevert = FALSE
    MaxRuns = 1
    MaxTasks = 2
    MaxVersion = 1
    None = None

INVARIANT CheckpointsHold
INVARIANT ReportedOnce

\* A recording that completed, failed or was deleted may rest.
CHECK_DEADLOCK FALSE
