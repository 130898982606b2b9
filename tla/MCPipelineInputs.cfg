\* Inputs change under every stage.
SPECIFICATION Spec

CONSTANTS
    Stages = {"a", "b"}
    AsyncStages = {"b"}
    HandoffStages = {}
    Recovering = {"b"}
    Fingerprinted = {"a", "b"}
    Elusive = {"a"}
    Pipelines <- BothStages
    Declarable = {}
    MaxRetries = 0
    InlineDispatch = FALSE
    InputsRevert = FALSE
    MaxRuns = 1
    MaxTasks = 2
    MaxVersion = 1
    None = None

INVARIANT PrintsAreTrue
PROPERTY DeliveredIsCurrent

\* A recording that completed, failed or was deleted may rest.
CHECK_DEADLOCK FALSE
