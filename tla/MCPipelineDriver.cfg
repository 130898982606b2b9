\* Edited stage lists, hand-offs, recovery, two runs.
SPECIFICATION Spec

CONSTANTS
    Stages = {"a", "b"}
    AsyncStages = {"b"}
    HandoffStages = {"b"}
    Recovering = {"b"}
    Fingerprinted = {}
    Elusive = {}
    Pipelines <- EditedPipelines
    Declarable = {}
    MaxRetries = 1
    InlineDispatch = FALSE
    InputsRevert = FALSE
    MaxRuns = 2
    MaxTasks = 2
    MaxVersion = 0
    None = None

INVARIANT TypeOK
INVARIANT CompletedOncePerRun
INVARIANT ChargedIsNotRefunded
INVARIANT LiveHasDriver
PROPERTY ReopeningKeepsTheBill
PROPERTY ImplementsLifecycle

\* A recording that completed, failed or was deleted may rest.
CHECK_DEADLOCK FALSE
