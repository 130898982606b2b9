\* Two files, two tasks, two profiles, one crash, one request of the user.
SPECIFICATION Spec

CONSTANTS
    Profiles = {"mono16k", "mono32k"}
    MaxRetries = 1
    MaxUploads = 2
    MaxTasks = 2
    MaxReopens = 1
    MaxCrashes = 1
    None = None

INVARIANT TypeOK
INVARIANT AudioIsKept
INVARIANT KeysResolve
PROPERTY FinishesOnLastFile
PROPERTY DeliveredIsCollected

\* A recording that completed or stopped may rest.
CHECK_DEADLOCK FALSE
