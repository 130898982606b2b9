\* The whole life of a recording and its end; liveness of the removal.
SPECIFICATION ESpec

CONSTANTS
    Profiles = {"mono16k"}
    MaxRetries = 0
    MaxUploads = 2
    MaxTasks = 1
    MaxReopens = 0
    MaxCrashes = 1
    None = None

INVARIANT ErasureInv
PROPERTY RemovedIsErased

\* An erased recording may rest.
CHECK_DEADLOCK FALSE
