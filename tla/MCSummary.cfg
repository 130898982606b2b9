\* Merge, re-summaries and repair of one recording, with a lost answer.
SPECIFICATION Spec

CONSTANTS
    MaxTexts = 3
    Wordless = {3}
    MaxTasks = 2
    MaxJobs = 2
    MaxRuns = 2
    FirstDelay = 2
    MaxDelay = 3
    MaxLost = 1
    None = None

INVARIANT JobsInv
INVARIANT SkippedIsNeverOwed
INVARIANT NothingForgotten
PROPERTY JobsSettleOnce
PROPERTY OwedIsSettled

\* A recording with nothing in flight may rest.
CHECK_DEADLOCK FALSE
