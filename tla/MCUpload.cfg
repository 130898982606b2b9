\* Two requests at a time; two multipart sessions after the first; one purge.
SPECIFICATION Spec

CONSTANTS
    Requests = {q1, q2}
    MaxSessions = 3
    MaxPurges = 1
    None = None

SYMMETRY Interchangeable

INVARIANT TypeOK
INVARIANT SweepSparesAccepted
INVARIANT AnnouncedOncePerUpload
INVARIANT AloneAcceptedIsStored
INVARIANT AloneOneLiveSession
PROPERTY GoneStaysGone
PROPERTY AloneMarkerOutlivesSource

\* An upload may be given up, accepted or purged and rest there.
CHECK_DEADLOCK FALSE
