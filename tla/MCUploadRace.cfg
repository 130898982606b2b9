\* Two requests on the first session.
SPECIFICATION Spec

CONSTANTS
    Requests = {q1, q2}
    MaxSessions = 1
    MaxPurges = 0
    None = None

INVARIANT AcceptedIsStored

CHECK_DEADLOCK FALSE
