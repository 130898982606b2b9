\* Two requests, two failures to a lockout, two lockouts to the cap.
SPECIFICATION Spec

CONSTANTS
    Requests = {r1, r2}
    MaxAttempts = 2
    Cap = 4
    MaxVersions = 2
    None = None

INVARIANT TokenDiesWithItsSecret
INVARIANT CountInv
PROPERTY LockoutHolds
