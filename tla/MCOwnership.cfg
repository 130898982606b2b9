\* Two recordings of two files, one of them a guest's.
SPECIFICATION Spec

CONSTANTS
    Recordings = {r1, r2}
    Files = {f, g}
    Claims = {f, None}
    Guest = guest
    User = user
    MaxAgain = 1
    None = None

INVARIANT ChargeInv
INVARIANT TextOfOwnFile
INVARIANT AskedIsCharged
PROPERTY NothingIsStranded

CHECK_DEADLOCK FALSE
