CONSTANTS
    Requests = {r1, r2}
    Resets = {k1, k2}
    Initial = Initial
    r1 = r1
    r2 = r2
    k1 = k1
    k2 = k2
    MaxFailedLogins = 2
    Lockout = 1
    MaxTime = 2
    MaxCount = 4
SPECIFICATION Spec
SYMMETRY Symmetry
INVARIANT LockoutReached
INVARIANT ResetTokenWorksOnce
INVARIANT StatusGates
INVARIANT ResetEndsOldSessions
INVARIANT LockLastsItsTime
