\* Two logins at once with one email and client.  No symmetry: liveness.
CONSTANTS
    k1 = k1  k2 = k2
    i1 = i1  i2 = i2  i3 = i3
    r1 = r1  r2 = r2
    None = None
    Keys = {k1}
    Requests = {r1, r2}
    Buckets = {i1, i2, i3}
    MaxAttempts = 3
    Window = 2
    Lockout = 2
    MaxStall = 1
SPECIFICATION Spec
INVARIANTS
    NotLockedEarly
    AloneCountsExactly
PROPERTIES
    LockStands
    LockEnds
