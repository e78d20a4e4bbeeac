\* Two requests at once on one account that waits for its invite to be accepted, and
\* one fault.
CONSTANTS
    u1 = u1  u2 = u2
    p1 = p1  p2 = p2
    t1 = t1  t2 = t2  t3 = t3
    k1 = k1  k2 = k2
    r1 = r1  r2 = r2
    Users = {u1}
    Platform = {}
    Pending = {u1}
    Passwords = {p1, p2}
    Initial <- AllStartWithP1
    Tokens = {t1, t2, t3}
    Links = {k1}
    Requests = {r1, r2}
    None = None
    DevInvites = TRUE
    FaultKinds = {"error", "crash"}
    MaxFaults = 1
SPECIFICATION Spec
SYMMETRY Symmetric
VIEW WhatMatters
INVARIANTS
    OnlyLateSessionsSurvive
    SpentTokensAreDead
    PendingHasNoSession
PROPERTIES
    InactiveIsShutOut
