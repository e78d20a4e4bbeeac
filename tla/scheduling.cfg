\* One booking request and one edit of a block at a time, interleaved, on a database
\* with or without a session of the old version; one operation that the database
\* rejects.
CONSTANTS
    b1 = b1  b2 = b2  b3 = b3
    r1 = r1
    e1 = e1  e2 = e2
    c1 = c1  c2 = c2
    t1 = t1  t2 = t2
    k1 = k1  k2 = k2
    ed1 = ed1  None = None
    Bookings = {b1, b2}
    Requests = {r1}
    Employees = {e1, e2}
    Consultants = {c1}
    Tenants = {t1, t2}
    TenantOf <- TwoTenants
    ActiveConsultants = {c1}
    Serves <- ServesAll
    Slots <- TwoSlots
    Keys = {}
    ClosureCalls = {}
    BlockIds = {k1, k2}
    Published = {}
    MinNotice = 0
    Horizon = 0
    FaultKinds = {"error"}
    MaxFaults = 1
    Instants = {1, 2, 3}
    Editors = {ed1}
SPECIFICATION LegacySpec
SYMMETRY Symmetric
VIEW WhatMatters
INVARIANTS
    ListingAgrees
    SessionsAreVisible
    BlocksDisjoint
PROPERTIES
    PatchKeepsTheRest
    RescheduleFailsSafe
    ClaimIsKept
