\* Two requests of any kind and one edit of a block at a time, on one consultant's
\* time and for two tenants; nothing fails, no keys.
CONSTANTS
    b1 = b1  b2 = b2
    r1 = r1  r2 = r2
    e1 = e1  e2 = e2
    c1 = c1
    t1 = t1  t2 = t2
    k1 = k1  k2 = k2
    ed1 = ed1  None = None
    Bookings = {b1, b2}
    Requests = {r1, r2}
    Employees = {e1, e2}
    Consultants = {c1}
    Tenants = {t1, t2}
    TenantOf <- TwoTenants
    ActiveConsultants = {c1}
    Serves <- ServesAll
    Slots <- TwoSlots
    Keys = {}
    ClosureCalls = {}
    BlockIds = {k1, k2}
    Published <- OneBlock
    MinNotice = 0
    Horizon = 0
    FaultKinds = {}
    MaxFaults = 0
    Instants = {1, 2, 3}
    Editors = {ed1}
SPECIFICATION SchedulingSpec
SYMMETRY Symmetric
INVARIANTS
    SessionsDisjoint
