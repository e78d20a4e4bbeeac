\* A reschedule whose idempotency record cannot be written.
CONSTANTS
    b1 = b1  b2 = b2  b3 = b3  b4 = b4
    r1 = r1  r2 = r2  r3 = r3
    e1 = e1  e2 = e2
    c1 = c1  c2 = c2
    t1 = t1  t2 = t2
    k1 = k1  None = None
    Bookings = {b1, b2, b3}
    Requests = {r1, r2}
    Employees = {e1}
    Consultants = {c1}
    Tenants = {t1}
    TenantOf <- OneTenant
    ActiveConsultants = {c1}
    Serves <- ServesAll
    Slots <- TwoSlots
    Keys = {k1}
    ClosureCalls <- SomeClosures
    BlockIds <- OneBlockEach
    Published <- AllDay
    MinNotice = 0
    Horizon = 0
    FaultKinds = {"error"}
    MaxFaults = 1
SPECIFICATION Spec
SYMMETRY Symmetric
VIEW AnswersForgotten
INVARIANTS
    NoDoubleReservation
