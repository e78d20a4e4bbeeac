\* Two requests of two employees of one tenant, twins with one idempotency key among
\* them, and one fault anywhere: an operation rejected or not acknowledged, a crash of
\* the process, or an idempotency record dropped by its TTL.
CONSTANTS
    b1 = b1  b2 = b2  b3 = b3  b4 = b4
    r1 = r1  r2 = r2  r3 = r3
    e1 = e1  e2 = e2
    c1 = c1  c2 = c2
    t1 = t1  t2 = t2
    k1 = k1  None = None
    Bookings = {b1, b2, b3}
    Requests = {r1, r2}
    Employees = {e1, e2}
    Consultants = {c1}
    Tenants = {t1}
    TenantOf <- OneTenant
    ActiveConsultants = {}
    Serves <- ServesAll
    Slots <- TwoSlots
    Keys = {k1}
    ClosureCalls <- SomeClosures
    BlockIds <- OneBlockEach
    Published <- AllDay
    MinNotice = 1
    Horizon = 1
    FaultKinds = {"error", "unacknowledged", "crash", "expiry"}
    MaxFaults = 1
SPECIFICATION Spec
SYMMETRY Symmetric
VIEW AnswersForgotten
INVARIANTS
    IInv
    KeyLeadsHome
    KeyMakesOne
PROPERTIES
    ImplementsBook
    CutoffEnforced
    RefusedLeavesNothing
