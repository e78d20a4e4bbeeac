\* Three requests of any kind at once, over two tenants, with one fault.
CONSTANTS
    h1 = h1  h2 = h2  c1 = c1  op = op
    A = A  B = B
    i1 = i1  i2 = i2  i3 = i3
    r1 = r1  r2 = r2  r3 = r3
    None = None
    Users = {h1, h2, c1, op}
    Tenants = {A, B}
    TenantOf <- WhoseTenant
    RolesOf <- WhichRoles
    Pending = {c1}
    Rows = {i1, i2, i3}
    Requests = {r1, r2, r3}
    MaxMarks = 3
    FaultKinds = {"error", "crash"}
    MaxFaults = 1
SPECIFICATION Spec
SYMMETRY Symmetric
VIEW WhatMatters
INVARIANTS
    OneRowPerEmployee
    RowsStayInTenant
    AuditExplainsRows
    NoEntryWhileBarred
