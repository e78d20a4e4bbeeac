\* Two requests at once on the blocks of one consultant.
CONSTANTS
    k1 = k1  k2 = k2  k3 = k3
    c1 = c1  c2 = c2  c3 = c3
    t1 = t1  t2 = t2
    ed1 = ed1  ed2 = ed2  None = None
    BlockIds = {k1, k2, k3}
    Consultants = {c1}
    Tenants = {t1, t2}
    ActiveConsultants = {c1}
    Serves <- Scope
    Instants = {0, 1, 2}
    Editors = {ed1, ed2}
    Published <- TwoBlocks
SPECIFICATION Spec
SYMMETRY Symmetric
VIEW AnswersForgotten
INVARIANTS
    BlocksStayValid
PROPERTIES
    DeletedStaysDeleted
