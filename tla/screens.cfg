CONSTANTS
    s1 = s1 s2 = s2 e1 = e1 e2 = e2 c1 = c1 c2 = c2
    Sessions = {s1, s2}
    Employees = {e1, e2}
    Consultants = {c1, c2}
    Slots <- MCSlots
    None = None
    Self = e1
    Advisor = c1
    Starts <- MCStarts
    MaxSent = 2
    Choices = {"completed", "cancelled", "no_show"}
    MaxElsewhere = 1
    MaxBroken = 1
SPECIFICATION Spec
INVARIANTS AnswersShow FormFits
PROPERTY RemovalConfirmedTwice
CHECK_DEADLOCK FALSE
