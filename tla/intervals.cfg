\* subtractIntervals on every set of up to three cuts.  The loop ends.
CONSTANTS
    Last = 5
    Calls <- BoundedCalls
SPECIFICATION Spec
CHECK_DEADLOCK FALSE
INVARIANTS
    FreeIsRemainder
    FreeIsSeparate
    OrderIsIrrelevant
