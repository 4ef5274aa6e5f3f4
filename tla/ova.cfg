SPECIFICATION LiveSpec
CONSTANTS
    Process = {p1, p2, p3}
    Free = Free
INVARIANTS
    VerifiedUse
PROPERTIES
    GoodStays
    EveryoneReturns
CHECK_DEADLOCK FALSE
