SPECIFICATION Spec
CONSTANTS
    Program <- MCProgram
    Selections <- OnlyEdge
    MaxFaults = 0
INVARIANTS
    NoFalseFailure
CHECK_DEADLOCK FALSE
