CONSTANTS
    Runs = 2
    MaxFaults = 2
SPECIFICATION Spec
INVARIANTS
    TypeOK
    PassIsGreen
    ReadyForTests
    GridIsRight
    OrphansAreFaults
PROPERTIES
    ResultsStay
CHECK_DEADLOCK FALSE
