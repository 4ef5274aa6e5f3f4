SPECIFICATION FairSpec
CONSTANTS
    Program <- MCProgram
    Selections <- AllLabels
    MaxFaults = 3
INVARIANTS
    CleanStart
    OwnVolumeOnly
    NothingForgotten
PROPERTIES
    TagHeld
    SiteRecovers
CHECK_DEADLOCK FALSE
