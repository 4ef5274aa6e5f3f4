CONSTANTS
    Node = {n1, n2, n3}
    Slots = 2
    Window = 4
    Grace = 11
    Interval = 1
    Delay = 2
    MaxWrites = 3
SPECIFICATION HelpersSpec
INVARIANTS
    CountedWhenReturned
    StableMeansQuiet
    TimeoutMeansWritten
PROPERTY HelpersReturn
CHECK_DEADLOCK FALSE
