CONSTANTS
    MaxMachines = 3
    Target = 2
    Deadline = 2
    MaxDeletes = 1
    MaxWrites = 1
SPECIFICATION Spec
INVARIANTS
    TypeOK
    RecordsOrdered
PROPERTIES
    AllRunningAtReturn
    ChangedWereWritten
    JoinedMeansAll
CHECK_DEADLOCK FALSE
