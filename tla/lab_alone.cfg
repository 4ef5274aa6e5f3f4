SPECIFICATION LiveSpec
CONSTANTS
    VCenter = {v1, v2, v3}
    Absent = Absent
    Unparsable = Unparsable
    NoFile = NoFile
    Torn = Torn
    NoCycle = NoCycle
    Outside <- Nothing
    TornWrites = FALSE
    MaxApplies = 3
    MaxEdits = 0
    MaxFaults = 2
INVARIANTS
    BackupMatchesCycle
    CredsCoverInfra
PROPERTIES
    ImplementsAtomicBackup
    RestoreEventuallyReverts
