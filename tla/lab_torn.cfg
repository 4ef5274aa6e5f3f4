SPECIFICATION Spec
CONSTANTS
    VCenter = {v1, v2, v3}
    Absent = Absent
    Unparsable = Unparsable
    NoFile = NoFile
    Torn = Torn
    NoCycle = NoCycle
    Outside <- Nothing
    TornWrites = TRUE
    MaxApplies = 2
    MaxEdits = 0
    MaxFaults = 1
INVARIANT BackupBeforeChange
