SPECIFICATION Spec
CONSTANTS
    VCenter = {v1, v2, v3, v4}
    Absent = Absent
    Unparsable = Unparsable
    NoFile = NoFile
    Torn = Torn
    NoCycle = NoCycle
    Outside <- AnyInterference
    TornWrites = TRUE
    MaxApplies = 2
    MaxEdits = 2
    MaxFaults = 1
SYMMETRY VCenterSymmetry
INVARIANTS
    ApplyComplete
    RestoreExact
    VCenterLimit
