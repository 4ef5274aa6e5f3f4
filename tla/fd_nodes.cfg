SPECIFICATION LiveSpec
CONSTANTS
    Suites = {op, storage}
    Timed = {storage}
    MaxRuns = 4
    MaxFaults = 3
INVARIANTS
    NothingLeft
    SpecsHaveNode
PROPERTIES
    TemplateWhileNeeded
    NotUnderMachines
    MachinesGo
    SuiteEnds
CHECK_DEADLOCK FALSE
