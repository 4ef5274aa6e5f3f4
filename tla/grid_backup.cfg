CONSTANTS
    Runs = 2
    MaxFaults = 0
SPECIFICATION Spec
INVARIANT RestoresOwnCluster
CHECK_DEADLOCK FALSE
