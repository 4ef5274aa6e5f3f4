SPECIFICATION LiveSpec
CONSTANTS
    Machine = {m1}
    Controller = {c1, c2}
    ControlPod = {p1}
    NodePod = {}
    Before = {vc1}
    Second = vc2
    MaxReacting = 2
    MaxPolls = 1
    MaxWaiting = 2
INVARIANTS
    TypeOK
    ReadyCluster
    VerifyPassesAfterReady
PROPERTIES
    WaitEnds
CHECK_DEADLOCK FALSE
