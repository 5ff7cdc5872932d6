SPECIFICATION Spec
CONSTANTS
    p1 = p1
    p2 = p2
    p3 = p3
    Procs = {p1, p2, p3}
    Cores = {c1, c2}
    Fleets <- MCFleets
    MaxFaults <- MCMaxFaults
    Nobody = Nobody
INVARIANTS WatchdogComesBack CountersKept MachineLeftClean
PROPERTY EveryoneLeaves
CHECK_DEADLOCK FALSE
