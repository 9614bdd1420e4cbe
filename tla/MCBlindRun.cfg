SPECIFICATION FairSpec
CONSTANTS
    Processes = {p1, p2}
    Fits = {f1, f2}
    Nobody = Nobody
    Absent = Absent
    MaxFaults = 3
    MaxLosses = 2
INVARIANTS
    FinalizedStands
PROPERTIES
    ImplementsExposure
    EventuallyConcluded
CHECK_DEADLOCK FALSE
