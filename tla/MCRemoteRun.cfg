SPECIFICATION MCFairSpec
CONSTANTS
    r1 = r1
    r2 = r2
    o1 = o1
    o2 = o2
    Runs = {r1, r2}
    Sealers = {s1}
    Outputs = {o1, o2}
    Absent = Absent
    LastOrdinal = 2
    MaxFaults = 2
INVARIANTS
    SealedLasts
    ResultHonest
PROPERTIES
    EventuallySealed
CHECK_DEADLOCK FALSE
