SPECIFICATION FairSpec
CONSTANTS
    s1 = s1
    s2 = s2
    l1 = l1
    l2 = l2
    Saracura = {s1, s2}
    Laya = {l1, l2}
    Backends = {s1, s2, l1, l2}
    t1 = t1
    t2 = t2
    Threads = {t1, t2}
    Nobody = Nobody
    Unset = Unset
    CpuThreads <- MCCpuThreads
    StartThreads = 8
    Defects <- MCDefects
    MaxCalls <- MCThree
INVARIANTS
    SlotsAccounted
    ScoredWhileResident
PROPERTIES
    CallsReturn
CHECK_DEADLOCK FALSE
