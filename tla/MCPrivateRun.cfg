SPECIFICATION Spec
CONSTANTS
    p1 = p1
    p2 = p2
    d1 = d1
    d2 = d2
    w1 = w1
    w2 = w2
    Procs = {p1, p2}
    Pids = {d1, d2}
    Works = {w1, w2}
    Finals = {f1}
    Inputs = {i1, i2}
    Steps = 2
    Durations <- MCDurations
    SmokePaths = {w1}
    MaxDeaths = 2
    MaxDrifts = 1
    None = None
SYMMETRY Symmetric
INVARIANTS
    MemoryFresh
PROPERTIES
    ImplementsIdentity
