SPECIFICATION LoopFairSpec
CONSTANTS
    MaxEpochs = 4
    Batches = 3
    Accumulation = 2
    Patience = 2
    Scores = {0, 1, 2}
    StopLimits = {0, 1, 4, NoLimit}
    NoLimit = NoLimit
    Absent = Absent
    Pending = Pending
    MaxCrashes = 2
INVARIANTS
    LossBounded
PROPERTIES
    Completes
    ImplementsUninterrupted
