SPECIFICATION FairSpec
CONSTANTS
    p1 = p1
    p2 = p2
    Procs = {p1, p2}
    Plans <- MCPlans
    Worst <- MCWorst
    Wide = 1000
    None = None
    ProjectEvery = 2
    MaxSent = 20
    MaxSnapshots = 40
CHECK_DEADLOCK FALSE
INVARIANTS
    Charged
    NeverRepeated
    OutcomesOfFinalAttempts
    FailsClosedOnlyAfterDeath
    BudgetKept
PROPERTIES
    Decided
