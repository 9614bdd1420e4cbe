SPECIFICATION FairSpec
CONSTANTS
    Identities <- MCIdentities
    Lanes = {"training", "sealed"}
    Plan <- MCPlan
    Answers <- MCAnswers
    Evidence <- MCEvidence
    MaxDeaths = 1
    Failed = Failed
    None = None
CHECK_DEADLOCK FALSE
INVARIANTS
    OneRequest
    LedgerReadable
    VerdictSound
PROPERTIES
    ComesToVerdict
