SPECIFICATION ReportsSpec
CONSTANTS
    Launches = {l1, l2}
    l1 = l1
    l2 = l2
    Runs = {r1, r2}
    r1 = r1
    r2 = r2
    NoOne = NoOne
    Paths = {1, 2}
    FullContext = 6
    LegacyContext = 4
    StrictContext = 5
    QuestionTokens = 1
    Prefix = 1
    Journals = {1, 2}
    Scenarios <- MCScenarios
    Labels = {"x", "y"}
    NoLabel = "-"
    ServerReplies <- MCReplies
    Bridges <- MCBridges
    TaskRows = 2
    AffectedRows = 1
    MaxDeaths = 1
    Validators = {v1, v2}
    MaxKills = 1
INVARIANTS
    SummaryHonest
    RecordsBound
    CombinedAnswered
CHECK_DEADLOCK FALSE
