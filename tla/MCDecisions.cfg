SPECIFICATION DecisionSpec
CONSTANTS
    Nothing = Nothing
    Schemas <- MCSchemas
    Locales = {"pt", "en"}
    Domains = {"support"}
    Limits <- MCLimits
    Keys <- MCKeys
    Whole = 4
    Models <- MCModels
    Callers <- MCCallers
    Commands <- MCCommands
    Runners <- MCRunners
    Replies <- MCReplies
    Policies <- MCPolicies
    Feedback <- MCFeedback
    MaxClock = 2
    MaxReplacements = 1
    MaxTries = 2
    Scenarios <- MCScenarios
INVARIANTS
    AnswersEarned
    CalibratedWhileLive
    ScoredByVerified
    ShadowWhole
CHECK_DEADLOCK FALSE
