SPECIFICATION FairSpec
CONSTANTS
    Calls = {c1, c2}
    Nobody = Nobody
    Configs <- MCConfigs
    Served = "served"
    Ceiling <- MCCeiling
    OutputBudget <- MCOutputBudget
    Context = 4
    Outputs <- MCOutputs
    MaxQuestions = 2
    MaxName = 2
    MaxLaunches = 1
    Tasks <- MCTasks
    Published <- MCPublished
    Variants <- MCVariants
    Missing = Missing
    Arguments <- MCArguments
    Attempts = 2
    Prompt = 2
    ForeignReplies <- MCForeignReplies
    OtherBodies <- MCOtherBodies
    MaxOthers = 1
INVARIANTS
    RepliesMatchWork
    NeverBusyAlone
    ReadyIsAccepted
PROPERTIES
    RunEnds
CHECK_DEADLOCK FALSE
