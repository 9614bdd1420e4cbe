SPECIFICATION Spec
CONSTANTS
    Names <- MCNames
    Inodes <- MCInodes
    Versions <- MCVersions
    Size = 2
    Nothing = Nothing
    Writers = {w1, w2}
    Target = Target
    First = First
    Second = Second
    Old = Old
    New = New
    Stray = Stray
    Spare = {s1, s2}
    Drafts <- MCDrafts
    Plans <- MCPlans
    Reviewed = Old
    MaxTick = 1
INVARIANTS
    ReturnedIsOneVersion
    RefusedOnlyUnfinished
PROPERTIES
    PublishesOnce
    ReadsWhatIsThere
CHECK_DEADLOCK FALSE
