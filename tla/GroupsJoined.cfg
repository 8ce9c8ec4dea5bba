CONSTANTS
    NChildren = 2
    MaxGroups = 2
    MaxCalls = 4
    Remotes = {TRUE, FALSE}
    JoinActive = TRUE
SPECIFICATION Spec
INVARIANTS TypeOK ActiveCountsBusy JoinHasSomebody NoPhantomResult CancelledNeverRuns ChildrenEndWithGroup LocalRightReply
PROPERTIES TestFinishes
