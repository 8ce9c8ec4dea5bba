CONSTANTS
    NChildren = 1
    MaxGroups = 2
    MaxCalls = 2
    Remotes = {TRUE}
    JoinActive = TRUE
SPECIFICATION Spec
INVARIANTS NoLateReply
