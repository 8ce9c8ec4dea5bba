CONSTANTS
    NActors = 3
    Calls <- SplitCalls
    MaxCore = 1
    Placements <- SplitPlacements
    Awaits <- SplitAwaits
    MailboxCap <- ChainMailboxCap
    MaxSends = 4
SPECIFICATION Spec
INVARIANTS CoreZeroWakeKept
CHECK_DEADLOCK FALSE
