CONSTANTS
    NActors = 3
    Calls <- ChainCalls
    MaxCore = 1
    Placements <- ChainPlacements
    Awaits <- ChainCalls
    MailboxCap <- ChainMailboxCap
    MaxSends = 5
SPECIFICATION Spec
INVARIANTS EdgesIndependent
CHECK_DEADLOCK FALSE
