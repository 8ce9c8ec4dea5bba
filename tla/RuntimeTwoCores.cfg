CONSTANTS
    NActors = 3
    Calls <- MCCalls
    MaxCore = 1
    Placements <- MCPlacements
    Awaits <- MCAwaits
    MailboxCap <- MCMailboxCap
    MaxSends = 3
SPECIFICATION RingsSpec
INVARIANTS TypeOK CallsAccountedFor CountsExact SenderFifo SleepersHaveNoWork NeverStuck
PROPERTIES CallsSpec Halts
