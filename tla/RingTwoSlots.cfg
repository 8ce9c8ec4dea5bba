CONSTANTS
    Capacity = 2
    MailboxCap = 2
    MaxSends = 4
    InOrder = TRUE
SPECIFICATION Spec
INVARIANTS NoDropDuplicateReorder
CHECK_DEADLOCK FALSE
