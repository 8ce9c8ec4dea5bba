\* mailbox=1: one slot on the edge, stores visible in program order.
CONSTANTS
    Capacity = 1
    MailboxCap = 1
    MaxSends = 5
    InOrder = TRUE
SPECIFICATION Spec
INVARIANTS TypeOK NoSleepingMessage NoOverwrite BoundedBacklog
PROPERTIES EdgeSpec
CHECK_DEADLOCK FALSE
