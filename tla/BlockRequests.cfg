SPECIFICATION Spec
CONSTANTS
    Callers = {"c1", "c2"}
    Driver = "drv"
    Shapes = {"own", "handoff"}
    Depth = 4
    IdxMod = 8
    MaxInFlight = 1
    MaxRequests = 5
    MaxResets = 2
    ReuseAfterReset = FALSE
    Groups = FALSE
CHECK_DEADLOCK FALSE
INVARIANTS TypeOK NotShared RightAnswer NoDriverFault NothingUnannounced NoFalseDeadlock
PROPERTY LentSpec
