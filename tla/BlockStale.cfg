SPECIFICATION Spec
CONSTANTS
    Callers = {"c1", "c2"}
    Driver = "drv"
    Shapes = {"own"}
    Depth = 8
    IdxMod = 8
    MaxInFlight = 1
    MaxRequests = 3
    MaxResets = 2
    ReuseAfterReset = TRUE
    Groups = FALSE
CHECK_DEADLOCK FALSE
INVARIANT NotShared
