SPECIFICATION Spec
CONSTANTS
    Callers = {"c1", "c2"}
    Driver = "drv"
    Shapes = {"handoff"}
    Depth = 8
    IdxMod = 8
    MaxInFlight = 2
    MaxRequests = 3
    MaxResets = 2
    ReuseAfterReset = FALSE
    Groups = FALSE
CHECK_DEADLOCK FALSE
INVARIANT RightAnswer
