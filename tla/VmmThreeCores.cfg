CONSTANTS
    NCores = 3
    MaxRaises = 2
    MaxKeeps = 1
SPECIFICATION Spec
INVARIANTS TypeOK NothingBeforeRelease StateMatchesThread NoSilentEnd NobodyWaitsForNobody
PROPERTIES WakeServed BatonServed AllReturn
